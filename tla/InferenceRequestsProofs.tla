------------------------ MODULE InferenceRequestsProofs ------------------------
(***************************************************************************)
(* Four results about one inference, for every model, every request a      *)
(* front end may be given, every request object an application may build,  *)
(* and every width of size_t.                                              *)
(*                                                                         *)
(* A request is answered, counted and forgotten once. Nothing is counted   *)
(* before the answer, and only the steps that answer count (CountInv). A   *)
(* C-API inference begins only when no asynchronous one is under way, so   *)
(* until it answers its callback has been told nothing, and from           *)
(* StartAsync on the stream stays with the asynchronous inference until    *)
(* its callback was told (CallInv). The infer request of the stream writes *)
(* into a buffer of the application only while somebody has the stream     *)
(* (StreamInv).                                                            *)
(*                                                                         *)
(* OpenVINO reads the bytes of the request and no others. The count of the *)
(* elements, computed in size_t, is the product of the dimensions as long  *)
(* as it is ok (CountIsBytes, by induction over the dimensions), so the    *)
(* content check compares with the bytes the shape needs in unbounded      *)
(* arithmetic (ContentFits). What Check has established of every input     *)
(* stays true through a reload, which changes shapes but no types          *)
(* (ContentInv), up to Deserialize. The slices of a REST body are taken    *)
(* one after the other (BodyInOrder, by induction over the inputs).        *)
(*                                                                         *)
(* A reload serves the request that asked for it. Until the reload the     *)
(* request passes every check of every input and the model has the         *)
(* batching mode of what it asks (DemandInv), so the new shapes are its    *)
(* own and nothing is left to refuse or to ask for (ReloadedServes).       *)
(*                                                                         *)
(* The front ends agree. Both make the same checks of the same tensors but *)
(* the last, and that one compares the same two numbers (SameTensors); a   *)
(* validation that refuses nothing ends with the last demand (LastDemand). *)
(*                                                                         *)
(* Induction over data is the least-element principle of the natural       *)
(* numbers (LeastOf), from the well-foundedness of <.                      *)
(***************************************************************************)
EXTENDS InferenceRequests, TLAPS, WellFoundedInduction, SequenceTheorems

Working == {"lookup", "check", "reload", "getStream", "feed", "infer", "start"}
Served == Working \ {"lookup"}

FrontInv ==
    /\ pc \in Working \cup {"idle", "answered", "crashed"}
    /\ front \in Fronts
    /\ pc \in Served => kind = "model"
    /\ pc = "infer" => front # "async"
    /\ pc = "start" => front = "async"

CountInv ==
    /\ pc # "answered" => counted = "none"
    /\ counted # "twice"
    /\ pc = "answered" /\ Api = "kfs" =>
          /\ counted = "success" => status \in {"OK", "REST_UNSUPPORTED_PRECISION"}
          /\ counted = "fail" => status # "OK"
          /\ kind \in {"model", "pipeline"} => counted # "none"

CallInv ==
    /\ pc \in Working /\ Api = "capi" =>
          call = NoCall /\ reply = "none" /\ stream # "async"
    /\ stream = "async" => call.front = "async" /\ call.status = "OK"
    /\ call.front = "sync" /\ call.callback =>
          reply = IF call.status = "OK" THEN "success" ELSE "failure"
    /\ call.front = "async" =>
          IF call.status = "OK" THEN stream = "async" \/ reply # "none"
                                ELSE reply = "none"

StreamInv ==
    /\ pc \in {"feed", "infer", "start"} => stream = "call"
    /\ stream = "free" => output = "own"

RequestsInv == FrontInv /\ CountInv /\ CallInv /\ StreamInv

--------------------------------------------------------------------------------
(* The steps, by who makes them.                                               *)

\* A C-API inference that answers was told nothing before: its callback now
\* hears what the call returns, or nothing.
LEMMA AnswerIsHeard ==
    ASSUME FrontInv, CallInv, pc \in Working, NEW result, Answer(result),
           UNCHANGED front,
           stream' = stream \/ (stream = "call" /\ stream' = "free"),
           front = "async" => result # "OK"
    PROVE  CallInv'
<1> USE DEF Answer, CallInv, Working
<1>1. CASE Api = "capi"
    <2>1. /\ call = NoCall /\ reply = "none" /\ stream' # "async"
          /\ pc' = "answered" /\ front \in {"sync", "async"}
          /\ call' = [front |-> front, status |-> result,
                     callback |-> capi.callback]
          /\ reply' = IF front = "sync" /\ capi.callback
                     THEN IF result = "OK" THEN "success" ELSE "failure"
                     ELSE reply
        BY <1>1 DEF FrontInv, Fronts, Api
    <2> QED BY <2>1
<1>2. CASE Api # "capi"
    <2>1. pc' = "answered" /\ UNCHANGED <<call, reply>>
        BY <1>2 DEF FrontInv, Fronts, Api
    <2> QED BY <2>1
<1> QED BY <1>1, <1>2

\* A failure of infer() gives the stream back, counts once and tells the
\* callback of a synchronous C-API inference.
LEMMA FailKeeps ==
    ASSUME RequestsInv, pc \in Served, NEW result, Fail(result), result # "OK"
    PROVE  RequestsInv'
<1> USE DEF RequestsInv, Fail, Answer
<1>1. FrontInv'
    BY DEF FrontInv, Working, Served
<1>2. CountInv'
    BY DEF CountInv, FrontInv, Count, Api, Working, Served
<1>3. CallInv'
    BY DEF CallInv, FrontInv, StreamInv, Api, NoCall, Working, Served, Fronts
<1>4. StreamInv'
    BY DEF StreamInv, Served, Working
<1> QED BY <1>1, <1>2, <1>3, <1>4

\* The application builds its request object while nothing is under way.
LEMMA BuildKeeps == ASSUME RequestsInv, Build PROVE RequestsInv'
<1>1. /\ pc = "idle" /\ stream # "async"
      /\ call' = NoCall /\ reply' = "none"
      /\ UNCHANGED <<pc, front, kind, status, stream, output, counted>>
    BY DEF Build, AddInput, AddOutput, SetInputBuffer, SetOutputBuffer,
       RemoveInputBuffer, RemoveOutputBuffer, RemoveInput, RemoveOutput,
       SetCompletionCallback, Building, OnlyObject
<1> USE <1>1 DEF RequestsInv
<1>2. FrontInv'
    BY DEF FrontInv, Working, Served
<1>3. CountInv'
    BY DEF CountInv, Working, Api
<1>4. CallInv'
    BY DEF CallInv, NoCall, Working, Api
<1>5. StreamInv'
    BY DEF StreamInv
<1> QED BY <1>2, <1>3, <1>4, <1>5

\* A request arrives, or a REST body that cannot be converted is answered.
LEMMA ArriveKeeps ==
    ASSUME RequestsInv, GrpcInfer \/ RestInfer \/ (\E f \in {"sync", "async"} : CapiInfer(f))
    PROVE  RequestsInv'
<1> USE DEF RequestsInv
<1>1. CASE GrpcInfer
    <2>1. FrontInv'
        BY <1>1 DEF GrpcInfer, FrontInv, Working, Served, Fronts
    <2>2. CountInv'
        BY <1>1 DEF GrpcInfer, CountInv
    <2>3. CallInv'
        BY <1>1 DEF GrpcInfer, CallInv, Api
    <2>4. StreamInv'
        BY <1>1 DEF GrpcInfer, StreamInv
    <2> QED BY <2>1, <2>2, <2>3, <2>4
<1>2. CASE RestInfer
    <2>1. /\ pc = "idle" /\ front' = "rest"
          /\ UNCHANGED <<stream, output, call, reply>>
          /\ \/ pc' = "lookup" /\ UNCHANGED <<kind, status, counted>>
             \/ /\ pc' = "answered" /\ status' # "OK"
                /\ counted' = IF kind' \in {"model", "pipeline", "unloadedPipeline"}
                              THEN "fail" ELSE "none"
        BY <1>2 DEF RestInfer
    <2>2. FrontInv'
        BY <2>1 DEF FrontInv, Working, Served, Fronts
    <2>3. CountInv'
        BY <2>1 DEF CountInv
    <2>4. CallInv'
        BY <2>1 DEF CallInv, Api
    <2>5. StreamInv'
        BY <2>1 DEF StreamInv
    <2> QED BY <2>2, <2>3, <2>4, <2>5
<1>3. CASE \E f \in {"sync", "async"} : CapiInfer(f)
    <2>1. FrontInv'
        BY <1>3 DEF CapiInfer, FrontInv, Working, Served, Fronts
    <2>2. CountInv'
        BY <1>3 DEF CapiInfer, CountInv
    <2>3. CallInv'
        BY <1>3 DEF CapiInfer, CallInv, NoCall
    <2>4. StreamInv'
        BY <1>3 DEF CapiInfer, StreamInv
    <2> QED BY <2>1, <2>2, <2>3, <2>4
<1> QED BY <1>1, <1>2, <1>3

\* The servable is found, or something else than a model answers.
LEMMA LookupKeeps ==
    ASSUME RequestsInv, LookupFails \/ LookupModel \/ ServeOther
    PROVE  RequestsInv'
<1> USE DEF RequestsInv
<1>1. CASE LookupFails
    <2>1. FrontInv'
        BY <1>1 DEF LookupFails, Answer, FrontInv, Working, Served
    <2>2. CountInv'
        BY <1>1 DEF LookupFails, Answer, Count, CountInv, FrontInv, Api
    <2>5. pc \in Working /\ UNCHANGED <<front, stream>>
        BY <1>1 DEF LookupFails, Working
    <2>3. \/ Answer("MODEL_VERSION_NOT_LOADED_YET")
          \/ Answer("MODEL_VERSION_MISSING")
          \/ Answer("PIPELINE_DEFINITION_NOT_LOADED_YET")
          \/ Answer("NAME_MISSING")
        BY <1>1 DEF LookupFails
    <2>6. CallInv'
        <3>1. CASE Answer("MODEL_VERSION_NOT_LOADED_YET")
            BY <2>5, <3>1, AnswerIsHeard
        <3>2. CASE Answer("MODEL_VERSION_MISSING")
            BY <2>5, <3>2, AnswerIsHeard
        <3>3. CASE Answer("PIPELINE_DEFINITION_NOT_LOADED_YET")
            BY <2>5, <3>3, AnswerIsHeard
        <3>4. CASE Answer("NAME_MISSING")
            BY <2>5, <3>4, AnswerIsHeard
        <3> QED BY <2>3, <3>1, <3>2, <3>3, <3>4
    <2>4. StreamInv'
        BY <1>1 DEF LookupFails, Answer, StreamInv
    <2> QED BY <2>1, <2>2, <2>4, <2>6
<1>2. CASE LookupModel
    <2>1. FrontInv'
        BY <1>2 DEF LookupModel, FrontInv, Working, Served
    <2>2. CountInv'
        BY <1>2 DEF LookupModel, CountInv
    <2>3. CallInv'
        BY <1>2 DEF LookupModel, CallInv, Api, Working
    <2>4. StreamInv'
        BY <1>2 DEF LookupModel, StreamInv
    <2> QED BY <2>1, <2>2, <2>3, <2>4
<1>3. CASE ServeOther
    <2>1. FrontInv'
        BY <1>3 DEF ServeOther, Answer, FrontInv, Working, Served
    <2>2. CountInv'
        BY <1>3 DEF ServeOther, Answer, Count, CountInv, FrontInv, Api
    <2>3. CallInv'
        BY <1>3 DEF ServeOther, Answer, CallInv, FrontInv, Api, NoCall,
           Working, Fronts
    <2>4. StreamInv'
        BY <1>3 DEF ServeOther, Answer, StreamInv
    <2> QED BY <2>1, <2>2, <2>3, <2>4
<1> QED BY <1>1, <1>2, <1>3

\* The request goes on towards the infer request of the stream.
LEMMA AdvanceKeeps ==
    ASSUME RequestsInv,
           UNCHANGED <<front, kind, call, reply, counted>>,
           pc \in Served, pc' \in Served \cup {"crashed"},
           \/ /\ pc' \in {"reload", "getStream"} /\ UNCHANGED <<stream, output>>
           \/ pc' = "feed" /\ stream = "free" /\ stream' = "call"
           \/ /\ pc' = "infer" /\ front # "async"
              /\ stream = "call" /\ stream' = "call"
           \/ /\ pc' = "start" /\ front = "async"
              /\ stream = "call" /\ stream' = "call"
           \/ pc' = "crashed" /\ UNCHANGED <<stream, output>>
    PROVE  RequestsInv'
<1> USE DEF RequestsInv
<1>1. FrontInv'
    BY DEF FrontInv, Working, Served
<1>2. CountInv'
    BY DEF CountInv, Served, Working
<1>3. CallInv'
    BY DEF CallInv, Api, Served, Working
<1>4. StreamInv'
    BY DEF StreamInv
<1> QED BY <1>1, <1>2, <1>3, <1>4

\* infer(), up to the tensors.
LEMMA PrepareKeeps ==
    ASSUME RequestsInv, Check \/ Reload \/ GetStream \/ Deserialize
    PROVE  RequestsInv'
<1>1. CASE Check
    <2> DEFINE result == Validate(Api, request, model)
    <2>1. pc = "check" /\ pc \in Served
        BY <1>1 DEF Check, Served, Working
    <2>2. CASE result \in {"OK", "RESHAPE_REQUIRED", "BATCHSIZE_CHANGE_REQUIRED"}
        <3>1. /\ pc' \in {"reload", "getStream"}
              /\ UNCHANGED <<front, kind, stream, output, call, reply, counted>>
            BY <1>1, <2>2 DEF Check
        <3>2. pc' \in Served
            BY <3>1 DEF Served, Working
        <3> QED BY <2>1, <3>1, <3>2, AdvanceKeeps
    <2>3. CASE result \notin {"OK", "RESHAPE_REQUIRED", "BATCHSIZE_CHANGE_REQUIRED"}
        <3>1. Fail(result)
            BY <1>1, <2>3 DEF Check
        <3> HIDE DEF result
        <3> QED BY <2>1, <2>3, <3>1, FailKeeps
    <2> QED BY <2>2, <2>3
<1>2. CASE Reload
    <2>1. pc \in Served
        BY <1>2 DEF Reload, Served, Working
    <2>2. CASE Fail("RESHAPE_ERROR") \/ Fail("INTERNAL_ERROR")
        BY <2>1, <2>2, FailKeeps
    <2>3. CASE ~ (Fail("RESHAPE_ERROR") \/ Fail("INTERNAL_ERROR"))
        <3>1. /\ pc' = "getStream" /\ pc' \in Served
              /\ UNCHANGED <<front, kind, stream, output, call, reply, counted>>
            BY <1>2, <2>3 DEF Reload, Served, Working
        <3> QED BY <2>1, <3>1, AdvanceKeeps
    <2> QED BY <2>2, <2>3
<1>3. CASE GetStream
    <2>1. pc \in Served /\ pc' \in Served /\ pc' = "feed"
          /\ stream = "free" /\ stream' = "call"
        BY <1>3 DEF GetStream, Served, Working
    <2> QED BY <1>3, <2>1, AdvanceKeeps DEF GetStream
<1>4. CASE Deserialize
    <2>1. pc = "feed" /\ pc \in Served /\ stream = "call"
        BY <1>4 DEF Deserialize, Served, Working, RequestsInv, StreamInv
    <2>2. \/ Fail("OV_INTERNAL_DESERIALIZATION_ERROR")
          \/ /\ pc' = "crashed"
             /\ UNCHANGED <<front, kind, stream, output, call, reply, counted>>
          \/ /\ pc' = IF front = "async" THEN "start" ELSE "infer"
             /\ UNCHANGED <<front, kind, stream, call, reply, counted>>
        BY <1>4 DEF Deserialize
    <2>3. CASE Fail("OV_INTERNAL_DESERIALIZATION_ERROR")
        BY <2>1, <2>3, FailKeeps
    <2>4. CASE ~ Fail("OV_INTERNAL_DESERIALIZATION_ERROR")
        <3>1. pc' \in Served \cup {"crashed"}
            BY <2>2, <2>4 DEF Served, Working
        <3> QED BY <2>1, <2>2, <2>4, <3>1, AdvanceKeeps
    <2> QED BY <2>3, <2>4
<1> QED BY <1>1, <1>2, <1>3, <1>4

\* The inference, synchronous or started.
LEMMA InferKeeps ==
    ASSUME RequestsInv, Infer \/ StartAsync
    PROVE  RequestsInv'
<1>1. pc \in Served
    BY DEF Infer, StartAsync, Served, Working
<1>2. CASE \/ Fail("OV_INTERNAL_INFERENCE_ERROR")
           \/ Fail("OV_INTERNAL_SERIALIZATION_ERROR")
    BY <1>1, <1>2, FailKeeps
<1>3. CASE Infer /\ ~ (\/ Fail("OV_INTERNAL_INFERENCE_ERROR")
                      \/ Fail("OV_INTERNAL_SERIALIZATION_ERROR"))
    <2>1. PICK result \in {"OK", "REST_UNSUPPORTED_PRECISION"} :
              /\ Answer(result) /\ (front # "rest" => result = "OK")
              /\ pc = "infer" /\ Count(TRUE)
              /\ stream' = "free" /\ output' = "own"
              /\ UNCHANGED <<model, capi, front, kind>>
        BY <1>3 DEF Infer
    <2> USE <2>1 DEF RequestsInv, Answer
    <2>2. FrontInv'
        BY DEF FrontInv, Working, Served
    <2>3. CountInv'
        BY DEF CountInv, FrontInv, Count, Api
    <2>6. pc \in Working /\ front # "async" /\ stream = "call"
        BY DEF FrontInv, StreamInv, Working
    <2>4. CallInv'
        BY <2>6, AnswerIsHeard
    <2>5. StreamInv'
        BY DEF StreamInv
    <2> QED BY <2>2, <2>3, <2>4, <2>5
<1>4. CASE StartAsync /\ ~ Fail("OV_INTERNAL_INFERENCE_ERROR")
    <2>1. PICK started \in BOOLEAN :
              /\ stream' = IF started THEN "async" ELSE "lost"
              /\ Answer(IF started THEN "OK" ELSE "OV_INTERNAL_INFERENCE_ERROR")
              /\ pc = "start"
              /\ UNCHANGED <<model, capi, front, kind, output, counted>>
        BY <1>4 DEF StartAsync
    <2> USE <2>1 DEF RequestsInv, Answer
    <2>2. FrontInv'
        BY DEF FrontInv, Working, Served
    <2>3. CountInv'
        BY DEF CountInv, FrontInv, Api
    <2>4. CallInv'
        BY DEF CallInv, FrontInv, Api, NoCall, Working
    <2>5. StreamInv'
        BY DEF StreamInv
    <2> QED BY <2>2, <2>3, <2>4, <2>5
<1> QED BY <1>2, <1>3, <1>4

\* OpenVINO calls back, and the front end returns.
LEMMA AfterwardsKeeps ==
    ASSUME RequestsInv, Return \/ AsyncCallback \/ ReleaseAsync
    PROVE  RequestsInv'
<1> USE DEF RequestsInv
<1>1. CASE Return
    <2>1. FrontInv'
        BY <1>1 DEF Return, FrontInv, Working, Served, Fronts
    <2>2. CountInv'
        BY <1>1 DEF Return, CountInv
    <2>3. CallInv'
        BY <1>1 DEF Return, CallInv, NoCall, Working
    <2>4. StreamInv'
        BY <1>1 DEF Return, StreamInv
    <2> QED BY <2>1, <2>2, <2>3, <2>4
<1>2. CASE AsyncCallback
    <2>1. FrontInv'
        BY <1>2 DEF AsyncCallback, FrontInv
    <2>2. CountInv'
        BY <1>2 DEF AsyncCallback, CountInv, Api
    <2>3. CallInv'
        BY <1>2 DEF AsyncCallback, CallInv, Api
    <2>4. StreamInv'
        BY <1>2 DEF AsyncCallback, StreamInv
    <2> QED BY <2>1, <2>2, <2>3, <2>4
<1>3. CASE ReleaseAsync
    <2>1. FrontInv'
        BY <1>3 DEF ReleaseAsync, FrontInv
    <2>2. CountInv'
        BY <1>3 DEF ReleaseAsync, CountInv, Api
    <2>3. CallInv'
        BY <1>3 DEF ReleaseAsync, CallInv, Api
    <2>4. StreamInv'
        BY <1>3 DEF ReleaseAsync, StreamInv
    <2> QED BY <2>1, <2>2, <2>3, <2>4
<1> QED BY <1>1, <1>2, <1>3

--------------------------------------------------------------------------------

\* Every reachable state satisfies the invariant.
LEMMA RequestsInvariant == Spec => []RequestsInv
<1>1. Init => RequestsInv
    BY DEF Init, RequestsInv, FrontInv, CountInv, CallInv, StreamInv, NoCall,
       Working, Served, Fronts
<1>2. ASSUME RequestsInv, UNCHANGED vars PROVE RequestsInv'
    BY <1>2 DEF vars, RequestsInv, FrontInv, CountInv, CallInv, StreamInv, Api
<1>3. RequestsInv /\ [Next]_vars => RequestsInv'
    BY <1>2, BuildKeeps, ArriveKeeps, LookupKeeps, PrepareKeeps, InferKeeps,
       AfterwardsKeeps DEF Next
<1> QED BY <1>1, <1>3, PTL DEF Spec

\* A KServe request is counted at most once and with the result it had
\* (ExecutingStreamIdGuard, OutputKeeper, INCREMENT_IF_ENABLED in the
\* reporters); the completion callback of a C-API inference agrees with what
\* OVMS_Inference or OVMS_InferenceAsync returned; and an infer request nobody
\* uses writes into its own tensors.
THEOREM RequestsAreAnsweredOnce == Spec => []AnsweredOnce
<1>1. RequestsInv => CountedOnce
    BY DEF RequestsInv, CountInv, CountedOnce
<1>2. RequestsInv => CallbackAgrees
    BY DEF RequestsInv, CallInv, CallbackAgrees
<1>3. RequestsInv => OutputsReset
    BY DEF RequestsInv, StreamInv, OutputsReset
<1>4. RequestsInv => AnsweredOnce
    BY <1>1, <1>2, <1>3 DEF AnsweredOnce
<1> QED BY <1>4, RequestsInvariant, PTL

--------------------------------------------------------------------------------
(* Induction.                                                                  *)

\* Every nonempty set of numbers has a least one.
LEMMA LeastOf ==
    ASSUME NEW T \in SUBSET Nat, T # {}
    PROVE  \E m \in T : \A k \in T : m <= k
<1> DEFINE R == OpToRel(<, Nat)
<1>1. IsWellFoundedOn(R, Nat)
  BY NatLessThanWellFounded
<1>2. \A k, m \in Nat : k < m => <<k, m>> \in R
  BY DEF OpToRel
<1> HIDE DEF R
<1>3. PICK m \in T : \A k \in T : ~ (<<k, m>> \in R)
  BY <1>1, WFMin
<1>4. ASSUME NEW k \in T PROVE m <= k
  <2>1. k \in Nat /\ m \in Nat
    OBVIOUS
  <2>2. ~ (k < m)
    BY <2>1, <1>2, <1>3, Zenon
  <2> QED BY <2>1, <2>2
<1> QED
  BY <1>4

\* f is what the recursion from b by g defines on 0 .. n.
Recursive(f, n, S, b, g) ==
    /\ f \in [0 .. n -> S]
    /\ f[0] = b
    /\ \A i \in 1 .. n : f[i] = g[<<i, f[i - 1]>>]

\* A recursion over an interval defines a function.
LEMMA RecursionDefines ==
    ASSUME NEW n \in Nat, NEW S, NEW b \in S, NEW g \in [(1 .. n) \X S -> S]
    PROVE  \E f : Recursive(f, n, S, b, g)
<1> DEFINE Good(k, f) ==
              /\ f \in [0 .. k -> S]
              /\ f[0] = b
              /\ \A i \in 1 .. k : f[i] = g[<<i, f[i - 1]>>]
           Bad == {k \in 0 .. n : ~ \E f : Good(k, f)}
<1>1. SUFFICES ASSUME Bad # {} PROVE FALSE
  <2>1. n \in 0 .. n
    OBVIOUS
  <2>2. (\E f : Good(n, f)) => \E f : Recursive(f, n, S, b, g)
    BY DEF Recursive
  <2> HIDE DEF Good
  <2> QED BY <2>1, <2>2, Zenon
<1>2. PICK k \in Bad : \A j \in Bad : k <= j
  <2>1. Bad \in SUBSET Nat
    OBVIOUS
  <2> HIDE DEF Bad
  <2> QED BY <1>1, <2>1, LeastOf
<1>3. k # 0
  <2> SUFFICES ASSUME k = 0 PROVE FALSE
    OBVIOUS
  <2> DEFINE f == [i \in 0 .. 0 |-> b]
  <2>1. Good(0, f)
    OBVIOUS
  <2> QED BY <2>1
<1>4. PICK f : Good(k - 1, f)
  BY <1>2, <1>3
<1> DEFINE h == [i \in 0 .. k |-> IF i < k THEN f[i] ELSE g[<<k, f[k - 1]>>]]
<1>5. h \in [0 .. k -> S]
  <2>1. \A i \in 0 .. k : i < k => f[i] \in S
    BY <1>2, <1>3, <1>4
  <2>2. g[<<k, f[k - 1]>>] \in S
    <3>1. k \in 1 .. n /\ f[k - 1] \in S
      BY <1>2, <1>3, <2>1
    <3> QED BY <3>1
  <2> QED BY <2>1, <2>2
<1>6. Good(k, h)
  <2>1. h[0] = b
    BY <1>3, <1>4, <1>2
  <2>2. ASSUME NEW i \in 1 .. k
        PROVE  h[i] = g[<<i, h[i - 1]>>]
    <3>2. CASE i < k
      <4>1. h[i] = f[i] /\ h[i - 1] = f[i - 1]
        BY <3>2, <1>2
      <4>2. f[i] = g[<<i, f[i - 1]>>]
        BY <3>2, <1>4, <1>2
      <4> QED BY <4>1, <4>2
    <3>3. CASE i = k
      <4>1. h[i - 1] = f[k - 1] /\ h[i] = g[<<k, f[k - 1]>>]
        BY <3>3, <1>2, <1>3
      <4> QED BY <3>3, <4>1
    <3> QED BY <3>2, <3>3, <1>2
  <2> QED BY <2>1, <2>2, <1>5
<1> QED BY <1>2, <1>6

--------------------------------------------------------------------------------
(* Sizes.                                                                      *)

\* What the test before a multiplication in size_t is for.
LEMMA ProductFits ==
    ASSUME NEW m \in Nat, NEW a \in Nat, NEW d \in 1 .. m, a <= m \div d
    PROVE  a * d \in 0 .. m
<1> DEFINE q == m \div d
           r == m % d
<1>1. q \in Nat /\ r \in Nat /\ m = d * q + r
  OBVIOUS
<1>2. PICK b \in Nat : q = a + b
  <2>1. q - a \in Nat /\ q = a + (q - a)
    BY <1>1
  <2> QED BY <2>1
<1> HIDE DEF q, r
<1>3. d * q = d * a + d * b
  BY <1>1, <1>2
<1>4. d * b \in Nat /\ d * a \in Nat /\ a * d = d * a
  OBVIOUS
<1> QED BY <1>1, <1>3, <1>4

Counts == [ok : BOOLEAN, zero : BOOLEAN, count : Nat]

\* One dimension more.
LEMMA CountTyped ==
    ASSUME NEW acc \in Counts, NEW d \in Int
    PROVE  CountDimension(acc, d) \in Counts
<1>1. Times(acc.count, Cast(d)) \in Nat
  BY SizeMaxAssumption DEF Times, Cast, Counts
<1> QED
  BY <1>1 DEF CountDimension, Counts

\* The elements of a shape are counted from its first dimension on.
LEMMA ElementsUnfold ==
    ASSUME NEW shape \in Seq(Int)
    PROVE  \E e : /\ e \in [0 .. Len(shape) -> Counts]
                  /\ e[0] = [ok |-> TRUE, zero |-> FALSE, count |-> 1]
                  /\ \A k \in 1 .. Len(shape) : e[k] = CountDimension(e[k - 1], shape[k])
                  /\ ElementCount(shape) = e[Len(shape)]
<1> DEFINE n == Len(shape)
           b == [ok |-> TRUE, zero |-> FALSE, count |-> 1]
           Is(e) == e = [k \in 0 .. n |-> IF k = 0 THEN b
                                          ELSE CountDimension(e[k - 1], shape[k])]
           g == [x \in (1 .. n) \X Counts |-> CountDimension(x[2], shape[x[1]])]
           e == CHOOSE e : Is(e)
<1>0. n \in Nat /\ \A k \in 1 .. n : shape[k] \in Int
  OBVIOUS
<1>1. \A x \in (1 .. n) \X Counts : CountDimension(x[2], shape[x[1]]) \in Counts
  BY <1>0, CountTyped
<1>2. b \in Counts
  BY DEF Counts
<1>3. g \in [(1 .. n) \X Counts -> Counts]
  BY <1>1
<1>4. PICK f : Recursive(f, n, Counts, b, g)
  <2> HIDE DEF n, b, g
  <2> QED BY <1>0, <1>2, <1>3, RecursionDefines, Zenon
<1>5. f \in [0 .. n -> Counts] /\ f[0] = b /\ \A i \in 1 .. n : f[i] = g[<<i, f[i - 1]>>]
  BY <1>4 DEF Recursive
<1>6. \A i \in 1 .. n : f[i] = CountDimension(f[i - 1], shape[i])
  <2> TAKE i \in 1 .. n
  <2>1. i - 1 \in 0 .. n
    BY <1>0
  <2>2. <<i, f[i - 1]>> \in (1 .. n) \X Counts
    BY <2>1, <1>5
  <2> QED BY <1>5, <2>2
<1>7. Is(f)
  <2>1. ASSUME NEW k \in 0 .. n
        PROVE  f[k] = IF k = 0 THEN b ELSE CountDimension(f[k - 1], shape[k])
    <3> HIDE DEF n, b
    <3>1. k = 0 \/ k \in 1 .. n
      BY <1>0
    <3> QED BY <3>1, <1>5, <1>6, Zenon
  <2> QED BY <2>1, <1>5
<1>8. Is(e)
  <2> HIDE DEF Is
  <2> QED BY <1>7
<1>9. ElementCount(shape) = e[n]
  BY DEF ElementCount
<1> HIDE DEF e, g
<1>10. \A k \in 0 .. n : e[k] = IF k = 0 THEN b ELSE CountDimension(e[k - 1], shape[k])
  BY <1>8, Zenon
<1>11. e[0] = b /\ \A k \in 1 .. n : e[k] = CountDimension(e[k - 1], shape[k])
  <2> HIDE DEF b
  <2>1. 0 \in 0 .. n /\ \A k \in 1 .. n : k \in 0 .. n /\ k # 0
    BY <1>0
  <2> QED BY <1>10, <2>1, Zenon
<1>12. e \in [0 .. n -> Counts]
  <2>1. DOMAIN e = 0 .. n /\ e = [k \in 0 .. n |-> e[k]]
    <3>1. \E h : e = [k \in 0 .. n |-> h[k]]
      <4> DEFINE h == [k \in 0 .. n |-> IF k = 0 THEN b ELSE CountDimension(e[k - 1], shape[k])]
      <4>1. e = h
        BY <1>8
      <4>2. h = [k \in 0 .. n |-> h[k]]
        OBVIOUS
      <4> HIDE DEF h
      <4> QED BY <4>1, <4>2
    <3> QED BY <3>1
  <2> DEFINE Bad == {k \in 0 .. n : e[k] \notin Counts}
  <2>2. Bad = {}
    <3> SUFFICES ASSUME Bad # {} PROVE FALSE
      OBVIOUS
    <3>1. PICK k \in Bad : \A j \in Bad : k <= j
      <4>1. Bad \in SUBSET Nat
        OBVIOUS
      <4> HIDE DEF Bad
      <4> QED BY <4>1, LeastOf
    <3>2. k # 0
      BY <3>1, <1>11, <1>2
    <3>3. k \in 1 .. n /\ e[k - 1] \in Counts
      BY <3>1, <3>2, <1>0
    <3>4. e[k] \in Counts
      BY <3>3, <1>11, <1>0, CountTyped
    <3> QED BY <3>4, <3>1
  <2> QED BY <2>1, <2>2
<1> QED
  BY <1>9, <1>11, <1>12

\* The same for the product of a shape, in unbounded arithmetic.
LEMMA BytesUnfold ==
    ASSUME NEW item \in Int, NEW shape \in Seq(Int)
    PROVE  \E p : /\ p \in [0 .. Len(shape) -> Int]
                  /\ p[0] = item
                  /\ \A k \in 1 .. Len(shape) : p[k] = p[k - 1] * shape[k]
                  /\ Bytes(item, shape) = p[Len(shape)]
<1> DEFINE n == Len(shape)
           Is(e) == e = [k \in 0 .. n |-> IF k = 0 THEN item ELSE e[k - 1] * shape[k]]
           g == [x \in (1 .. n) \X Int |-> x[2] * shape[x[1]]]
           e == CHOOSE e : Is(e)
<1>0. n \in Nat /\ \A k \in 1 .. n : shape[k] \in Int
  OBVIOUS
<1>3. g \in [(1 .. n) \X Int -> Int]
  <2>1. \A x \in (1 .. n) \X Int : x[2] * shape[x[1]] \in Int
    BY <1>0
  <2> QED BY <2>1
<1>4. PICK f : Recursive(f, n, Int, item, g)
  <2> HIDE DEF n, g
  <2> QED BY <1>0, <1>3, RecursionDefines, Zenon
<1>5. f \in [0 .. n -> Int] /\ f[0] = item /\ \A i \in 1 .. n : f[i] = g[<<i, f[i - 1]>>]
  BY <1>4 DEF Recursive
<1>6. \A i \in 1 .. n : f[i] = f[i - 1] * shape[i]
  <2> TAKE i \in 1 .. n
  <2>1. i - 1 \in 0 .. n
    BY <1>0
  <2>2. <<i, f[i - 1]>> \in (1 .. n) \X Int
    BY <2>1, <1>5
  <2> QED BY <1>5, <2>2
<1>7. Is(f)
  <2>1. ASSUME NEW k \in 0 .. n
        PROVE  f[k] = IF k = 0 THEN item ELSE f[k - 1] * shape[k]
    <3> HIDE DEF n
    <3>1. k = 0 \/ k \in 1 .. n
      BY <1>0
    <3> QED BY <3>1, <1>5, <1>6, Zenon
  <2> QED BY <2>1, <1>5
<1>8. Is(e)
  <2> HIDE DEF Is
  <2> QED BY <1>7
<1>9. Bytes(item, shape) = e[n]
  BY DEF Bytes
<1> HIDE DEF e, g
<1>10. \A k \in 0 .. n : e[k] = IF k = 0 THEN item ELSE e[k - 1] * shape[k]
  BY <1>8, Zenon
<1>11. e[0] = item /\ \A k \in 1 .. n : e[k] = e[k - 1] * shape[k]
  <2>1. 0 \in 0 .. n /\ \A k \in 1 .. n : k \in 0 .. n /\ k # 0
    BY <1>0
  <2> QED BY <1>10, <2>1, Zenon
<1>12. e \in [0 .. n -> Int]
  <2>1. DOMAIN e = 0 .. n /\ e = [k \in 0 .. n |-> e[k]]
    <3>1. \E h : e = [k \in 0 .. n |-> h[k]]
      <4> DEFINE h == [k \in 0 .. n |-> IF k = 0 THEN item ELSE e[k - 1] * shape[k]]
      <4>1. e = h
        BY <1>8
      <4>2. h = [k \in 0 .. n |-> h[k]]
        OBVIOUS
      <4> HIDE DEF h
      <4> QED BY <4>1, <4>2
    <3> QED BY <3>1
  <2> DEFINE Bad == {k \in 0 .. n : e[k] \notin Int}
  <2>2. Bad = {}
    <3> SUFFICES ASSUME Bad # {} PROVE FALSE
      OBVIOUS
    <3>1. PICK k \in Bad : \A j \in Bad : k <= j
      <4>1. Bad \in SUBSET Nat
        OBVIOUS
      <4> HIDE DEF Bad
      <4> QED BY <4>1, LeastOf
    <3>2. k # 0
      BY <3>1, <1>11
    <3>3. k \in 1 .. n /\ e[k - 1] \in Int
      BY <3>1, <3>2, <1>0
    <3>4. e[k] \in Int
      BY <3>3, <1>11, <1>0
    <3> QED BY <3>4, <3>1
  <2> QED BY <2>1, <2>2
<1> QED
  BY <1>9, <1>11, <1>12

IsShape(shape) ==
    /\ shape \in Seq(Int) /\ FitsSize(shape)
    /\ \A k \in DOMAIN shape : shape[k] >= 0

\* One dimension more, in size_t and in unbounded arithmetic: as long as the
\* count is ok it is not wrapped.
LEMMA CountStep ==
    ASSUME NEW acc \in Counts, NEW d \in 0 .. SizeMax, NEW item \in Nat, NEW product \in Int,
           CountDimension(acc, d).ok,
           acc.ok => /\ acc.count \in 0 .. SizeMax /\ (acc.zero <=> acc.count = 0)
                     /\ product = acc.count * item
    PROVE  LET next == CountDimension(acc, d)
           IN  /\ next.count \in 0 .. SizeMax /\ (next.zero <=> next.count = 0)
               /\ product * d = next.count * item
<1> DEFINE c == acc.count
<1>0. acc.ok
  BY DEF CountDimension, Counts
<1>1. /\ c \in 0 .. SizeMax /\ (acc.zero <=> c = 0) /\ product = c * item
      /\ acc.ok \in BOOLEAN /\ acc.zero \in BOOLEAN
      /\ DOMAIN acc = {"ok", "zero", "count"}
  BY <1>0 DEF Counts
<1>2. Cast(d) = d
  BY SizeMaxAssumption DEF Cast
<1>3. CASE acc.zero
  <2>1. CountDimension(acc, d) = acc
    BY <1>0, <1>3 DEF CountDimension
  <2>2. c = 0 /\ product = 0
    BY <1>1, <1>3
  <2> QED BY <2>1, <2>2, <1>1, <1>3
<1>4. CASE ~acc.zero /\ d = 0
  <2>1. CountDimension(acc, d) = [acc EXCEPT !.count = 0, !.zero = TRUE]
    BY <1>0, <1>4 DEF CountDimension
  <2>2. CountDimension(acc, d).count = 0 /\ CountDimension(acc, d).zero = TRUE
    BY <2>1, <1>1
  <2>3. product * d = 0 /\ 0 * item = 0
    BY <1>4
  <2> QED BY <2>2, <2>3, SizeMaxAssumption
<1>5. CASE ~acc.zero /\ d # 0
  <2>1. ~ (c > SizeMax \div d)
    BY <1>0, <1>1, <1>2, <1>5 DEF CountDimension, Counts
  <2>2. d \in 1 .. SizeMax /\ SizeMax \div d \in Int /\ c \in Nat /\ SizeMax \in Nat
    BY <1>1, <1>5, SizeMaxAssumption
  <2>3. c * d \in 0 .. SizeMax
    BY <2>1, <2>2, ProductFits
  <2>4. Times(c, d) = c * d
    BY <2>3, SizeMaxAssumption DEF Times
  <2>5. CountDimension(acc, d) = [acc EXCEPT !.count = c * d]
    BY <1>0, <1>2, <1>5, <2>1, <2>4 DEF CountDimension
  <2>6. CountDimension(acc, d).count = c * d /\ CountDimension(acc, d).zero = acc.zero
    BY <2>5, <1>1
  <2>7. c # 0
    BY <1>1, <1>5
  <2>8. c * d # 0
    <3>1. c \in Nat \ {0} /\ d \in Nat \ {0}
      BY <2>7, <2>2
    <3> HIDE DEF c
    <3> QED BY <3>1
  <2>9. product * d = (c * d) * item
    <3> HIDE DEF c
    <3>1. (c * item) * d = (c * d) * item
      BY <2>2
    <3> QED BY <3>1, <1>1
  <2> QED BY <2>3, <2>6, <2>8, <2>9, <1>5
<1> QED
  BY <1>3, <1>4, <1>5

\* computeExpectedElementCountReturnFalseIfOverflow: without an overflow the
\* elements take, in unbounded arithmetic, the bytes of the shape.
LEMMA CountIsBytes ==
    ASSUME NEW shape, IsShape(shape), NEW item \in Nat, ElementCount(shape).ok
    PROVE  /\ ElementCount(shape).count \in 0 .. SizeMax
           /\ Bytes(item, shape) = ElementCount(shape).count * item
<1> DEFINE n == Len(shape)
<1>0. n \in Nat /\ shape \in Seq(Int) /\ \A k \in 1 .. n : shape[k] \in 0 .. SizeMax
  BY SizeMaxAssumption DEF IsShape, FitsSize
<1>1. PICK e : /\ e \in [0 .. n -> Counts]
               /\ e[0] = [ok |-> TRUE, zero |-> FALSE, count |-> 1]
               /\ \A k \in 1 .. n : e[k] = CountDimension(e[k - 1], shape[k])
               /\ ElementCount(shape) = e[n]
  BY <1>0, ElementsUnfold
<1>2. PICK p : /\ p \in [0 .. n -> Int]
               /\ p[0] = item
               /\ \A k \in 1 .. n : p[k] = p[k - 1] * shape[k]
               /\ Bytes(item, shape) = p[n]
  <2>1. item \in Int
    OBVIOUS
  <2> QED BY <1>0, <2>1, BytesUnfold
<1> HIDE DEF n
<1> DEFINE P(k) == e[k].ok => /\ e[k].count \in 0 .. SizeMax
                              /\ (e[k].zero <=> e[k].count = 0)
                              /\ p[k] = e[k].count * item
<1>3. P(0)
  BY <1>1, <1>2, SizeMaxAssumption
<1>4. ASSUME NEW k \in 1 .. n, P(k - 1) PROVE P(k)
  <2>1. SUFFICES ASSUME e[k].ok
                 PROVE  /\ e[k].count \in 0 .. SizeMax /\ (e[k].zero <=> e[k].count = 0)
                        /\ p[k] = e[k].count * item
    OBVIOUS
  <2>2. k - 1 \in 0 .. n
    BY <1>0
  <2>3. e[k - 1] \in Counts /\ p[k - 1] \in Int /\ shape[k] \in 0 .. SizeMax
    BY <2>2, <1>0, <1>1, <1>2
  <2>4. e[k] = CountDimension(e[k - 1], shape[k]) /\ p[k] = p[k - 1] * shape[k]
    BY <1>1, <1>2
  <2> DEFINE acc == e[k - 1]
             product == p[k - 1]
             d == shape[k]
  <2>5. CountDimension(acc, d).ok
    BY <2>1, <2>4
  <2>6. acc.ok => /\ acc.count \in 0 .. SizeMax /\ (acc.zero <=> acc.count = 0)
                  /\ product = acc.count * item
    BY <1>4
  <2>7. acc \in Counts /\ product \in Int /\ d \in 0 .. SizeMax
    BY <2>3
  <2>8. e[k] = CountDimension(acc, d) /\ p[k] = product * d
    BY <2>4
  <2> HIDE DEF acc, product, d
  <2>9. LET next == CountDimension(acc, d)
        IN  /\ next.count \in 0 .. SizeMax /\ (next.zero <=> next.count = 0)
            /\ product * d = next.count * item
    BY <2>5, <2>6, <2>7, CountStep
  <2> QED BY <2>8, <2>9
<1>5. P(n)
  <2> DEFINE Bad == {k \in 0 .. n : ~ P(k)}
  <2> HIDE DEF P
  <2>1. SUFFICES ASSUME Bad # {} PROVE FALSE
    <3>1. n \in 0 .. n
      BY <1>0
    <3> QED BY <3>1
  <2>2. PICK k \in Bad : \A j \in Bad : k <= j
    <3>1. Bad \in SUBSET Nat
      OBVIOUS
    <3> HIDE DEF Bad
    <3> QED BY <2>1, <3>1, LeastOf
  <2>3. k # 0
    BY <1>3, <2>2
  <2>4. k \in 1 .. n /\ P(k - 1)
    BY <2>2, <2>3, <1>0
  <2> QED BY <2>2, <2>4, <1>4
<1> QED
  BY <1>1, <1>2, <1>5

\* computeExpectedBufferSizeReturnFalseIfOverflow does not wrap either.
LEMMA SizeIsProduct ==
    ASSUME NEW count \in 0 .. SizeMax, NEW item \in 1 .. SizeMax, BufferSize(count, item).ok
    PROVE  BufferSize(count, item).size = count * item
<1>1. CASE count = 0
  BY <1>1 DEF BufferSize
<1>2. CASE count # 0
  <2>1. ~ (count > SizeMax \div item) /\ BufferSize(count, item).size = Times(count, item)
    BY <1>2 DEF BufferSize
  <2>2. SizeMax \in Nat /\ SizeMax \div item \in Int /\ count \in Nat /\ item \in 1 .. SizeMax
    BY SizeMaxAssumption
  <2>3. count <= SizeMax \div item
    BY <2>1, <2>2
  <2>4. count * item \in 0 .. SizeMax
    BY <2>2, <2>3, ProductFits
  <2> QED BY <2>1, <2>2, <2>4 DEF Times
<1> QED
  BY <1>1, <1>2

\* What validateTensorContent and validateCapiTensorContent let through has
\* the bytes its shape needs.
LEMMA ContentFits ==
    ASSUME NEW api \in {"kfs", "capi"}, NEW req, NEW at \in DOMAIN req.inputs, NEW info,
           IsShape(req.inputs[at].shape), info.type \in DOMAIN ItemSize,
           Content(api, req, req.inputs, at, info) = "OK"
    PROVE  LET t == req.inputs[at]
               item == ItemSize[info.type]
           IN  Bytes(item, t.shape) = IF api = "capi" THEN t.bytes
                                      ELSE IF req.raw # <<>> THEN req.raw[at]
                                      ELSE t.count * item
<1> DEFINE t == req.inputs[at]
           item == ItemSize[info.type]
           elements == ElementCount(t.shape)
<1>1. item \in 1 .. SizeMax /\ item \in Nat
  BY ItemSizeAssumption
<1> HIDE DEF item, t
<1>2. ASSUME elements.ok
      PROVE  /\ elements.count \in 0 .. SizeMax
             /\ Bytes(item, t.shape) = elements.count * item
  BY <1>1, <1>2, CountIsBytes DEF t
<1>3. CASE api = "capi"
  <2>1. /\ elements.ok /\ BufferSize(elements.count, item).ok
        /\ BufferSize(elements.count, item).size = t.bytes
    BY <1>3 DEF Content, CapiContent, ExpectedBytes, t, item
  <2> QED BY <2>1, <1>1, <1>2, <1>3, SizeIsProduct DEF t, item
<1>4. CASE api = "kfs"
  <2>1. /\ elements.ok
        /\ IF req.raw # <<>>
           THEN /\ BufferSize(elements.count, item).ok
                /\ BufferSize(elements.count, item).size = req.raw[at]
           ELSE elements.count = t.count
    BY <1>4 DEF Content, KfsContent, t, item
  <2> QED BY <2>1, <1>1, <1>2, <1>4, SizeIsProduct DEF t, item
<1> QED
  BY <1>3, <1>4

--------------------------------------------------------------------------------
(* What a validation that does not refuse has established.                     *)

\* Every nonempty set of positions has a last one.
LEMMA GreatestOf ==
    ASSUME NEW n \in Nat, NEW T \in SUBSET (1 .. n), T # {}
    PROVE  /\ Max(T) \in T
           /\ \A k \in T : k <= Max(T)
<1> DEFINE B == {b \in Nat : \A k \in T : k <= b}
<1>1. PICK m \in B : \A b \in B : m <= b
  <2>1. n \in B /\ B \in SUBSET Nat
    OBVIOUS
  <2> HIDE DEF B
  <2> QED BY <2>1, LeastOf
<1>2. m \in T
  <2> SUFFICES ASSUME m \notin T PROVE FALSE
    OBVIOUS
  <2>1. PICK k \in T : TRUE
    OBVIOUS
  <2>2. m >= 1
    BY <1>1, <2>1
  <2>3. \A j \in T : j <= m - 1
    BY <1>1
  <2>4. m - 1 \in B
    BY <1>1, <2>2, <2>3
  <2> QED BY <1>1, <2>4
<1>3. \E x \in T : \A y \in T : x >= y
  BY <1>1, <1>2
<1> QED
  BY <1>3 DEF Max

\* Find returns the first tensor of that name.
LEMMA FindsFirst ==
    ASSUME NEW S, NEW tensors \in Seq(S), NEW name
    PROVE  LET at == Find(tensors, name)
               I == {i \in 1 .. Len(tensors) : tensors[i].name = name}
           IN  IF I = {} THEN at = 0 ELSE at \in I /\ \A i \in I : at <= i
<1> DEFINE I == {i \in 1 .. Len(tensors) : tensors[i].name = name}
<1>1. Find(tensors, name) = IF I # {} THEN Min(I) ELSE 0
  BY DEF Find, SelectInSeq
<1>2. ASSUME I # {} PROVE Min(I) \in I /\ \A i \in I : Min(I) <= i
  <2>1. I \in SUBSET Nat
    OBVIOUS
  <2> HIDE DEF I
  <2>2. \E x \in I : \A y \in I : x <= y
    BY <1>2, <2>1, LeastOf
  <2> QED BY <2>2 DEF Min
<1> QED
  BY <1>1, <1>2

\* A tensor found is one of that name, and zero means that there is none.
LEMMA FoundHasName ==
    ASSUME NEW S, NEW tensors \in Seq(S), NEW name
    PROVE  LET at == Find(tensors, name)
           IN  /\ at = 0 \/ (at \in DOMAIN tensors /\ tensors[at].name = name)
               /\ at = 0 <=> \A i \in DOMAIN tensors : tensors[i].name # name
<1> DEFINE I == {i \in 1 .. Len(tensors) : tensors[i].name = name}
           at == Find(tensors, name)
<1>1. IF I = {} THEN at = 0 ELSE at \in I
  BY FindsFirst
<1>2. DOMAIN tensors = 1 .. Len(tensors) /\ Len(tensors) \in Nat
  OBVIOUS
<1> HIDE DEF at
<1>3. CASE I = {}
  BY <1>1, <1>2, <1>3 DEF at
<1>4. CASE I # {}
  <2>1. at \in 1 .. Len(tensors) /\ tensors[at].name = name /\ at # 0
    BY <1>1, <1>4, <1>2
  <2> QED BY <2>1, <1>2 DEF at
<1> QED
  BY <1>3, <1>4

\* The result of a check is no demand, so a demand is never taken for a check
\* that passed.
LEMMA CheckIsNoDemand ==
    ASSUME NEW api, NEW choice, NEW req, NEW tensors, NEW sv, NEW info,
           ValidateTensor(api, choice, req, tensors, sv, info) \in Statuses
    PROVE  ValidateTensor(api, choice, req, tensors, sv, info) = "OK"
<1>1. ASSUME NEW at PROVE Content(api, req, tensors, at, info) \in
          {"OK", "INVALID_CONTENT_SIZE", "INVALID_VALUE_COUNT", "NONEXISTENT_BUFFER",
           "INVALID_SHAPE"}
  <2>1. KfsContent(req, at, info) \in {"OK", "INVALID_CONTENT_SIZE", "INVALID_VALUE_COUNT"}
    BY DEF KfsContent
  <2>2. CapiContent(tensors[at], info) \in
            {"OK", "INVALID_CONTENT_SIZE", "NONEXISTENT_BUFFER", "INVALID_SHAPE"}
    BY DEF CapiContent
  <2> QED BY <2>1, <2>2 DEF Content
<1>2. ASSUME NEW at PROVE CheckTensor(api, req, tensors, at, info, sv) \in
          {"OK", "INVALID_CONTENT_SIZE", "INVALID_VALUE_COUNT", "NONEXISTENT_BUFFER",
           "INVALID_SHAPE", "INVALID_PRECISION", "INVALID_NO_OF_SHAPE_DIMENSIONS",
           "INVALID_BATCH_SIZE", "INTERNAL_ERROR"}
  BY <1>1 DEF CheckTensor
<1> QED
  BY <1>2 DEF ValidateTensor, Statuses

\* The loop over the declared tensors, as a whole.
LEMMA LoopPasses ==
    ASSUME NEW api, NEW choice, NEW req, NEW tensors, NEW sv, NEW S, NEW infos \in Seq(S)
    PROVE  LET result == ValidateTensors(api, choice, req, tensors, infos, sv)
               passes == \A i \in DOMAIN infos :
                             ValidateTensor(api, choice, req, tensors, sv, infos[i]) = "OK"
               demands(wanted) == \E i \in DOMAIN infos :
                             TensorDemand(tensors, sv, infos[i]) = wanted
           IN  /\ result \in Statuses <=> passes
               /\ passes /\ result # "OK" => demands(result)
               /\ passes /\ (\A i \in DOMAIN infos : TensorDemand(tensors, sv, infos[i]) = "OK")
                      => result = "OK"
<1> DEFINE check(i) == ValidateTensor(api, choice, req, tensors, sv, infos[i])
           demand(i) == TensorDemand(tensors, sv, infos[i])
           refused == {i \in DOMAIN infos : check(i) # "OK"}
           demanding == {i \in DOMAIN infos : demand(i) # "OK"}
           result == ValidateTensors(api, choice, req, tensors, infos, sv)
           n == Len(infos)
<1>0. n \in Nat /\ DOMAIN infos = 1 .. n
  OBVIOUS
<1>1. result = IF refused # {} THEN check(Min(refused))
               ELSE IF demanding # {} THEN demand(Max(demanding)) ELSE "OK"
  BY DEF ValidateTensors
<1>2. \A i : check(i) \in Statuses => check(i) = "OK"
  <2> TAKE i
  <2> QED BY CheckIsNoDemand
<1>3. \A i : demand(i) \in Statuses
  BY DEF TensorDemand, Demand, Statuses
<1> HIDE DEF check, demand, result, n
<1>4. CASE refused # {}
  <2>1. refused \in SUBSET Nat
    BY <1>0
  <2>2. \E x \in refused : \A y \in refused : x <= y
    <3> HIDE DEF refused
    <3> QED BY <1>4, <2>1, LeastOf
  <2>3. Min(refused) \in refused
    <3> HIDE DEF refused
    <3> QED BY <2>2 DEF Min
  <2>4. result \notin Statuses
    BY <1>1, <1>2, <1>4, <2>3
  <2> QED BY <1>4, <2>4 DEF check, demand, result
<1>5. CASE refused = {}
  <2>1. \A i \in DOMAIN infos : check(i) = "OK"
    BY <1>5
  <2>2. result \in Statuses
    BY <1>1, <1>3, <1>5 DEF Statuses
  <2>3. ASSUME result # "OK" PROVE \E i \in DOMAIN infos : demand(i) = result
    <3>1. demanding # {} /\ result = demand(Max(demanding))
      BY <1>1, <1>5, <2>3
    <3>2. demanding \in SUBSET (1 .. n)
      BY <1>0
    <3>3. Max(demanding) \in demanding
      <4> HIDE DEF demanding
      <4> QED BY <1>0, <3>1, <3>2, GreatestOf
    <3> QED BY <3>1, <3>3
  <2>4. (\A i \in DOMAIN infos : demand(i) = "OK") => result = "OK"
    BY <1>1, <1>5
  <2> QED BY <2>1, <2>2, <2>3, <2>4 DEF check, demand, result
<1> QED
  BY <1>4, <1>5

\* A tensor of a request has the fields of one.
LEMMA TensorAt ==
    ASSUME NEW tensors \in Seq(Tensors), NEW i \in DOMAIN tensors
    PROVE  /\ tensors[i] \in Tensors
           /\ tensors[i].shape \in Seq(Int) /\ tensors[i].count \in Nat
           /\ tensors[i].bytes \in Nat \cup {None}
           /\ DOMAIN tensors[i] = {"name", "shape", "type", "count", "bytes"}
<1>1. tensors[i] \in Tensors
  OBVIOUS
<1> QED
  BY <1>1 DEF Tensors

\* What a tensor that passed is like.
Passed(api, req, tensors, at, info, sv) ==
    LET t == tensors[at] IN
    /\ \A k \in DOMAIN t.shape : t.shape[k] >= 0
    /\ t.type = info.type
    /\ Len(t.shape) = Len(info.shape)
    /\ BatchMismatch(info, t) => sv.batching = "AUTO" \/ sv.mode[info.name] = "AUTO"
    /\ sv.batching = "AUTO" => info.batch # 0
    /\ ShapeMismatch(info, t, sv.batching) => sv.mode[info.name] = "AUTO"
    /\ Content(api, req, tensors, at, info) = "OK"

\* CheckTensor says OK of exactly the tensors that passed.
LEMMA CheckPasses ==
    ASSUME NEW api, NEW req, NEW S, NEW tensors \in Seq(S), NEW at \in DOMAIN tensors,
           NEW info, NEW sv, tensors[at].shape \in Seq(Int)
    PROVE  CheckTensor(api, req, tensors, at, info, sv) = "OK"
              <=> Passed(api, req, tensors, at, info, sv)
<1>1. \A k \in DOMAIN tensors[at].shape : tensors[at].shape[k] \in Int
  OBVIOUS
<1>2. (\E k \in DOMAIN tensors[at].shape : tensors[at].shape[k] < 0)
          <=> ~ \A k \in DOMAIN tensors[at].shape : tensors[at].shape[k] >= 0
  BY <1>1
<1> DEFINE C == Content(api, req, tensors, at, info)
           B == BatchMismatch(info, tensors[at])
           M == ShapeMismatch(info, tensors[at], sv.batching)
           N == \E k \in DOMAIN tensors[at].shape : tensors[at].shape[k] < 0
<1>3. CheckTensor(api, req, tensors, at, info, sv) =
          IF N THEN "INVALID_SHAPE"
          ELSE IF tensors[at].type # info.type THEN "INVALID_PRECISION"
          ELSE IF Len(tensors[at].shape) # Len(info.shape) THEN "INVALID_NO_OF_SHAPE_DIMENSIONS"
          ELSE IF B /\ sv.batching # "AUTO" /\ sv.mode[info.name] # "AUTO"
          THEN "INVALID_BATCH_SIZE"
          ELSE IF sv.batching = "AUTO" /\ info.batch = 0 THEN "INTERNAL_ERROR"
          ELSE IF M /\ sv.mode[info.name] # "AUTO" THEN "INVALID_SHAPE"
          ELSE C
  BY DEF CheckTensor
<1>4. Passed(api, req, tensors, at, info, sv) <=>
          /\ ~N
          /\ tensors[at].type = info.type
          /\ Len(tensors[at].shape) = Len(info.shape)
          /\ B => sv.batching = "AUTO" \/ sv.mode[info.name] = "AUTO"
          /\ sv.batching = "AUTO" => info.batch # 0
          /\ M => sv.mode[info.name] = "AUTO"
          /\ C = "OK"
  BY <1>2 DEF Passed
<1> HIDE DEF C, B, M, N
<1> QED
  BY <1>3, <1>4

TypedRequest(req) ==
    /\ "inputs" \in DOMAIN req
    /\ req.inputs \in Seq(Tensors) /\ req.outputs \in Seq(Tensors)
    /\ req.raw \in Seq(Nat)
    /\ \A i \in DOMAIN req.inputs : FitsSize(req.inputs[i].shape)

TypedModel(sv) ==
    /\ DOMAIN sv = {"inputs", "outputs", "batching", "mode"}
    /\ sv.inputs \in Seq(Infos) /\ sv.inputs # <<>>
    /\ sv.outputs \in Seq(Infos) /\ Len(sv.outputs) = 1
    /\ \A i \in DOMAIN sv.inputs : sv.inputs[i].batch <= Len(sv.inputs[i].shape)
    /\ sv.batching = "AUTO" => \A n \in DOMAIN sv.mode : sv.mode[n] # "AUTO"
    /\ \A i \in DOMAIN sv.inputs : sv.inputs[i].name \in DOMAIN sv.mode
    /\ \A i \in DOMAIN sv.outputs : sv.outputs[i].name \in DOMAIN sv.mode

InputPasses(api, req, sv, info) ==
    /\ Find(req.inputs, info.name) # 0
    /\ Passed(api, req, req.inputs, Find(req.inputs, info.name), info, sv)

\* An input passes when it is there and passes.
LEMMA InputPassesIs ==
    ASSUME NEW api, NEW req, TypedRequest(req), NEW sv, NEW info
    PROVE  ValidateTensor(api, "INPUT", req, req.inputs, sv, info) = "OK"
              <=> InputPasses(api, req, sv, info)
<1> DEFINE at == Find(req.inputs, info.name)
<1>1. req.inputs \in Seq(Tensors)
  BY DEF TypedRequest
<1>2. at = 0 \/ at \in DOMAIN req.inputs
  BY <1>1, FoundHasName
<1>3. \A i \in DOMAIN req.inputs : req.inputs[i].shape \in Seq(Int)
  BY <1>1, TensorAt
<1> HIDE DEF at
<1>4. CASE at = 0
  BY <1>4 DEF ValidateTensor, InputPasses, at
<1>5. CASE at # 0
  <2>1. CheckTensor(api, req, req.inputs, at, info, sv) = "OK"
           <=> Passed(api, req, req.inputs, at, info, sv)
    BY <1>1, <1>2, <1>3, <1>5, CheckPasses
  <2> QED BY <2>1, <1>5 DEF ValidateTensor, InputPasses, at
<1> QED
  BY <1>4, <1>5

\* A tensor that passed asks for a batch size only where the batching mode is
\* AUTO, and for a shape only where it is not.
LEMMA DemandFollowsMode ==
    ASSUME NEW api, NEW choice, NEW req, NEW tensors \in Seq(Tensors), NEW sv, NEW info,
           info.name \in DOMAIN sv.mode,
           sv.batching = "AUTO" => \A n \in DOMAIN sv.mode : sv.mode[n] # "AUTO",
           ValidateTensor(api, choice, req, tensors, sv, info) = "OK",
           TensorDemand(tensors, sv, info) # "OK"
    PROVE  IF TensorDemand(tensors, sv, info) = "BATCHSIZE_CHANGE_REQUIRED"
           THEN sv.batching = "AUTO"
           ELSE /\ TensorDemand(tensors, sv, info) = "RESHAPE_REQUIRED"
                /\ sv.batching # "AUTO"
<1> DEFINE at == Find(tensors, info.name)
<1>1. at \in DOMAIN tensors /\ at # 0
  <2>1. at # 0
    BY DEF TensorDemand
  <2> QED BY <2>1, FoundHasName
<1>2. tensors[at].shape \in Seq(Int)
  BY <1>1, TensorAt
<1>3. Passed(api, req, tensors, at, info, sv)
  <2>1. CheckTensor(api, req, tensors, at, info, sv) = "OK"
    BY <1>1 DEF ValidateTensor
  <2> HIDE DEF at
  <2> QED BY <2>1, <1>1, <1>2, CheckPasses
<1>4. TensorDemand(tensors, sv, info) = Demand(info, tensors[at], sv)
  BY <1>1 DEF TensorDemand
<1>5. ShapeMismatch(info, tensors[at], sv.batching) => sv.batching # "AUTO"
  BY <1>3 DEF Passed
<1> QED
  BY <1>4, <1>5 DEF Demand

\* What Validate has established when it does not refuse, and what it asks for.
LEMMA ValidateEstablishes ==
    ASSUME NEW api \in {"kfs", "capi"}, NEW req, TypedRequest(req), NEW sv, TypedModel(sv),
           Validate(api, req, sv) \in Statuses
    PROVE  /\ NumberOfTensors(req, sv) = "OK" /\ Coherency(api, req) = "OK"
           /\ \A i \in DOMAIN sv.inputs : InputPasses(api, req, sv, sv.inputs[i])
           /\ Validate(api, req, sv) = "BATCHSIZE_CHANGE_REQUIRED" => sv.batching = "AUTO"
           /\ Validate(api, req, sv) = "RESHAPE_REQUIRED" => sv.batching # "AUTO"
<1> DEFINE result == Validate(api, req, sv)
           inputs == ValidateTensors(api, "INPUT", req, req.inputs, sv.inputs, sv)
           outputs == ValidateTensors(api, "OUTPUT", req, req.outputs, sv.outputs, sv)
<1>1. ValidateInputs(api, req, sv) \in Statuses
  BY DEF Validate, Statuses
<1>2. /\ NumberOfTensors(req, sv) = "OK" /\ Coherency(api, req) = "OK"
      /\ ValidateInputs(api, req, sv) = inputs /\ inputs \in Statuses
  BY <1>1 DEF ValidateInputs, NumberOfTensors, Coherency, Statuses
<1>3. result = inputs \/ (result = outputs /\ outputs \in Statuses)
  BY <1>2 DEF Validate
<1>4. /\ req.inputs \in Seq(Tensors) /\ req.outputs \in Seq(Tensors)
      /\ sv.inputs \in Seq(Infos) /\ sv.outputs \in Seq(Infos)
      /\ \A i \in DOMAIN sv.inputs : sv.inputs[i].name \in DOMAIN sv.mode
      /\ \A i \in DOMAIN sv.outputs : sv.outputs[i].name \in DOMAIN sv.mode
      /\ sv.batching = "AUTO" => \A n \in DOMAIN sv.mode : sv.mode[n] # "AUTO"
  BY DEF TypedRequest, TypedModel
<1> HIDE DEF result, inputs, outputs
<1>5. /\ \A i \in DOMAIN sv.inputs :
             ValidateTensor(api, "INPUT", req, req.inputs, sv, sv.inputs[i]) = "OK"
      /\ inputs # "OK" => \E i \in DOMAIN sv.inputs :
             TensorDemand(req.inputs, sv, sv.inputs[i]) = inputs
  BY <1>2, <1>4, LoopPasses DEF inputs
<1>6. outputs \in Statuses =>
         /\ \A i \in DOMAIN sv.outputs :
             ValidateTensor(api, "OUTPUT", req, req.outputs, sv, sv.outputs[i]) = "OK"
         /\ outputs # "OK" => \E i \in DOMAIN sv.outputs :
             TensorDemand(req.outputs, sv, sv.outputs[i]) = outputs
  BY <1>4, LoopPasses DEF outputs
<1>7. inputs = "OK" \/ IF inputs = "BATCHSIZE_CHANGE_REQUIRED" THEN sv.batching = "AUTO"
                       ELSE inputs = "RESHAPE_REQUIRED" /\ sv.batching # "AUTO"
  <2> SUFFICES ASSUME inputs # "OK"
               PROVE  IF inputs = "BATCHSIZE_CHANGE_REQUIRED" THEN sv.batching = "AUTO"
                      ELSE inputs = "RESHAPE_REQUIRED" /\ sv.batching # "AUTO"
    OBVIOUS
  <2>1. PICK i \in DOMAIN sv.inputs : TensorDemand(req.inputs, sv, sv.inputs[i]) = inputs
    BY <1>5
  <2> QED BY <2>1, <1>4, <1>5, DemandFollowsMode
<1>8. outputs \in Statuses =>
         outputs = "OK" \/ IF outputs = "BATCHSIZE_CHANGE_REQUIRED" THEN sv.batching = "AUTO"
                           ELSE outputs = "RESHAPE_REQUIRED" /\ sv.batching # "AUTO"
  <2> SUFFICES ASSUME outputs \in Statuses, outputs # "OK"
               PROVE  IF outputs = "BATCHSIZE_CHANGE_REQUIRED" THEN sv.batching = "AUTO"
                      ELSE outputs = "RESHAPE_REQUIRED" /\ sv.batching # "AUTO"
    OBVIOUS
  <2>1. PICK i \in DOMAIN sv.outputs : TensorDemand(req.outputs, sv, sv.outputs[i]) = outputs
    BY <1>6
  <2> QED BY <2>1, <1>4, <1>6, DemandFollowsMode
<1>9. \A i \in DOMAIN sv.inputs : InputPasses(api, req, sv, sv.inputs[i])
  <2> TAKE i \in DOMAIN sv.inputs
  <2> QED BY <1>5, InputPassesIs
<1> QED
  BY <1>2, <1>3, <1>7, <1>8, <1>9 DEF result

\* The converse, of the inputs.
LEMMA InputsAccepted ==
    ASSUME NEW api \in {"kfs", "capi"}, NEW req, TypedRequest(req), NEW sv,
           NEW S, sv.inputs \in Seq(S),
           NumberOfTensors(req, sv) = "OK", Coherency(api, req) = "OK",
           \A i \in DOMAIN sv.inputs :
               /\ InputPasses(api, req, sv, sv.inputs[i])
               /\ TensorDemand(req.inputs, sv, sv.inputs[i]) = "OK"
    PROVE  ValidateInputs(api, req, sv) = "OK"
<1>1. \A i \in DOMAIN sv.inputs :
          ValidateTensor(api, "INPUT", req, req.inputs, sv, sv.inputs[i]) = "OK"
  <2> TAKE i \in DOMAIN sv.inputs
  <2> QED BY InputPassesIs
<1>2. ValidateTensors(api, "INPUT", req, req.inputs, sv.inputs, sv) = "OK"
  BY <1>1, LoopPasses
<1> QED
  BY <1>2 DEF ValidateInputs

--------------------------------------------------------------------------------
(* The raw contents a REST body is cut into.                                   *)

TakingErrors == {"OK", "REST_BINARY_BUFFER_EXCEEDED", "REST_CONTENTS_FIELD_NOT_EMPTY",
                 "REST_BINARY_DATA_SIZE_PARAMETER_INVALID", "INVALID_CONTENT_SIZE"}
Takings == [error : TakingErrors, raw : Seq(Nat), at : Seq(Nat), offset : Nat]

\* The slices taken so far are in the body, one after the other.
SlicesInOrder(acc, binary) ==
    /\ acc \in Takings /\ acc.offset <= binary /\ Len(acc.at) = Len(acc.raw)
    /\ \A i \in 1 .. Len(acc.raw) :
           /\ acc.at[i] + acc.raw[i] <= acc.offset
           /\ \A j \in 1 .. i - 1 : acc.at[j] + acc.raw[j] <= acc.at[i]

\* handleBinaryInput takes the next bytes, if there are enough of them.
LEMMA TakeKeepsOrder ==
    ASSUME NEW acc, NEW binary \in Nat, NEW size \in Nat, SlicesInOrder(acc, binary)
    PROVE  SlicesInOrder(TakeBinary(acc, size, binary), binary)
<1>0. /\ acc.offset \in Nat /\ acc.raw \in Seq(Nat) /\ acc.at \in Seq(Nat)
      /\ acc.error \in TakingErrors /\ DOMAIN acc = {"error", "raw", "at", "offset"}
      /\ acc \in Takings /\ acc.offset <= binary /\ Len(acc.at) = Len(acc.raw)
  BY DEF SlicesInOrder, Takings
<1>1. CASE size > binary - acc.offset
  <2>1. TakeBinary(acc, size, binary) = [acc EXCEPT !.error = "REST_BINARY_BUFFER_EXCEEDED"]
    BY <1>1 DEF TakeBinary
  <2> DEFINE next == [acc EXCEPT !.error = "REST_BINARY_BUFFER_EXCEEDED"]
  <2>2. /\ next \in Takings /\ next.raw = acc.raw /\ next.at = acc.at
        /\ next.offset = acc.offset
    BY <1>0 DEF Takings, TakingErrors
  <2> HIDE DEF next
  <2>3. SlicesInOrder(next, binary)
    BY <2>2 DEF SlicesInOrder
  <2> QED BY <2>1, <2>3 DEF next
<1>2. CASE ~ (size > binary - acc.offset)
  <2> DEFINE raw == Append(acc.raw, size)
             at == Append(acc.at, acc.offset)
             offset == acc.offset + size
             next == [acc EXCEPT !.raw = raw, !.at = at, !.offset = offset]
             n == Len(acc.raw)
  <2>1. TakeBinary(acc, size, binary) = next
    BY <1>2 DEF TakeBinary
  <2>2. /\ raw \in Seq(Nat) /\ at \in Seq(Nat) /\ Len(raw) = n + 1 /\ Len(at) = n + 1
        /\ raw[n + 1] = size /\ at[n + 1] = acc.offset /\ n \in Nat
        /\ \A i \in 1 .. n : raw[i] = acc.raw[i] /\ at[i] = acc.at[i]
        /\ \A i \in 1 .. n : acc.raw[i] \in Nat /\ acc.at[i] \in Nat
        /\ offset \in Nat /\ offset <= binary
    <3>1. /\ raw \in Seq(Nat) /\ Len(raw) = n + 1 /\ raw[n + 1] = size /\ n \in Nat
          /\ \A i \in 1 .. n : raw[i] = acc.raw[i] /\ acc.raw[i] \in Nat
      BY <1>0
    <3>2. Len(acc.at) = n
      BY <1>0
    <3>3. /\ at \in Seq(Nat) /\ Len(at) = n + 1 /\ at[n + 1] = acc.offset
          /\ \A i \in 1 .. n : at[i] = acc.at[i] /\ acc.at[i] \in Nat
      <4> HIDE DEF n
      <4> QED BY <1>0, <3>2
    <3>4. offset \in Nat /\ offset <= binary
      BY <1>0, <1>2
    <3> QED BY <3>1, <3>3, <3>4
  <2> HIDE DEF raw, at, offset, n
  <2>3. next \in Takings /\ next.raw = raw /\ next.at = at /\ next.offset = offset
    BY <1>0, <2>2 DEF Takings
  <2>4. ASSUME NEW i \in 1 .. n + 1
        PROVE  /\ at[i] + raw[i] <= offset
               /\ \A j \in 1 .. i - 1 : at[j] + raw[j] <= at[i]
    <3>1. \A k \in 1 .. n : /\ acc.at[k] + acc.raw[k] <= acc.offset
                            /\ \A j \in 1 .. k - 1 : acc.at[j] + acc.raw[j] <= acc.at[k]
      BY DEF SlicesInOrder, n
    <3>2. CASE i \in 1 .. n
      <4>1. /\ acc.at[i] + acc.raw[i] <= acc.offset
            /\ acc.at[i] \in Nat /\ acc.raw[i] \in Nat
            /\ at[i] = acc.at[i] /\ raw[i] = acc.raw[i]
        BY <3>1, <3>2, <2>2
      <4>2. at[i] + raw[i] <= offset
        BY <4>1, <1>0 DEF offset
      <4>3. ASSUME NEW j \in 1 .. i - 1 PROVE at[j] + raw[j] <= at[i]
        <5>1. j \in 1 .. n
          BY <3>2, <2>2
        <5>2. acc.at[j] + acc.raw[j] <= acc.at[i]
          BY <3>1, <3>2
        <5> QED BY <5>1, <5>2, <4>1, <2>2
      <4> QED BY <4>2, <4>3
    <3>3. CASE i = n + 1
      <4>1. \A j \in 1 .. i - 1 : j \in 1 .. n
        BY <3>3, <2>2
      <4> QED BY <4>1, <3>1, <3>3, <2>2, <1>0 DEF offset
    <3> QED BY <3>2, <3>3, <2>2
  <2> HIDE DEF next
  <2>5. SlicesInOrder(next, binary)
    BY <2>2, <2>3, <2>4 DEF SlicesInOrder
  <2> QED BY <2>1, <2>5
<1> QED
  BY <1>1, <1>2

\* One round of handleBinaryInputs.
LEMMA HandleKeepsOrder ==
    ASSUME NEW acc, NEW binary \in Nat, NEW input \in JsonInputs, SlicesInOrder(acc, binary)
    PROVE  SlicesInOrder(HandleBinaryInput(acc, input, binary), binary)
<1> DEFINE computed == ExpectedBytes(input.shape, ItemSize[input.type])
<1>1. computed.size \in Nat
  <2>1. PICK e : /\ e \in [0 .. Len(input.shape) -> Counts]
                 /\ ElementCount(input.shape) = e[Len(input.shape)]
    <3>1. input.shape \in Seq(Int)
      BY DEF JsonInputs
    <3> QED BY <3>1, ElementsUnfold
  <2>2. ElementCount(input.shape).count \in Nat
    <3>1. Len(input.shape) \in 0 .. Len(input.shape)
      BY DEF JsonInputs
    <3>2. ElementCount(input.shape) \in Counts
      BY <2>1, <3>1
    <3> QED BY <3>2 DEF Counts
  <2>3. ItemSize[input.type] \in Nat
    BY ItemSizeAssumption DEF JsonInputs
  <2>4. \A c, i \in Nat : BufferSize(c, i).size \in Nat
    <3> TAKE c, i \in Nat
    <3>1. Times(c, i) \in Nat
      BY SizeMaxAssumption DEF Times
    <3> QED BY <3>1 DEF BufferSize
  <2> QED BY <2>2, <2>3, <2>4 DEF ExpectedBytes
<1> HIDE DEF computed
<1>2. ASSUME NEW error \in TakingErrors
      PROVE  SlicesInOrder([acc EXCEPT !.error = error], binary)
  <2> DEFINE next == [acc EXCEPT !.error = error]
  <2>1. acc \in Takings
    BY DEF SlicesInOrder
  <2>2. /\ next \in Takings /\ next.raw = acc.raw /\ next.at = acc.at
        /\ next.offset = acc.offset
    BY <2>1 DEF Takings
  <2> HIDE DEF next
  <2>3. SlicesInOrder(next, binary)
    BY <2>2 DEF SlicesInOrder
  <2> QED BY <2>3 DEF next
<1>3. input.bsize \in Int
  BY DEF JsonInputs
<1>4. SlicesInOrder(TakeBinary(acc, computed.size, binary), binary)
  BY <1>1, TakeKeepsOrder
<1>5. ~ (input.bsize < 0) => SlicesInOrder(TakeBinary(acc, input.bsize, binary), binary)
  BY <1>3, TakeKeepsOrder
<1>6. \/ HandleBinaryInput(acc, input, binary) = acc
      \/ \E error \in TakingErrors : HandleBinaryInput(acc, input, binary) = [acc EXCEPT !.error = error]
      \/ HandleBinaryInput(acc, input, binary) = TakeBinary(acc, computed.size, binary)
      \/ /\ ~ (input.bsize < 0)
         /\ HandleBinaryInput(acc, input, binary) = TakeBinary(acc, input.bsize, binary)
  <2>1. /\ "REST_CONTENTS_FIELD_NOT_EMPTY" \in TakingErrors
        /\ "REST_BINARY_DATA_SIZE_PARAMETER_INVALID" \in TakingErrors
        /\ "INVALID_CONTENT_SIZE" \in TakingErrors
    BY DEF TakingErrors
  <2>2. \/ HandleBinaryInput(acc, input, binary) = acc
        \/ HandleBinaryInput(acc, input, binary) =
               [acc EXCEPT !.error = "REST_CONTENTS_FIELD_NOT_EMPTY"]
        \/ HandleBinaryInput(acc, input, binary) =
               [acc EXCEPT !.error = "REST_BINARY_DATA_SIZE_PARAMETER_INVALID"]
        \/ HandleBinaryInput(acc, input, binary) = [acc EXCEPT !.error = "INVALID_CONTENT_SIZE"]
        \/ HandleBinaryInput(acc, input, binary) = TakeBinary(acc, computed.size, binary)
        \/ /\ ~ (input.bsize < 0)
           /\ HandleBinaryInput(acc, input, binary) = TakeBinary(acc, input.bsize, binary)
    BY Zenon DEF HandleBinaryInput, computed
  <2> QED BY <2>1, <2>2, Zenon
<1> QED
  BY <1>2, <1>4, <1>5, <1>6

\* The slices of a whole body.
LEMMA BodyInOrder ==
    ASSUME NEW body, body.inputs \in Seq(JsonInputs), body.binary \in Nat
    PROVE  SlicesInOrder(HandleBinaryInputs(body), body.binary)
<1> DEFINE n == Len(body.inputs)
           b == [error |-> "OK", raw |-> <<>>, at |-> <<>>, offset |-> 0]
           S == {acc \in Takings : SlicesInOrder(acc, body.binary)}
           F(acc, i) == HandleBinaryInput(acc, body.inputs[i], body.binary)
           Is(e) == e = [k \in 0 .. n |-> IF k = 0 THEN b ELSE F(e[k - 1], k)]
           g == [x \in (1 .. n) \X S |-> F(x[2], x[1])]
           e == CHOOSE e : Is(e)
<1>0. n \in Nat /\ \A i \in 1 .. n : body.inputs[i] \in JsonInputs
  OBVIOUS
<1>1. ASSUME NEW acc \in S, NEW i \in 1 .. n PROVE F(acc, i) \in S
  <2>1. SlicesInOrder(F(acc, i), body.binary)
    BY <1>0, HandleKeepsOrder
  <2> HIDE DEF F
  <2> QED BY <2>1 DEF SlicesInOrder
<1>2. b \in S
  <2>1. b \in Takings /\ b.offset = 0 /\ b.raw = <<>> /\ b.at = <<>>
    BY DEF Takings, TakingErrors
  <2>2. Len(<<>>) = 0
    OBVIOUS
  <2>3. SlicesInOrder(b, body.binary)
    <3> HIDE DEF b
    <3>1. 0 <= body.binary /\ 1 .. 0 = {}
      OBVIOUS
    <3> QED BY <2>1, <2>2, <3>1 DEF SlicesInOrder
  <2> QED BY <2>1, <2>3
<1> HIDE DEF S, F, b
<1>3. g \in [(1 .. n) \X S -> S]
  BY <1>1
<1>4. PICK f : Recursive(f, n, S, b, g)
  <2> HIDE DEF n, g
  <2> QED BY <1>0, <1>2, <1>3, RecursionDefines, Zenon
<1>5. f \in [0 .. n -> S] /\ f[0] = b /\ \A i \in 1 .. n : f[i] = g[<<i, f[i - 1]>>]
  BY <1>4 DEF Recursive
<1>6. \A i \in 1 .. n : f[i] = F(f[i - 1], i)
  <2> TAKE i \in 1 .. n
  <2>1. i - 1 \in 0 .. n
    BY <1>0
  <2>2. <<i, f[i - 1]>> \in (1 .. n) \X S
    BY <2>1, <1>5
  <2> QED BY <1>5, <2>2
<1>7. Is(f)
  <2>1. ASSUME NEW k \in 0 .. n
        PROVE  f[k] = IF k = 0 THEN b ELSE F(f[k - 1], k)
    <3> HIDE DEF n
    <3>1. k = 0 \/ k \in 1 .. n
      BY <1>0
    <3> QED BY <3>1, <1>5, <1>6, Zenon
  <2> QED BY <2>1, <1>5
<1>8. Is(e)
  <2> HIDE DEF Is
  <2> QED BY <1>7
<1>9. HandleBinaryInputs(body) = e[n]
  BY DEF HandleBinaryInputs, F, b
<1> HIDE DEF e, g
<1>10. \A k \in 0 .. n : e[k] = IF k = 0 THEN b ELSE F(e[k - 1], k)
  BY <1>8, Zenon
<1> DEFINE Bad == {k \in 0 .. n : e[k] \notin S}
<1>11. Bad = {}
  <2> SUFFICES ASSUME Bad # {} PROVE FALSE
    OBVIOUS
  <2>1. PICK k \in Bad : \A j \in Bad : k <= j
    <3>1. Bad \in SUBSET Nat
      OBVIOUS
    <3> HIDE DEF Bad
    <3> QED BY <3>1, LeastOf
  <2>2. k # 0
    BY <2>1, <1>10, <1>2
  <2>3. k \in 1 .. n /\ e[k - 1] \in S
    BY <2>1, <2>2, <1>0
  <2>4. e[k] \in S
    <3>1. k \in 0 .. n /\ e[k] = F(e[k - 1], k)
      BY <2>1, <2>2, <1>10
    <3> QED BY <2>3, <3>1, <1>1
  <2> QED BY <2>4, <2>1
<1>12. e[n] \in S
  BY <1>0, <1>11
<1> QED
  BY <1>9, <1>12 DEF S

--------------------------------------------------------------------------------
(* The invariant.                                                              *)

TypesInv ==
    /\ kind \in Kinds
    /\ stream \in {"free", "call", "async", "lost"} /\ output \in {"own", "client"}
    /\ reply \in {"none", "success", "failure"}
    /\ counted \in {"none", "success", "fail", "twice"}

Bare(t) == [t EXCEPT !.bytes = None]

\* The request object: its inputs are tensors of different names that the
\* application added, with or without a buffer.
CapiInv ==
    /\ capi \in [inputs : Seq(Tensors), outputs : Seq(Tensors), callback : BOOLEAN]
    /\ Len(capi.outputs) <= 1
    /\ \A i \in DOMAIN capi.inputs : Bare(capi.inputs[i]) \in CapiInputs
    /\ \A i, j \in DOMAIN capi.inputs : i # j => capi.inputs[i].name # capi.inputs[j].name

DataInv == CapiInv /\ TypedModel(model) /\ TypedRequest(request)

\* From the validation to the deserialization the request has the contents of
\* every input of the model, whatever the reload makes of its shapes.
Contents(api, req, info) ==
    LET at == Find(req.inputs, info.name)
    IN  /\ at # 0
        /\ \A k \in DOMAIN req.inputs[at].shape : req.inputs[at].shape[k] >= 0
        /\ Content(api, req, req.inputs, at, info) = "OK"

ContentInv ==
    pc \in {"reload", "getStream", "feed"} =>
        \A i \in DOMAIN model.inputs : Contents(Api, request, model.inputs[i])

\* Until the reload the request is one the model accepts but for what it asks.
DemandInv ==
    pc = "reload" =>
        /\ NumberOfTensors(request, model) = "OK" /\ Coherency(Api, request) = "OK"
        /\ \A i \in DOMAIN model.inputs : InputPasses(Api, request, model, model.inputs[i])
        /\ status \in {"RESHAPE_REQUIRED", "BATCHSIZE_CHANGE_REQUIRED"}
        /\ status = "BATCHSIZE_CHANGE_REQUIRED" <=> model.batching = "AUTO"

SafetyInv ==
    /\ TypesInv /\ DataInv /\ ContentInv /\ DemandInv
    /\ TensorsFitBuffers /\ SlicesDisjoint /\ ReloadServes

\* Which steps touch the request object, the model, the request and what is
\* handed to the stream, and which lead to the states the invariant is about.
LEMMA Frames ==
    ASSUME Next
    PROVE  /\ UNCHANGED capi \/ Build
           /\ UNCHANGED model \/ Reload
           /\ UNCHANGED request \/ request' = NoRequest \/ GrpcInfer \/ RestInfer
                \/ \E f \in {"sync", "async"} : CapiInfer(f)
           /\ UNCHANGED handed \/ handed' = {} \/ Deserialize
           /\ pc' \in {"reload", "getStream", "feed"} =>
                \/ Check \/ Reload
                \/ /\ pc \in {"reload", "getStream", "feed"} /\ (pc' = "reload" => pc = "reload")
                   /\ pc' = "getStream" => pc = "getStream"
                   /\ UNCHANGED <<model, front, request, status>>
           /\ pc' = "lookup" /\ front' = "rest" =>
                RestInfer \/ UNCHANGED <<pc, front, request>>
<1>1. CASE Build
  <2>1. UNCHANGED <<model, pc, front, request, status, handed>>
    BY <1>1 DEF Build, AddInput, AddOutput, SetInputBuffer, SetOutputBuffer,
       RemoveInputBuffer, RemoveOutputBuffer, RemoveInput, RemoveOutput,
       SetCompletionCallback, OnlyObject
  <2> QED BY <1>1, <2>1
<1>2. CASE GrpcInfer
  BY <1>2 DEF GrpcInfer
<1>3. CASE RestInfer
  BY <1>3 DEF RestInfer
<1>4. CASE \E f \in {"sync", "async"} : CapiInfer(f)
  BY <1>4 DEF CapiInfer
<1>5. CASE LookupFails \/ LookupModel \/ ServeOther
  BY <1>5 DEF LookupFails, LookupModel, ServeOther, Answer
<1>6. CASE Check
  BY <1>6 DEF Check, Fail, Answer
<1>7. CASE Reload
  BY <1>7 DEF Reload, Fail, Answer
<1>8. CASE GetStream
  BY <1>8 DEF GetStream
<1>9. CASE Deserialize
  <2>1. /\ UNCHANGED <<capi, model>>
        /\ \/ pc' = "answered" /\ request' = NoRequest
           \/ pc' \in {"crashed", "start", "infer"} /\ UNCHANGED request
    BY <1>9 DEF Deserialize, Fail, Answer
  <2> QED BY <1>9, <2>1
<1>10. CASE Infer \/ StartAsync
  BY <1>10 DEF Infer, StartAsync, Fail, Answer
<1>11. CASE Return \/ AsyncCallback \/ ReleaseAsync
  BY <1>11 DEF Return, AsyncCallback, ReleaseAsync
<1> QED
  BY <1>1, <1>2, <1>3, <1>4, <1>5, <1>6, <1>7, <1>8, <1>9, <1>10, <1>11 DEF Next

\* The types.
LEMMA TypesKept == ASSUME TypesInv, Next PROVE TypesInv'
<1> USE DEF TypesInv
<1>1. CASE Build
  BY <1>1 DEF Build, AddInput, AddOutput, SetInputBuffer, SetOutputBuffer,
     RemoveInputBuffer, RemoveOutputBuffer, RemoveInput, RemoveOutput,
     SetCompletionCallback, OnlyObject
<1>2. CASE GrpcInfer \/ RestInfer \/ \E f \in {"sync", "async"} : CapiInfer(f)
  BY <1>2 DEF GrpcInfer, RestInfer, CapiInfer
<1>F. ASSUME NEW result, Fail(result) PROVE TypesInv'
  BY <1>F DEF Fail, Answer, Count
<1>3. CASE LookupFails
  BY <1>3 DEF LookupFails, Answer, Count, Kinds
<1>4. CASE LookupModel
  BY <1>4 DEF LookupModel, Kinds
<1>5. CASE ServeOther
  BY <1>5 DEF ServeOther, Answer, Count, Kinds
<1>6. CASE Check
  <2>1. (\E result : Fail(result)) \/ UNCHANGED <<kind, stream, output, reply, counted>>
    BY <1>6 DEF Check
  <2> QED BY <2>1, <1>F
<1>7. CASE Reload
  <2>1. (\E result : Fail(result)) \/ UNCHANGED <<kind, stream, output, reply, counted>>
    BY <1>7 DEF Reload
  <2> QED BY <2>1, <1>F
<1>8. CASE GetStream
  BY <1>8 DEF GetStream
<1>9. CASE Deserialize
  <2>1. \/ \E result : Fail(result)
        \/ UNCHANGED <<kind, stream, reply, counted>> /\ output' \in {output, "client"}
    BY <1>9 DEF Deserialize
  <2> QED BY <2>1, <1>F
<1>10. CASE Infer
  <2>1. \/ \E result : Fail(result)
        \/ /\ Count(TRUE) /\ stream' = "free" /\ output' = "own" /\ UNCHANGED kind
           /\ \E result : Answer(result)
    BY <1>10 DEF Infer
  <2> QED BY <2>1, <1>F DEF Answer, Count
<1>11. CASE StartAsync
  <2>1. \/ \E result : Fail(result)
        \/ /\ stream' \in {"async", "lost"} /\ UNCHANGED <<kind, output, counted>>
           /\ \E result : Answer(result)
    BY <1>11 DEF StartAsync
  <2> QED BY <2>1, <1>F DEF Answer
<1>12. CASE Return \/ AsyncCallback \/ ReleaseAsync
  BY <1>12 DEF Return, AsyncCallback, ReleaseAsync, Kinds
<1> QED
  BY <1>1, <1>2, <1>3, <1>4, <1>5, <1>6, <1>7, <1>8, <1>9, <1>10, <1>11, <1>12 DEF Next

--------------------------------------------------------------------------------
(* The request object.                                                         *)

\* What inserting and removing at a position make of a sequence.
LEMMA Inserted ==
    ASSUME NEW S, NEW s \in Seq(S), NEW e \in S, NEW i \in 1 .. Len(s) + 1
    PROVE  /\ InsertAt(s, i, e) \in Seq(S)
           /\ Len(InsertAt(s, i, e)) = Len(s) + 1
           /\ \A k \in 1 .. Len(s) + 1 : InsertAt(s, i, e)[k] =
                  IF k < i THEN s[k] ELSE IF k = i THEN e ELSE s[k - 1]
<1> DEFINE a == SubSeq(s, 1, i - 1)
           b == <<e>>
           c == SubSeq(s, i, Len(s))
<1>1. /\ a \in Seq(S) /\ Len(a) = i - 1 /\ \A k \in 1 .. i - 1 : a[k] = s[k]
  OBVIOUS
<1>2. /\ c \in Seq(S) /\ Len(c) = Len(s) - i + 1
      /\ \A k \in 1 .. Len(s) - i + 1 : c[k] = s[k + i - 1]
  OBVIOUS
<1>3. b \in Seq(S) /\ Len(b) = 1 /\ b[1] = e
  OBVIOUS
<1>4. InsertAt(s, i, e) = (a \o b) \o c
  BY DEF InsertAt
<1> HIDE DEF a, b, c
<1>5. /\ a \o b \in Seq(S) /\ Len(a \o b) = i
      /\ \A k \in 1 .. i - 1 : (a \o b)[k] = a[k]
      /\ (a \o b)[i] = e
  <2>1. /\ a \o b \in Seq(S) /\ Len(a \o b) = Len(a) + Len(b)
        /\ \A k \in 1 .. Len(a) + Len(b) : (a \o b)[k] = IF k <= Len(a) THEN a[k] ELSE b[k - Len(a)]
    BY <1>1, <1>3, ConcatProperties
  <2> QED BY <2>1, <1>1, <1>3
<1> DEFINE d == a \o b
<1> HIDE DEF d
<1>6. d \in Seq(S) /\ Len(d) = i /\ (\A k \in 1 .. i - 1 : d[k] = s[k]) /\ d[i] = e
  BY <1>1, <1>5 DEF d
<1>7. /\ d \o c \in Seq(S) /\ Len(d \o c) = Len(s) + 1
      /\ \A k \in 1 .. i : (d \o c)[k] = d[k]
      /\ \A k \in i + 1 .. Len(s) + 1 : (d \o c)[k] = c[k - i]
  <2>1. /\ d \o c \in Seq(S) /\ Len(d \o c) = Len(d) + Len(c)
        /\ \A k \in 1 .. Len(d) + Len(c) : (d \o c)[k] = IF k <= Len(d) THEN d[k] ELSE c[k - Len(d)]
    BY <1>2, <1>6, ConcatProperties
  <2>2. Len(d) + Len(c) = Len(s) + 1 /\ Len(d) = i /\ Len(s) \in Nat
    BY <1>2, <1>6
  <2> QED BY <2>1, <2>2
<1>8. ASSUME NEW k \in 1 .. Len(s) + 1
      PROVE  (d \o c)[k] = IF k < i THEN s[k] ELSE IF k = i THEN e ELSE s[k - 1]
  <2>1. CASE k < i
    BY <2>1, <1>6, <1>7
  <2>2. CASE k = i
    BY <2>2, <1>6, <1>7
  <2>3. CASE k > i
    <3>1. k \in i + 1 .. Len(s) + 1 /\ k - i \in 1 .. Len(s) - i + 1 /\ k - i + i - 1 = k - 1
      BY <2>3
    <3>2. (d \o c)[k] = c[k - i] /\ c[k - i] = s[k - i + i - 1]
      BY <3>1, <1>2, <1>7
    <3> QED BY <3>1, <3>2, <2>3
  <2>4. k < i \/ k = i \/ k > i
    OBVIOUS
  <2> QED BY <2>1, <2>2, <2>3, <2>4
<1> QED
  BY <1>4, <1>7, <1>8 DEF d

\* The sequence without the element at a position.
LEMMA Removed ==
    ASSUME NEW S, NEW s \in Seq(S), NEW i \in 1 .. Len(s)
    PROVE  /\ RemoveAt(s, i) \in Seq(S)
           /\ Len(RemoveAt(s, i)) = Len(s) - 1
           /\ \A k \in 1 .. Len(s) - 1 : RemoveAt(s, i)[k] = IF k < i THEN s[k] ELSE s[k + 1]
<1> DEFINE a == SubSeq(s, 1, i - 1)
           c == SubSeq(s, i + 1, Len(s))
<1>1. /\ a \in Seq(S) /\ Len(a) = i - 1 /\ \A k \in 1 .. i - 1 : a[k] = s[k]
  OBVIOUS
<1>2. /\ c \in Seq(S) /\ Len(c) = Len(s) - i
      /\ \A k \in 1 .. Len(s) - i : c[k] = s[k + i]
  OBVIOUS
<1>4. RemoveAt(s, i) = a \o c
  BY DEF RemoveAt
<1> HIDE DEF a, c
<1>7. /\ a \o c \in Seq(S) /\ Len(a \o c) = Len(s) - 1
      /\ \A k \in 1 .. i - 1 : (a \o c)[k] = a[k]
      /\ \A k \in i .. Len(s) - 1 : (a \o c)[k] = c[k - i + 1]
  <2>1. /\ a \o c \in Seq(S) /\ Len(a \o c) = Len(a) + Len(c)
        /\ \A k \in 1 .. Len(a) + Len(c) : (a \o c)[k] = IF k <= Len(a) THEN a[k] ELSE c[k - Len(a)]
    BY <1>1, <1>2, ConcatProperties
  <2>2. Len(a) + Len(c) = Len(s) - 1 /\ Len(a) = i - 1 /\ Len(s) \in Nat
    BY <1>1, <1>2
  <2>3. \A k \in i .. Len(s) - 1 : k - Len(a) = k - i + 1 /\ ~ (k <= Len(a))
    BY <2>2
  <2> QED BY <2>1, <2>2, <2>3
<1>8. ASSUME NEW k \in 1 .. Len(s) - 1
      PROVE  (a \o c)[k] = IF k < i THEN s[k] ELSE s[k + 1]
  <2>1. CASE k < i
    BY <2>1, <1>1, <1>7
  <2>3. CASE ~ (k < i)
    <3>1. k \in i .. Len(s) - 1 /\ k - i + 1 \in 1 .. Len(s) - i /\ k - i + 1 + i = k + 1
      BY <2>3
    <3>2. (a \o c)[k] = c[k - i + 1] /\ c[k - i + 1] = s[k - i + 1 + i]
      BY <3>1, <1>2, <1>7
    <3> QED BY <3>1, <3>2, <2>3
  <2> QED BY <2>1, <2>3
<1> QED
  BY <1>4, <1>7, <1>8

\* The application adds, removes and gives buffers to tensors.
LEMMA BuildKeepsCapi == ASSUME CapiInv, Build PROVE CapiInv'
<1> DEFINE s == capi.inputs
           n == Len(capi.inputs)
<1>0. /\ s \in Seq(Tensors) /\ n \in Nat /\ DOMAIN s = 1 .. n
      /\ capi.outputs \in Seq(Tensors) /\ Len(capi.outputs) <= 1 /\ capi.callback \in BOOLEAN
      /\ capi = [inputs |-> s, outputs |-> capi.outputs, callback |-> capi.callback]
      /\ \A k \in 1 .. n : Bare(s[k]) \in CapiInputs
      /\ \A k, j \in 1 .. n : k # j => s[k].name # s[j].name
  <2>1. capi \in [inputs : Seq(Tensors), outputs : Seq(Tensors), callback : BOOLEAN]
    BY DEF CapiInv
  <2>2. s \in Seq(Tensors)
    BY <2>1
  <2> QED BY <2>1, <2>2 DEF CapiInv
<1>T. \A t \in CapiInputs \cup CapiOutputs : t \in Tensors /\ t.bytes = None
  BY RequestsAssumption
<1> HIDE DEF s, n
<1>1. ASSUME NEW t \in CapiInputs, AddInput(t) PROVE CapiInv'
  <2>1. PICK at \in 1 .. n + 1 : capi' = [capi EXCEPT !.inputs = InsertAt(s, at, t)]
    BY <1>1 DEF AddInput, s, n
  <2> DEFINE r == InsertAt(s, at, t)
  <2>2. /\ r \in Seq(Tensors) /\ Len(r) = n + 1
        /\ \A k \in 1 .. n + 1 : r[k] = IF k < at THEN s[k] ELSE IF k = at THEN t ELSE s[k - 1]
    <3>1. t \in Tensors /\ n = Len(s) /\ at \in 1 .. Len(s) + 1
      BY <1>T DEF s, n
    <3> HIDE DEF r
    <3>2. /\ InsertAt(s, at, t) \in Seq(Tensors) /\ Len(InsertAt(s, at, t)) = Len(s) + 1
          /\ \A k \in 1 .. Len(s) + 1 : InsertAt(s, at, t)[k] =
                 IF k < at THEN s[k] ELSE IF k = at THEN t ELSE s[k - 1]
      <4>1. s \in Seq(Tensors)
        BY <1>0
      <4>2. t \in Tensors /\ at \in 1 .. Len(s) + 1
        BY <3>1
      <4>3. InsertAt(s, at, t) \in Seq(Tensors)
        BY <4>1, <4>2, Inserted
      <4>4. Len(InsertAt(s, at, t)) = Len(s) + 1
        BY <4>1, <4>2, Inserted
      <4>5. \A k \in 1 .. Len(s) + 1 : InsertAt(s, at, t)[k] =
                 IF k < at THEN s[k] ELSE IF k = at THEN t ELSE s[k - 1]
        BY <4>1, <4>2, Inserted
      <4> QED BY <4>3, <4>4, <4>5
    <3> QED BY <3>1, <3>2 DEF r
  <2>3. capi' = [inputs |-> r, outputs |-> capi.outputs, callback |-> capi.callback]
    BY <2>1, <1>0
  <2>4. \A k \in 1 .. n : s[k].name # t.name
    <3>1. Find(s, t.name) = 0
      BY <1>1 DEF AddInput, s
    <3> QED BY <3>1, <1>0, FoundHasName
  <2>5. Bare(t) = t
    BY <1>T DEF Tensors, Bare
  <2> HIDE DEF r
  <2>6. DOMAIN r = 1 .. n + 1
    BY <2>2
  <2>7. \A k \in 1 .. n + 1 : Bare(r[k]) \in CapiInputs
    <3> TAKE k \in 1 .. n + 1
    <3>1. CASE k < at
      <4>1. k \in 1 .. n /\ r[k] = s[k]
        BY <3>1, <2>2, <1>0
      <4> QED BY <4>1, <1>0
    <3>2. CASE k = at
      BY <3>2, <2>2, <2>5
    <3>3. CASE k > at
      <4>1. k - 1 \in 1 .. n /\ r[k] = s[k - 1]
        BY <3>3, <2>2, <1>0
      <4> QED BY <4>1, <1>0
    <3> QED BY <3>1, <3>2, <3>3, <1>0
  <2>8. \A k, j \in 1 .. n + 1 : k # j => r[k].name # r[j].name
    <3> DEFINE back(k) == IF k < at THEN k ELSE k - 1
    <3>1. \A k \in 1 .. n + 1 : k # at => back(k) \in 1 .. n /\ r[k] = s[back(k)]
      BY <2>2, <1>0
    <3>2. \A k, j \in 1 .. n + 1 : k # at /\ j # at /\ k # j => back(k) # back(j)
      BY <1>0
    <3>3. r[at] = t
      BY <2>2
    <3> HIDE DEF back
    <3> QED BY <3>1, <3>2, <3>3, <2>4, <1>0
  <2> QED BY <2>2, <2>3, <2>6, <2>7, <2>8, <1>0 DEF CapiInv
<1>2. ASSUME NEW t \in CapiOutputs, AddOutput(t) PROVE CapiInv'
  <2>1. capi' = [inputs |-> s, outputs |-> <<t>>, callback |-> capi.callback]
    BY <1>0, <1>2 DEF AddOutput
  <2>2. <<t>> \in Seq(Tensors) /\ Len(<<t>>) = 1
    BY <1>T
  <2> QED BY <2>1, <2>2, <1>0 DEF CapiInv
<1>3. ASSUME NEW i \in 1 .. n, NEW size \in Nat \cup {None},
             capi' = [capi EXCEPT !.inputs[i].bytes = size]
      PROVE  CapiInv'
  <2> DEFINE t == [s[i] EXCEPT !.bytes = size]
             r == [s EXCEPT ![i] = t]
  <2>1. capi' = [inputs |-> r, outputs |-> capi.outputs, callback |-> capi.callback]
    <3>1. capi' = [capi EXCEPT !.inputs = [s EXCEPT ![i] = [s[i] EXCEPT !.bytes = size]]]
      BY <1>3 DEF s
    <3> HIDE DEF r
    <3>2. capi' = [capi EXCEPT !.inputs = r]
      BY <3>1 DEF r
    <3> QED BY <3>2, <1>0
  <2>2. s[i] \in Tensors
    BY <1>0
  <2>3. /\ t \in Tensors /\ t.name = s[i].name
        /\ Bare(t) = Bare(s[i])
    BY <2>2 DEF Tensors, Bare
  <2> HIDE DEF t
  <2>4. /\ r \in Seq(Tensors) /\ DOMAIN r = 1 .. n
        /\ r[i] = t /\ \A k \in 1 .. n : k # i => r[k] = s[k]
    BY <2>3, <1>0
  <2> HIDE DEF r
  <2>5. \A k \in 1 .. n : /\ r[k].name = s[k].name
                          /\ Bare(r[k]) = Bare(s[k])
    BY <2>3, <2>4
  <2> QED BY <2>1, <2>4, <2>5, <1>0 DEF CapiInv
<1>4. ASSUME NEW i \in 1 .. n, capi' = [capi EXCEPT !.inputs = RemoveAt(s, i)] PROVE CapiInv'
  <2> DEFINE r == RemoveAt(s, i)
             from(k) == IF k < i THEN k ELSE k + 1
  <2>1. capi' = [inputs |-> r, outputs |-> capi.outputs, callback |-> capi.callback]
    BY <1>4, <1>0
  <2>2. /\ r \in Seq(Tensors) /\ Len(r) = n - 1
        /\ \A k \in 1 .. n - 1 : r[k] = IF k < i THEN s[k] ELSE s[k + 1]
    <3>1. n = Len(s)
      BY DEF s, n
    <3> QED BY <3>1, <1>0, Removed
  <2> HIDE DEF r
  <2>3. DOMAIN r = 1 .. n - 1
    BY <2>2
  <2>4. \A k \in 1 .. n - 1 : from(k) \in 1 .. n /\ r[k] = s[from(k)]
    BY <2>2, <1>0
  <2>5. \A k, j \in 1 .. n - 1 : k # j => from(k) # from(j)
    BY <1>0
  <2> HIDE DEF from
  <2>6. /\ \A k \in 1 .. n - 1 : Bare(r[k]) \in CapiInputs
        /\ \A k, j \in 1 .. n - 1 : k # j => r[k].name # r[j].name
    BY <2>4, <2>5, <1>0
  <2> QED BY <2>1, <2>2, <2>3, <2>6, <1>0 DEF CapiInv
<1>5. ASSUME NEW size \in Nat \cup {None}, capi.outputs # <<>>,
             capi' = [capi EXCEPT !.outputs[1].bytes = size]
      PROVE  CapiInv'
  <2> DEFINE o == capi.outputs
             t == [o[1] EXCEPT !.bytes = size]
             r == [o EXCEPT ![1] = t]
  <2>1. capi' = [inputs |-> s, outputs |-> r, callback |-> capi.callback]
    <3>1. capi' = [capi EXCEPT !.outputs = [o EXCEPT ![1] = [o[1] EXCEPT !.bytes = size]]]
      BY <1>5
    <3> HIDE DEF r
    <3>2. capi' = [capi EXCEPT !.outputs = r]
      BY <3>1 DEF r
    <3> QED BY <3>2, <1>0
  <2>2. o \in Seq(Tensors) /\ Len(o) = 1 /\ o[1] \in Tensors
    <3> HIDE DEF o
    <3>1. o \in Seq(Tensors) /\ Len(o) <= 1 /\ o # <<>>
      BY <1>0, <1>5 DEF o
    <3>2. Len(o) # 0
      BY <3>1, EmptySeq
    <3>3. Len(o) \in Nat
      BY <3>1
    <3>4. Len(o) = 1
      BY <3>1, <3>2, <3>3
    <3> QED BY <3>1, <3>4
  <2>3. t \in Tensors
    BY <2>2 DEF Tensors
  <2> HIDE DEF t, o
  <2>4. r \in Seq(Tensors) /\ Len(r) <= 1
    <3>1. 1 \in 1 .. Len(o)
      BY <2>2
    <3>2. r \in Seq(Tensors) /\ Len(r) = Len(o)
      BY <2>2, <2>3, <3>1, ExceptSeq
    <3> HIDE DEF r
    <3> QED BY <3>2, <2>2
  <2> HIDE DEF r
  <2> QED BY <2>1, <2>4, <1>0 DEF CapiInv
<1>6. CASE RemoveOutput
  <2>1. capi' = [inputs |-> s, outputs |-> <<>>, callback |-> capi.callback]
    BY <1>0, <1>6 DEF RemoveOutput
  <2>2. <<>> \in Seq(Tensors) /\ Len(<<>>) = 0
    OBVIOUS
  <2> QED BY <2>1, <2>2, <1>0 DEF CapiInv
<1>7. CASE SetCompletionCallback
  <2>1. capi' = [capi EXCEPT !.callback = TRUE]
    BY <1>7 DEF SetCompletionCallback
  <2>2. /\ capi' \in [inputs : Seq(Tensors), outputs : Seq(Tensors), callback : BOOLEAN]
        /\ capi'.inputs = capi.inputs /\ capi'.outputs = capi.outputs
    BY <2>1 DEF CapiInv
  <2> QED BY <2>2 DEF CapiInv
<1>8. CapiSizes \subseteq Nat
  BY RequestsAssumption
<1>9. \/ \E t \in CapiInputs : AddInput(t)
      \/ \E t \in CapiOutputs : AddOutput(t)
      \/ \E i \in 1 .. n, size \in Nat \cup {None} : capi' = [capi EXCEPT !.inputs[i].bytes = size]
      \/ \E i \in 1 .. n : capi' = [capi EXCEPT !.inputs = RemoveAt(s, i)]
      \/ \E size \in Nat \cup {None} : /\ capi.outputs # <<>>
                                       /\ capi' = [capi EXCEPT !.outputs[1].bytes = size]
      \/ RemoveOutput \/ SetCompletionCallback
  <2>1. CASE \E i \in DOMAIN capi.inputs :
               \/ \E size \in CapiSizes : SetInputBuffer(i, size)
               \/ RemoveInputBuffer(i)
               \/ RemoveInput(i)
    <3>1. PICK i \in 1 .. n :
               \/ \E size \in CapiSizes : SetInputBuffer(i, size)
               \/ RemoveInputBuffer(i)
               \/ RemoveInput(i)
      BY <2>1, <1>0 DEF s
    <3>2. ASSUME NEW size \in CapiSizes, SetInputBuffer(i, size)
          PROVE  capi' = [capi EXCEPT !.inputs[i].bytes = size] /\ size \in Nat
      BY <3>2, <1>8 DEF SetInputBuffer
    <3>3. RemoveInputBuffer(i) => capi' = [capi EXCEPT !.inputs[i].bytes = None]
      BY DEF RemoveInputBuffer
    <3>4. RemoveInput(i) => capi' = [capi EXCEPT !.inputs = RemoveAt(s, i)]
      BY DEF RemoveInput, s
    <3>5. CASE \E size \in CapiSizes : SetInputBuffer(i, size)
      BY <3>2, <3>5
    <3> QED BY <3>1, <3>3, <3>4, <3>5
  <2>2. CASE \E size \in CapiSizes : SetOutputBuffer(size)
    BY <2>2, <1>8 DEF SetOutputBuffer
  <2>3. CASE RemoveOutputBuffer
    BY <2>3 DEF RemoveOutputBuffer
  <2> QED BY <2>1, <2>2, <2>3 DEF Build
<1> QED
  BY <1>1, <1>2, <1>3, <1>4, <1>5, <1>6, <1>7, <1>9

--------------------------------------------------------------------------------
(* Requests and models.                                                        *)

\* A body that can be converted becomes a request with its raw contents in
\* order.
LEMMA PreparedRequest ==
    ASSUME NEW quiet \in BOOLEAN, NEW body \in Bodies(quiet)
    PROVE  LET prepared == PrepareGrpcRequest(body).request
           IN  /\ TypedRequest(prepared)
               /\ \A i \in DOMAIN prepared.raw :
                     /\ prepared.at[i] >= 0
                     /\ prepared.at[i] + prepared.raw[i] <= prepared.total
                     /\ \A j \in 1 .. i - 1 : prepared.at[j] + prepared.raw[j] <= prepared.at[i]
<1> DEFINE binary == HandleBinaryInputs(body)
           inputs == [i \in DOMAIN body.inputs |-> ToTensor(body.inputs[i])]
           prepared == [inputs |-> inputs, outputs |-> <<>>, raw |-> binary.raw,
                        at |-> binary.at, total |-> body.binary]
           n == Len(body.inputs)
<1>1. /\ body.inputs \in Seq(JsonInputs) /\ body.binary \in Nat
      /\ \A i \in DOMAIN body.inputs : FitsSize(body.inputs[i].shape)
  BY RequestsAssumption
<1>2. PrepareGrpcRequest(body).request = prepared
  BY DEF PrepareGrpcRequest
<1>3. SlicesInOrder(binary, body.binary)
  BY <1>1, BodyInOrder
<1> HIDE DEF binary
<1>4. /\ binary.raw \in Seq(Nat) /\ binary.at \in Seq(Nat) /\ binary.offset \in Nat
      /\ binary.offset <= body.binary /\ Len(binary.at) = Len(binary.raw)
  BY <1>3 DEF SlicesInOrder, Takings
<1>5. ASSUME NEW i \in 1 .. n
      PROVE  ToTensor(body.inputs[i]) \in Tensors /\ ToTensor(body.inputs[i]).shape = body.inputs[i].shape
  <2>1. body.inputs[i] \in JsonInputs
    BY <1>1
  <2>2. (IF body.inputs[i].data = None THEN 0 ELSE body.inputs[i].data) \in Nat
    BY <2>1 DEF JsonInputs
  <2> QED BY <2>1, <2>2 DEF JsonInputs, Tensors, ToTensor
<1>6. n \in Nat /\ DOMAIN body.inputs = 1 .. n
  BY <1>1
<1>7. inputs \in Seq(Tensors) /\ DOMAIN inputs = 1 .. n
  <2> HIDE DEF n
  <2>1. inputs \in [1 .. n -> Tensors]
    BY <1>5, <1>6
  <2> QED BY <2>1, <1>6
<1>8. \A i \in 1 .. n : FitsSize(inputs[i].shape)
  BY <1>1, <1>5, <1>6
<1> HIDE DEF inputs, n
<1>9. TypedRequest(prepared)
  <2>1. <<>> \in Seq(Tensors)
    OBVIOUS
  <2> QED BY <2>1, <1>4, <1>7, <1>8 DEF TypedRequest
<1>10. ASSUME NEW i \in DOMAIN binary.raw
       PROVE  /\ binary.at[i] >= 0 /\ binary.at[i] + binary.raw[i] <= body.binary
              /\ \A j \in 1 .. i - 1 : binary.at[j] + binary.raw[j] <= binary.at[i]
  <2>1. i \in 1 .. Len(binary.raw) /\ binary.at[i] \in Nat /\ binary.raw[i] \in Nat
    BY <1>4
  <2>2. /\ binary.at[i] + binary.raw[i] <= binary.offset
        /\ \A j \in 1 .. i - 1 : binary.at[j] + binary.raw[j] <= binary.at[i]
    BY <2>1, <1>3 DEF SlicesInOrder
  <2>3. binary.at[i] >= 0 /\ binary.at[i] + binary.raw[i] <= body.binary
    <3>1. binary.offset \in Nat /\ binary.offset <= body.binary /\ body.binary \in Nat
      BY <1>1, <1>4
    <3> QED BY <2>1, <2>2, <3>1
  <2> QED BY <2>2, <2>3
<1> QED
  BY <1>2, <1>9, <1>10

\* A step gives the front end a request of tensors, or takes it away.
LEMMA RequestKept ==
    ASSUME DataInv, Next
    PROVE  TypedRequest(request')
<1>0. TypedRequest(request) /\ CapiInv
  BY DEF DataInv
<1>1. TypedRequest(NoRequest)
  <2>1. <<>> \in Seq(Tensors) /\ <<>> \in Seq(Nat) /\ DOMAIN <<>> = {}
    OBVIOUS
  <2> QED BY <2>1 DEF TypedRequest, NoRequest
<1>2. Quiet \in BOOLEAN
  BY DEF Quiet
<1>3. CASE GrpcInfer
  <2>1. request' \in KfsRequests(Quiet)
    BY <1>3 DEF GrpcInfer
  <2>2. /\ request' \in [inputs : Seq(Tensors), outputs : {<<>>}, raw : Seq(Nat)]
        /\ \A i \in DOMAIN request'.inputs : FitsSize(request'.inputs[i].shape)
    <3> HIDE DEF Quiet
    <3> QED BY <2>1, <1>2, RequestsAssumption
  <2>3. <<>> \in Seq(Tensors)
    OBVIOUS
  <2> QED BY <2>2, <2>3 DEF TypedRequest
<1>4. CASE RestInfer
  <2>1. PICK body \in Bodies(Quiet) :
            UNCHANGED request \/ request' = PrepareGrpcRequest(body).request
    BY <1>4 DEF RestInfer
  <2>2. TypedRequest(PrepareGrpcRequest(body).request)
    <3> HIDE DEF Quiet
    <3> QED BY <1>2, PreparedRequest
  <2> QED BY <2>1, <2>2, <1>0
<1>5. CASE \E f \in {"sync", "async"} : CapiInfer(f)
  <2>1. request' = [inputs |-> capi.inputs, outputs |-> capi.outputs, raw |-> <<>>]
    BY <1>5 DEF CapiInfer
  <2>2. /\ capi.inputs \in Seq(Tensors) /\ capi.outputs \in Seq(Tensors)
        /\ \A i \in DOMAIN capi.inputs : Bare(capi.inputs[i]) \in CapiInputs
    BY <1>0 DEF CapiInv
  <2>3. \A i \in DOMAIN capi.inputs : FitsSize(capi.inputs[i].shape)
    <3> TAKE i \in DOMAIN capi.inputs
    <3>1. FitsSize(Bare(capi.inputs[i]).shape)
      BY <2>2, RequestsAssumption
    <3>2. Bare(capi.inputs[i]).shape = capi.inputs[i].shape
      <4>1. capi.inputs[i] \in Tensors
        BY <2>2
      <4> QED BY <4>1 DEF Tensors, Bare
    <3> QED BY <3>1, <3>2
  <2>4. <<>> \in Seq(Nat)
    OBVIOUS
  <2> QED BY <2>1, <2>2, <2>3, <2>4 DEF TypedRequest
<1>6. UNCHANGED request \/ request' = NoRequest \/ GrpcInfer \/ RestInfer
         \/ \E f \in {"sync", "async"} : CapiInfer(f)
  BY Frames
<1> QED
  BY <1>0, <1>1, <1>3, <1>4, <1>5, <1>6

\* The raw contents of the request looked up are those the body was cut into.
LEMMA SlicesKept == ASSUME DataInv, SlicesDisjoint, Next PROVE SlicesDisjoint'
<1> SUFFICES ASSUME pc' = "lookup", front' = "rest"
             PROVE  SlicesDisjoint'
  BY DEF SlicesDisjoint
<1>1. CASE UNCHANGED <<pc, front, request>>
  BY <1>1 DEF SlicesDisjoint
<1>2. CASE RestInfer
  <2>1. PICK body \in Bodies(Quiet) : request' = PrepareGrpcRequest(body).request
    BY <1>2 DEF RestInfer
  <2>2. Quiet \in BOOLEAN
    BY DEF Quiet
  <2> DEFINE prepared == PrepareGrpcRequest(body).request
  <2>3. \A i \in DOMAIN prepared.raw :
            /\ prepared.at[i] >= 0 /\ prepared.at[i] + prepared.raw[i] <= prepared.total
            /\ \A j \in 1 .. i - 1 : prepared.at[j] + prepared.raw[j] <= prepared.at[i]
    <3> HIDE DEF Quiet
    <3> QED BY <2>2, PreparedRequest
  <2> HIDE DEF prepared
  <2>4. request' = prepared
    BY <2>1 DEF prepared
  <2> QED BY <2>3, <2>4 DEF SlicesDisjoint
<1>3. RestInfer \/ UNCHANGED <<pc, front, request>>
  BY Frames
<1> QED
  BY <1>1, <1>2, <1>3

--------------------------------------------------------------------------------
(* The reload a request asks for.                                              *)

\* What is known of an input of the model before the reload.
LEMMA BeforeReload ==
    ASSUME DataInv, DemandInv, pc = "reload", NEW i \in DOMAIN model.inputs
    PROVE  LET info == model.inputs[i]
               at == Find(request.inputs, info.name)
           IN  /\ info \in Infos /\ info.shape \in Seq(SUBSET Int) /\ info.batch \in Nat
               /\ DOMAIN info = {"name", "shape", "type", "batch"}
               /\ info.name \in DOMAIN model.mode /\ info.batch <= Len(info.shape)
               /\ at \in DOMAIN request.inputs /\ at # 0
               /\ request.inputs[at].shape \in Seq(Int)
               /\ Passed(Api, request, request.inputs, at, info, model)
<1> DEFINE info == model.inputs[i]
<1>1. /\ TypedModel(model) /\ TypedRequest(request)
      /\ InputPasses(Api, request, model, info)
  BY DEF DataInv, DemandInv
<1>2. model.inputs \in Seq(Infos)
  BY <1>1 DEF TypedModel
<1>3. info \in Infos
  BY <1>2
<1>4. info.name \in DOMAIN model.mode /\ info.batch <= Len(info.shape)
  BY <1>1 DEF TypedModel
<1> HIDE DEF info
<1>5. /\ info.shape \in Seq(SUBSET Int) /\ info.batch \in Nat
      /\ DOMAIN info = {"name", "shape", "type", "batch"}
  BY <1>3 DEF Infos
<1> DEFINE at == Find(request.inputs, info.name)
<1>6. at # 0 /\ Passed(Api, request, request.inputs, at, info, model)
  BY <1>1 DEF InputPasses
<1>7. request.inputs \in Seq(Tensors)
  BY <1>1 DEF TypedRequest
<1>8. at \in DOMAIN request.inputs
  BY <1>6, <1>7, FoundHasName
<1>9. request.inputs[at].shape \in Seq(Int)
  <2> HIDE DEF at
  <2> QED BY <1>7, <1>8, TensorAt
<1> QED
  BY <1>3, <1>4, <1>5, <1>6, <1>8, <1>9 DEF info

\* The shape an input gets.
LEMMA NewShapeTyped ==
    ASSUME DataInv, DemandInv, pc = "reload", status = "BATCHSIZE_CHANGE_REQUIRED" => BatchFound,
           NEW i \in DOMAIN model.inputs
    PROVE  LET info == model.inputs[i]
           IN  /\ NewShape(info) \in Seq(SUBSET Int)
               /\ Len(NewShape(info)) = Len(info.shape)
<1> DEFINE info == model.inputs[i]
           at == Find(request.inputs, info.name)
           t == request.inputs[at]
<1>1. /\ info.shape \in Seq(SUBSET Int) /\ info.batch \in Nat
      /\ info.batch <= Len(info.shape)
      /\ t.shape \in Seq(Int)
      /\ Passed(Api, request, request.inputs, at, info, model)
  BY BeforeReload
<1>2. Len(t.shape) = Len(info.shape)
  BY <1>1 DEF Passed
<1>3. CASE status = "BATCHSIZE_CHANGE_REQUIRED"
  <2> DEFINE value == request.inputs[1].shape[model.inputs[1].batch]
  <2>1. request.inputs \in Seq(Tensors) /\ request.inputs # <<>>
    BY DEF DataInv, TypedRequest, DemandInv, NumberOfTensors
  <2>2. 1 \in DOMAIN request.inputs
    BY <2>1
  <2>3. request.inputs[1].shape \in Seq(Int)
    BY <2>1, <2>2, TensorAt
  <2>4. value \in Int
    <3>1. model.inputs[1].batch \in DOMAIN request.inputs[1].shape
      BY <1>3 DEF BatchFound
    <3> QED BY <2>3, <3>1
  <2> HIDE DEF value, info
  <2>5. CASE info.batch = 0
    BY <1>1, <1>3, <2>5 DEF NewShape, info
  <2>6. CASE info.batch # 0
    <3>1. NewShape(info) = [info.shape EXCEPT ![info.batch] = {value}]
      BY <1>3, <2>6 DEF NewShape, value
    <3>2. info.batch \in 1 .. Len(info.shape) /\ {value} \in SUBSET Int
      BY <1>1, <2>4, <2>6
    <3>3. NewShape(info) \in Seq(SUBSET Int) /\ Len(NewShape(info)) = Len(info.shape)
      BY <3>1, <3>2, <1>1, ExceptSeq
    <3> QED BY <3>3 DEF info
  <2> QED BY <2>5, <2>6 DEF info
<1>4. CASE status # "BATCHSIZE_CHANGE_REQUIRED"
  <2> HIDE DEF t, info
  <2>1. CASE model.mode[info.name] = "AUTO"
    <3> DEFINE shape == [k \in DOMAIN t.shape |-> {t.shape[k]}]
    <3>1. NewShape(info) = shape
      BY <1>4, <2>1 DEF NewShape, t
    <3>2. shape \in Seq(SUBSET Int) /\ Len(shape) = Len(t.shape)
      <4>1. DOMAIN t.shape = 1 .. Len(t.shape) /\ Len(t.shape) \in Nat
        BY <1>1
      <4>2. \A k \in 1 .. Len(t.shape) : {t.shape[k]} \in SUBSET Int
        BY <1>1
      <4>3. shape \in [1 .. Len(t.shape) -> SUBSET Int]
        BY <4>1, <4>2
      <4> HIDE DEF shape
      <4> QED BY <4>1, <4>3
    <3> QED BY <3>1, <3>2, <1>2 DEF info
  <2>2. CASE model.mode[info.name] # "AUTO"
    BY <1>1, <1>4, <2>2 DEF NewShape, info
  <2> QED BY <2>1, <2>2
<1> QED
  BY <1>3, <1>4

\* The model after the reload.
LEMMA ReloadedIs ==
    ASSUME DataInv, DemandInv, pc = "reload", status = "BATCHSIZE_CHANGE_REQUIRED" => BatchFound
    PROVE  /\ Reloaded.batching = model.batching /\ Reloaded.mode = model.mode
           /\ DOMAIN Reloaded = DOMAIN model
           /\ Reloaded.inputs \in Seq(Infos) /\ Len(Reloaded.inputs) = Len(model.inputs)
           /\ Reloaded.outputs \in Seq(Infos) /\ Len(Reloaded.outputs) = 1
           /\ \A i \in DOMAIN model.outputs : Reloaded.outputs[i].name = model.outputs[i].name
           /\ \A i \in DOMAIN model.inputs :
                  Reloaded.inputs[i] = [model.inputs[i] EXCEPT !.shape = NewShape(model.inputs[i])]
<1> DEFINE changed(i) == [model.inputs[i] EXCEPT !.shape = NewShape(model.inputs[i])]
           inputs == [i \in DOMAIN model.inputs |-> changed(i)]
           n == Len(model.inputs)
           first == [model.outputs[1] EXCEPT !.shape = inputs[1].shape]
           outputs == [model.outputs EXCEPT ![1] = first]
<1>0. TypedModel(model)
  BY DEF DataInv
<1>1. /\ DOMAIN model = {"inputs", "outputs", "batching", "mode"}
      /\ model.inputs \in Seq(Infos) /\ model.inputs # <<>>
      /\ model.outputs \in Seq(Infos) /\ Len(model.outputs) = 1
  BY <1>0 DEF TypedModel
<1>2. n \in Nat \ {0} /\ DOMAIN model.inputs = 1 .. n
  <2>1. n \in Nat /\ DOMAIN model.inputs = 1 .. n
    BY <1>1
  <2>2. n # 0
    BY <1>1, EmptySeq
  <2> QED BY <2>1, <2>2
<1>3. Reloaded = [model EXCEPT !.inputs = inputs, !.outputs = outputs]
  BY DEF Reloaded
<1>4. ASSUME NEW i \in 1 .. n PROVE changed(i) \in Infos
  <2>1. model.inputs[i] \in Infos /\ i \in DOMAIN model.inputs
    BY <1>1, <1>2
  <2>2. NewShape(model.inputs[i]) \in Seq(SUBSET Int)
    BY <2>1, NewShapeTyped
  <2> DEFINE info == model.inputs[i]
             shape == NewShape(model.inputs[i])
  <2> HIDE DEF info, shape
  <2>3. info \in Infos /\ shape \in Seq(SUBSET Int)
    BY <2>1, <2>2 DEF info, shape
  <2>4. [info EXCEPT !.shape = shape] \in Infos
    BY <2>3 DEF Infos
  <2> QED BY <2>4 DEF info, shape
<1> HIDE DEF changed, n
<1>5. inputs \in Seq(Infos) /\ Len(inputs) = n
  <2>1. inputs \in [1 .. n -> Infos]
    BY <1>2, <1>4
  <2> HIDE DEF inputs
  <2> QED BY <2>1, <1>2
<1>6. \A i \in 1 .. n : inputs[i] = changed(i)
  BY <1>2
<1>7. first \in Infos /\ first.name = model.outputs[1].name
  <2>1. inputs[1].shape \in Seq(SUBSET Int)
    <3>1. inputs[1] \in Infos
      BY <1>2, <1>4, <1>6
    <3> HIDE DEF inputs
    <3> QED BY <3>1 DEF Infos
  <2>2. model.outputs[1] \in Infos
    BY <1>1
  <2> HIDE DEF inputs
  <2> QED BY <2>1, <2>2 DEF Infos
<1> HIDE DEF first, inputs
<1>8. /\ outputs \in Seq(Infos) /\ Len(outputs) = 1
      /\ \A i \in DOMAIN model.outputs : outputs[i].name = model.outputs[i].name
  <2>1. 1 \in 1 .. Len(model.outputs) /\ DOMAIN model.outputs = 1 .. 1
    BY <1>1
  <2>2. /\ outputs \in Seq(Infos) /\ Len(outputs) = Len(model.outputs)
        /\ \A j \in 1 .. Len(model.outputs) :
               outputs[j] = IF j = 1 THEN first ELSE model.outputs[j]
    BY <1>1, <1>7, <2>1, ExceptSeq
  <2> HIDE DEF outputs
  <2> QED BY <2>1, <2>2, <1>1, <1>7
<1> HIDE DEF outputs
<1>9. /\ Reloaded.batching = model.batching /\ Reloaded.mode = model.mode
      /\ DOMAIN Reloaded = DOMAIN model
      /\ Reloaded.inputs = inputs /\ Reloaded.outputs = outputs
  BY <1>1, <1>3
<1> QED
  BY <1>1, <1>2, <1>5, <1>6, <1>8, <1>9 DEF changed, n

\* A reload makes a model of the same kind.
LEMMA ModelKept == ASSUME DataInv, DemandInv, Next PROVE TypedModel(model')
<1>1. CASE UNCHANGED model
  BY <1>1 DEF DataInv, TypedModel
<1>2. CASE model' = Reloaded /\ pc = "reload" /\ (status = "BATCHSIZE_CHANGE_REQUIRED" => BatchFound)
  <2>0. TypedModel(model)
    BY DEF DataInv
  <2> DEFINE new == Reloaded
  <2>1. /\ new.batching = model.batching /\ new.mode = model.mode
        /\ DOMAIN new = DOMAIN model
        /\ new.inputs \in Seq(Infos) /\ Len(new.inputs) = Len(model.inputs)
        /\ new.outputs \in Seq(Infos) /\ Len(new.outputs) = 1
        /\ \A i \in DOMAIN model.outputs : new.outputs[i].name = model.outputs[i].name
        /\ \A i \in DOMAIN model.inputs :
               new.inputs[i] = [model.inputs[i] EXCEPT !.shape = NewShape(model.inputs[i])]
    BY <1>2, ReloadedIs
  <2> HIDE DEF new
  <2>2. /\ model.inputs \in Seq(Infos) /\ model.inputs # <<>>
        /\ model.outputs \in Seq(Infos) /\ Len(model.outputs) = 1
    BY <2>0 DEF TypedModel
  <2>3. DOMAIN new.inputs = DOMAIN model.inputs /\ DOMAIN new.outputs = DOMAIN model.outputs
    BY <2>1, <2>2
  <2>4. new.inputs # <<>>
    BY <2>1, <2>2, EmptySeq
  <2>5. ASSUME NEW i \in DOMAIN model.inputs
        PROVE  /\ new.inputs[i].name = model.inputs[i].name
               /\ new.inputs[i].batch <= Len(new.inputs[i].shape)
    <3>1. /\ DOMAIN model.inputs[i] = {"name", "shape", "type", "batch"}
          /\ model.inputs[i].batch <= Len(model.inputs[i].shape)
      BY <1>2, BeforeReload
    <3>2. Len(NewShape(model.inputs[i])) = Len(model.inputs[i].shape)
      BY <1>2, NewShapeTyped
    <3>3. /\ new.inputs[i].name = model.inputs[i].name
          /\ new.inputs[i].batch = model.inputs[i].batch
          /\ new.inputs[i].shape = NewShape(model.inputs[i])
      BY <2>1, <3>1
    <3> QED BY <3>1, <3>2, <3>3
  <2>6. TypedModel(new)
    BY <2>0, <2>1, <2>3, <2>4, <2>5 DEF TypedModel
  <2> QED BY <1>2, <2>6 DEF new
<1>3. CASE Reload
  <2>1. UNCHANGED model \/ (model' = Reloaded /\ pc = "reload"
                            /\ (status = "BATCHSIZE_CHANGE_REQUIRED" => BatchFound))
    BY <1>3 DEF Reload, Fail
  <2> QED BY <2>1, <1>1, <1>2
<1> QED
  BY <1>1, <1>3, Frames

\* Content looks at nothing of the declared tensor but its type.
LEMMA ContentOfType ==
    ASSUME NEW api, NEW req, NEW tensors, NEW at, NEW info, NEW other, info.type = other.type
    PROVE  Content(api, req, tensors, at, info) = Content(api, req, tensors, at, other)
BY DEF Content, KfsContent, CapiContent

\* After the reload it asked for, the request passes and asks for nothing; a
\* request for another batch size, where its tensors agree on it.
LEMMA ReloadedServes ==
    ASSUME DataInv, DemandInv, pc = "reload", status = "BATCHSIZE_CHANGE_REQUIRED" => BatchFound,
           status = "BATCHSIZE_CHANGE_REQUIRED" =>
               \A info \in ToSet(Reloaded.inputs) :
                   request.inputs[Find(request.inputs, info.name)].shape[info.batch]
                       = request.inputs[1].shape[Reloaded.inputs[1].batch]
    PROVE  ValidateInputs(Api, request, Reloaded) = "OK"
<1>0. /\ TypedRequest(request) /\ TypedModel(model) /\ Api \in {"kfs", "capi"}
      /\ NumberOfTensors(request, model) = "OK" /\ Coherency(Api, request) = "OK"
      /\ status \in {"RESHAPE_REQUIRED", "BATCHSIZE_CHANGE_REQUIRED"}
      /\ status = "BATCHSIZE_CHANGE_REQUIRED" <=> model.batching = "AUTO"
  BY DEF DataInv, DemandInv, Api
<1>1. /\ Reloaded.batching = model.batching /\ Reloaded.mode = model.mode
      /\ Reloaded.inputs \in Seq(Infos) /\ Len(Reloaded.inputs) = Len(model.inputs)
      /\ \A i \in DOMAIN model.inputs :
             Reloaded.inputs[i] = [model.inputs[i] EXCEPT !.shape = NewShape(model.inputs[i])]
  BY ReloadedIs
<1>2. model.inputs \in Seq(Infos) /\ model.inputs # <<>>
  BY <1>0 DEF TypedModel
<1>3. DOMAIN Reloaded.inputs = DOMAIN model.inputs
  BY <1>1, <1>2
<1>4. 1 \in DOMAIN model.inputs
  BY <1>2
<1>5. NumberOfTensors(request, Reloaded) = "OK"
  BY <1>0, <1>1 DEF NumberOfTensors
<1>6. ASSUME NEW i \in DOMAIN model.inputs
      PROVE  /\ InputPasses(Api, request, Reloaded, Reloaded.inputs[i])
             /\ TensorDemand(request.inputs, Reloaded, Reloaded.inputs[i]) = "OK"
  <2> DEFINE info == model.inputs[i]
             new == Reloaded.inputs[i]
             at == Find(request.inputs, info.name)
             t == request.inputs[at]
  <2>1. /\ info.shape \in Seq(SUBSET Int) /\ info.batch \in Nat
        /\ DOMAIN info = {"name", "shape", "type", "batch"}
        /\ info.name \in DOMAIN model.mode /\ info.batch <= Len(info.shape)
        /\ at \in DOMAIN request.inputs /\ at # 0
        /\ t.shape \in Seq(Int)
        /\ Passed(Api, request, request.inputs, at, info, model)
    BY BeforeReload
  <2>2. new = [info EXCEPT !.shape = NewShape(info)]
    BY <1>1
  <2>3. NewShape(info) \in Seq(SUBSET Int) /\ Len(NewShape(info)) = Len(info.shape)
    BY NewShapeTyped
  <2>4. /\ new.name = info.name /\ new.type = info.type /\ new.batch = info.batch
        /\ new.shape = NewShape(info)
    BY <2>1, <2>2
  <2>5. /\ status = "BATCHSIZE_CHANGE_REQUIRED" =>
               t.shape[info.batch] = request.inputs[1].shape[model.inputs[1].batch]
    <3>1. new \in ToSet(Reloaded.inputs)
      BY <1>3 DEF ToSet
    <3>2. Reloaded.inputs[1].batch = model.inputs[1].batch
      <4>1. Reloaded.inputs[1] = [model.inputs[1] EXCEPT !.shape = NewShape(model.inputs[1])]
        BY <1>1, <1>4
      <4>2. DOMAIN model.inputs[1] = {"name", "shape", "type", "batch"}
        BY <1>4, BeforeReload
      <4> QED BY <4>1, <4>2
    <3> HIDE DEF new
    <3> QED BY <3>1, <3>2, <2>4
  <2>6. NewShape(info) =
            IF status = "BATCHSIZE_CHANGE_REQUIRED"
            THEN IF info.batch = 0 THEN info.shape
                 ELSE [info.shape EXCEPT ![info.batch] =
                          {request.inputs[1].shape[model.inputs[1].batch]}]
            ELSE IF model.mode[info.name] = "AUTO"
                 THEN [k \in DOMAIN t.shape |-> {t.shape[k]}] ELSE info.shape
    BY DEF NewShape
  <2> HIDE DEF info, new, t
  <2>7. /\ \A k \in DOMAIN t.shape : t.shape[k] >= 0
        /\ t.type = info.type
        /\ Len(t.shape) = Len(info.shape)
        /\ BatchMismatch(info, t) => model.batching = "AUTO" \/ model.mode[info.name] = "AUTO"
        /\ model.batching = "AUTO" => info.batch # 0
        /\ ShapeMismatch(info, t, model.batching) => model.mode[info.name] = "AUTO"
        /\ Content(Api, request, request.inputs, at, info) = "OK"
    BY <2>1 DEF Passed, t
  <2>8. /\ DOMAIN t.shape = 1 .. Len(t.shape) /\ Len(t.shape) \in Nat
        /\ DOMAIN info.shape = DOMAIN t.shape
    BY <2>1, <2>7
  <2>9. ~ BatchMismatch(new, t) /\ ~ ShapeMismatch(new, t, model.batching)
    <3>1. CASE status = "BATCHSIZE_CHANGE_REQUIRED"
      <4>1. model.batching = "AUTO" /\ info.batch \in DOMAIN info.shape
        BY <1>0, <2>1, <2>7, <2>8, <3>1
      <4>2. ~ ShapeMismatch(info, t, model.batching)
        BY <1>0, <2>1, <2>7, <4>1 DEF TypedModel
      <4>3. new.shape = [info.shape EXCEPT ![info.batch] = {t.shape[info.batch]}]
        BY <2>4, <2>5, <2>6, <2>7, <3>1, <4>1
      <4>4. ~ BatchMismatch(new, t)
        BY <2>4, <4>1, <4>3 DEF BatchMismatch
      <4>5. ~ ShapeMismatch(new, t, model.batching)
        BY <2>4, <2>8, <4>1, <4>2, <4>3 DEF ShapeMismatch
      <4> QED BY <4>4, <4>5
    <3>2. CASE status # "BATCHSIZE_CHANGE_REQUIRED"
      <4>1. model.batching # "AUTO"
        BY <1>0, <3>2
      <4>2. \A k \in DOMAIN t.shape : t.shape[k] \in new.shape[k]
        <5>1. CASE model.mode[info.name] = "AUTO"
          BY <2>4, <2>6, <3>2, <5>1
        <5>2. CASE model.mode[info.name] # "AUTO"
          <6>1. new.shape = info.shape
            BY <2>4, <2>6, <3>2, <5>2
          <6>2. ~ ShapeMismatch(info, t, model.batching)
            BY <2>7, <5>2
          <6> QED BY <4>1, <6>1, <6>2 DEF ShapeMismatch
        <5> QED BY <5>1, <5>2
      <4>3. info.batch # 0 => info.batch \in DOMAIN t.shape
        BY <2>1, <2>7, <2>8
      <4> QED BY <2>4, <4>2, <4>3 DEF BatchMismatch, ShapeMismatch
    <3> QED BY <3>1, <3>2
  <2>10. Content(Api, request, request.inputs, at, new) = "OK"
    BY <2>4, <2>7, ContentOfType
  <2>11. Find(request.inputs, new.name) = at
    BY <2>4
  <2>12. Len(t.shape) = Len(new.shape)
    BY <2>3, <2>4, <2>7
  <2>13. Passed(Api, request, request.inputs, at, new, Reloaded)
    BY <1>1, <2>4, <2>7, <2>9, <2>10, <2>12 DEF Passed, t
  <2>14. InputPasses(Api, request, Reloaded, new)
    <3> HIDE DEF at
    <3> QED BY <2>1, <2>11, <2>13 DEF InputPasses
  <2>15. TensorDemand(request.inputs, Reloaded, new) = "OK"
    BY <1>1, <2>1, <2>9, <2>11 DEF TensorDemand, Demand, t
  <2> QED BY <2>14, <2>15 DEF new
<1>7. ValidateInputs(Api, request, Reloaded) = "OK"
  BY <1>0, <1>1, <1>3, <1>5, <1>6, InputsAccepted
<1> QED
  BY <1>7

\* The step to the stream after a reload is the reload.
LEMMA ReloadServesKept ==
    ASSUME DataInv, DemandInv, ReloadServes, Next
    PROVE  ReloadServes'
<1> SUFFICES ASSUME pc' = "getStream", status' # "OK",
                    status' = "BATCHSIZE_CHANGE_REQUIRED" =>
                       \A info \in ToSet(model'.inputs) :
                           request'.inputs[Find(request'.inputs, info.name)].shape[info.batch]
                               = request'.inputs[1].shape[model'.inputs[1].batch]
             PROVE  ValidateInputs(Api', request', model') = "OK"
  BY DEF ReloadServes
<1>1. CASE pc = "getStream" /\ UNCHANGED <<model, front, request, status>>
  BY <1>1 DEF ReloadServes, Api
<1>2. CASE Check
  BY <1>2 DEF Check, Fail, Answer
<1>3. CASE Reload
  <2>1. /\ pc = "reload" /\ model' = Reloaded
        /\ UNCHANGED <<front, request, status>>
        /\ status = "BATCHSIZE_CHANGE_REQUIRED" => BatchFound
    BY <1>3 DEF Reload, Fail, Answer
  <2>2. status = "BATCHSIZE_CHANGE_REQUIRED" =>
           \A info \in ToSet(Reloaded.inputs) :
               request.inputs[Find(request.inputs, info.name)].shape[info.batch]
                   = request.inputs[1].shape[Reloaded.inputs[1].batch]
    BY <2>1
  <2>3. ValidateInputs(Api, request, Reloaded) = "OK"
    BY <2>1, <2>2, ReloadedServes
  <2> QED BY <2>1, <2>3 DEF Api
<1> QED
  BY <1>1, <1>2, <1>3, Frames

\* What the validation established stays until it is used.
LEMMA DemandKept == ASSUME DataInv, DemandInv, Next PROVE DemandInv'
<1> SUFFICES ASSUME pc' = "reload" PROVE DemandInv'
  BY DEF DemandInv
<1>1. CASE pc = "reload" /\ UNCHANGED <<model, front, request, status>>
  BY <1>1 DEF DemandInv, Api
<1>2. CASE Check
  <2>1. /\ UNCHANGED <<model, front, request>>
        /\ status' = Validate(Api, request, model)
        /\ status' \in {"RESHAPE_REQUIRED", "BATCHSIZE_CHANGE_REQUIRED"}
    BY <1>2 DEF Check, Fail, Answer
  <2>2. TypedModel(model) /\ TypedRequest(request) /\ Api \in {"kfs", "capi"}
    BY DEF DataInv, Api
  <2>3. Validate(Api, request, model) \in Statuses
    BY <2>1 DEF Statuses
  <2>4. /\ NumberOfTensors(request, model) = "OK" /\ Coherency(Api, request) = "OK"
        /\ \A i \in DOMAIN model.inputs : InputPasses(Api, request, model, model.inputs[i])
        /\ status' = "BATCHSIZE_CHANGE_REQUIRED" => model.batching = "AUTO"
        /\ status' = "RESHAPE_REQUIRED" => model.batching # "AUTO"
    BY <2>1, <2>2, <2>3, ValidateEstablishes
  <2>5. Api' = Api
    BY <2>1 DEF Api
  <2> QED BY <2>1, <2>4, <2>5 DEF DemandInv
<1>3. ~ Reload
  BY DEF Reload, Fail, Answer
<1> QED
  BY <1>1, <1>2, <1>3, Frames

\* The contents were checked against the type, which a reload leaves alone.
LEMMA ContentKept == ASSUME DataInv, DemandInv, ContentInv, Next PROVE ContentInv'
<1> SUFFICES ASSUME pc' \in {"reload", "getStream", "feed"}
             PROVE  \A i \in DOMAIN model'.inputs : Contents(Api', request', model'.inputs[i])
  BY DEF ContentInv
<1>1. CASE /\ pc \in {"reload", "getStream", "feed"}
           /\ UNCHANGED <<model, front, request>>
  BY <1>1 DEF ContentInv, Api
<1>2. CASE Check
  <2>1. /\ UNCHANGED <<model, front, request>>
        /\ Validate(Api, request, model) \in Statuses
    BY <1>2 DEF Check, Fail, Answer, Statuses
  <2>2. TypedModel(model) /\ TypedRequest(request) /\ Api \in {"kfs", "capi"}
    BY DEF DataInv, Api
  <2>3. \A i \in DOMAIN model.inputs : InputPasses(Api, request, model, model.inputs[i])
    BY <2>1, <2>2, ValidateEstablishes
  <2>4. \A i \in DOMAIN model.inputs : Contents(Api, request, model.inputs[i])
    BY <2>3 DEF InputPasses, Passed, Contents
  <2>5. Api' = Api
    BY <2>1 DEF Api
  <2> QED BY <2>1, <2>4, <2>5
<1>3. CASE Reload
  <2>1. /\ pc = "reload" /\ model' = Reloaded
        /\ UNCHANGED <<front, request>>
        /\ status = "BATCHSIZE_CHANGE_REQUIRED" => BatchFound
    BY <1>3 DEF Reload, Fail, Answer
  <2>2. /\ Reloaded.inputs \in Seq(Infos) /\ Len(Reloaded.inputs) = Len(model.inputs)
        /\ \A i \in DOMAIN model.inputs :
             Reloaded.inputs[i] = [model.inputs[i] EXCEPT !.shape = NewShape(model.inputs[i])]
    BY <2>1, ReloadedIs
  <2>3. DOMAIN Reloaded.inputs = DOMAIN model.inputs
    <3>1. model.inputs \in Seq(Infos)
      BY DEF DataInv, TypedModel
    <3> QED BY <2>2, <3>1
  <2>4. Api' = Api
    BY <2>1 DEF Api
  <2>5. ASSUME NEW i \in DOMAIN model.inputs PROVE Contents(Api, request, Reloaded.inputs[i])
    <3> DEFINE info == model.inputs[i]
               new == Reloaded.inputs[i]
    <3>1. DOMAIN info = {"name", "shape", "type", "batch"}
      BY <2>1, BeforeReload
    <3>2. new = [info EXCEPT !.shape = NewShape(info)]
      BY <2>2
    <3>3. new.name = info.name /\ new.type = info.type
      BY <3>1, <3>2
    <3>4. Contents(Api, request, info)
      BY <2>1 DEF ContentInv
    <3> HIDE DEF info, new
    <3>5. Contents(Api, request, new)
      BY <3>3, <3>4, ContentOfType DEF Contents
    <3> QED BY <3>5 DEF new
  <2> QED BY <2>1, <2>3, <2>4, <2>5
<1> QED
  BY <1>1, <1>2, <1>3, Frames

\* What deserialize hands over for an input the model has: its contents passed.
LEMMA FedFits ==
    ASSUME DataInv, ContentInv, pc = "feed", NEW info \in ToSet(model.inputs)
    PROVE  LET t == TensorOf(info, request.inputs, "in")
           IN  t.bytes = Bytes(t.item, t.shape)
<1> DEFINE at == Find(request.inputs, info.name)
<1>1. /\ TypedRequest(request) /\ TypedModel(model) /\ Api \in {"kfs", "capi"}
      /\ request.inputs \in Seq(Tensors) /\ model.inputs \in Seq(Infos)
  BY DEF DataInv, Api, TypedRequest, TypedModel
<1>2. PICK i \in DOMAIN model.inputs : info = model.inputs[i]
  BY DEF ToSet
<1>3. info.type \in DOMAIN ItemSize
  <2>1. info \in Infos
    BY <1>1, <1>2
  <2> QED BY <2>1 DEF Infos
<1>4. Contents(Api, request, info)
  BY <1>2 DEF ContentInv
<1>5. at # 0 /\ at \in DOMAIN request.inputs
  BY <1>1, <1>4, FoundHasName DEF Contents
<1>6. Content(Api, request, request.inputs, at, info) = "OK"
  BY <1>4 DEF Contents
<1>7. IsShape(request.inputs[at].shape)
  <2>1. request.inputs[at].shape \in Seq(Int)
    BY <1>1, <1>5, TensorAt
  <2>2. \A k \in DOMAIN request.inputs[at].shape : request.inputs[at].shape[k] >= 0
    BY <1>4 DEF Contents
  <2> HIDE DEF at
  <2>3. FitsSize(request.inputs[at].shape)
    BY <1>1, <1>5 DEF TypedRequest
  <2> QED BY <2>1, <2>2, <2>3 DEF IsShape
<1> HIDE DEF at
<1>8. Bytes(ItemSize[info.type], request.inputs[at].shape) =
          IF Api = "capi" THEN request.inputs[at].bytes
          ELSE IF request.raw # <<>> THEN request.raw[at]
          ELSE request.inputs[at].count * ItemSize[info.type]
  BY <1>1, <1>3, <1>5, <1>6, <1>7, ContentFits
<1> QED
  BY <1>8 DEF TensorOf, at

\* Only deserialize hands tensors over.
LEMMA HandedKept ==
    ASSUME DataInv, ContentInv, TensorsFitBuffers, Next PROVE TensorsFitBuffers'
<1>1. CASE UNCHANGED handed \/ handed' = {}
  BY <1>1 DEF TensorsFitBuffers
<1>2. CASE Deserialize
  <2>1. SUFFICES ASSUME handed' # {}, handed' # handed PROVE TensorsFitBuffers'
    BY <1>1
  <2> DEFINE I == {i \in ToSet(model.inputs) : Find(request.inputs, i.name) # 0}
             O == {i \in ToSet(model.outputs) : Find(request.outputs, i.name) # 0}
             G == {<<info, TensorOf(info, request.inputs, "in")>> : info \in I}
             H == {<<info, TensorOf(info, request.outputs, "out")>> : info \in O}
  <2>2. pc = "feed" /\ handed' = {g[2] : g \in G \cup H}
    BY <1>2, <2>1 DEF Deserialize, Fail, Answer
  <2>3. ASSUME NEW t \in handed', t.dir = "in" PROVE t.bytes = Bytes(t.item, t.shape)
    <3>1. PICK g \in G \cup H : t = g[2]
      BY <2>2
    <3>2. CASE g \in G
      <4>1. PICK info \in I : t = TensorOf(info, request.inputs, "in")
        BY <3>1, <3>2
      <4> QED BY <2>2, <4>1, FedFits
    <3>3. CASE g \in H
      <4>1. PICK info \in O : t = TensorOf(info, request.outputs, "out")
        BY <3>1, <3>3
      <4>2. t.dir = "out"
        BY <4>1 DEF TensorOf
      <4> QED BY <2>3, <4>2
    <3> QED BY <3>1, <3>2, <3>3
  <2> QED BY <2>3 DEF TensorsFitBuffers
<1> QED
  BY <1>1, <1>2, Frames

\* A model is typed as it is found, and the first request is none.
LEMMA SafetyInit == ASSUME Init PROVE SafetyInv
<1>1. TypesInv
  BY DEF Init, TypesInv, Kinds
<1>2. CapiInv
  BY DEF Init, CapiInv
<1>3. TypedModel(model)
  <2>1. model \in Models
    BY DEF Init
  <2>2. /\ DOMAIN model = {"inputs", "outputs", "batching", "mode"}
        /\ model.inputs \in Seq(Infos) /\ model.inputs # <<>>
        /\ model.outputs \in Seq(Infos) /\ Len(model.outputs) = 1
        /\ \A i \in DOMAIN model.inputs : model.inputs[i].batch <= Len(model.inputs[i].shape)
        /\ model.batching = "AUTO" => \A n \in DOMAIN model.mode : model.mode[n] # "AUTO"
        /\ \A info \in ToSet(model.inputs) \cup ToSet(model.outputs) : info.name \in DOMAIN model.mode
    BY <2>1, ModelsAssumption
  <2> QED BY <2>2 DEF TypedModel, ToSet
<1>4. TypedRequest(request)
  BY DEF Init, NoRequest, TypedRequest
<1> QED
  BY <1>1, <1>2, <1>3, <1>4 DEF Init, SafetyInv, DataInv, ContentInv, DemandInv,
     TensorsFitBuffers, SlicesDisjoint, ReloadServes

\* Every step keeps the invariant.
LEMMA SafetyStep == ASSUME SafetyInv, [Next]_vars PROVE SafetyInv'
<1>0. /\ TypesInv /\ DataInv /\ CapiInv /\ ContentInv /\ DemandInv
      /\ TensorsFitBuffers /\ SlicesDisjoint /\ ReloadServes
  BY DEF SafetyInv, DataInv
<1>1. CASE Next
  <2>1. TypesInv'
    BY <1>0, <1>1, TypesKept
  <2>2. CapiInv'
    <3>1. CASE Build
      BY <1>0, <3>1, BuildKeepsCapi
    <3>2. CASE UNCHANGED capi
      BY <1>0, <3>2 DEF CapiInv
    <3> QED BY <1>1, <3>1, <3>2, Frames
  <2>3. DataInv'
    <3>1. TypedModel(model')
      BY <1>0, <1>1, ModelKept
    <3>2. TypedRequest(request')
      BY <1>0, <1>1, RequestKept
    <3> QED BY <2>2, <3>1, <3>2 DEF DataInv
  <2>4. ContentInv'
    BY <1>0, <1>1, ContentKept
  <2>5. DemandInv'
    BY <1>0, <1>1, DemandKept
  <2>6. TensorsFitBuffers'
    BY <1>0, <1>1, HandedKept
  <2>7. SlicesDisjoint'
    BY <1>0, <1>1, SlicesKept
  <2>8. ReloadServes'
    BY <1>0, <1>1, ReloadServesKept
  <2> QED BY <2>1, <2>3, <2>4, <2>5, <2>6, <2>7, <2>8 DEF SafetyInv
<1>2. CASE UNCHANGED vars
  <2>1. UNCHANGED <<model, capi, pc, front, kind, request, status, handed, stream, output,
                    reply, counted>>
    BY <1>2 DEF vars
  <2>2. TypesInv' /\ DataInv' /\ ContentInv' /\ DemandInv'
    BY <1>0, <2>1 DEF TypesInv, DataInv, CapiInv, ContentInv, DemandInv, Api
  <2>3. TensorsFitBuffers' /\ SlicesDisjoint' /\ ReloadServes'
    BY <1>0, <2>1 DEF TensorsFitBuffers, SlicesDisjoint, ReloadServes, Api
  <2> QED BY <2>2, <2>3 DEF SafetyInv
<1> QED
  BY <1>1, <1>2

\* Type and content of what is on its way to OpenVINO, at any time.
LEMMA SafetyInvariant == Spec => []SafetyInv
<1>1. Init => SafetyInv
  BY SafetyInit
<1>2. SafetyInv /\ [Next]_vars => SafetyInv'
  BY SafetyStep
<1> QED
  BY <1>1, <1>2, PTL DEF Spec

\* After the reload a request asked for (ModelInstance::reloadModelIfRequired)
\* the model takes that request: its validation now says OK. When it asked for a
\* batch size, unless its inputs have different ones.
THEOREM ReloadsServe == Spec => []ReloadServes
<1>1. SafetyInv => ReloadServes
  BY DEF SafetyInv
<1> QED
  BY <1>1, SafetyInvariant, PTL

--------------------------------------------------------------------------------
(* The two front ends.                                                         *)

\* A KServe request with raw contents, as the C-API would have it.
AsCapi(req) ==
    [req EXCEPT !.inputs =
        [i \in DOMAIN req.inputs |-> [req.inputs[i] EXCEPT !.bytes = req.raw[i]]]]

\* It has the same tensors, with the raw contents as their buffers.
LEMMA AsCapiIs ==
    ASSUME NEW req, TypedRequest(req), Len(req.raw) = Len(req.inputs)
    PROVE  LET other == AsCapi(req)
           IN  /\ TypedRequest(other) /\ DOMAIN other.inputs = DOMAIN req.inputs
               /\ Len(other.inputs) = Len(req.inputs)
               /\ \A i \in DOMAIN req.inputs :
                      /\ other.inputs[i].name = req.inputs[i].name
                      /\ other.inputs[i].shape = req.inputs[i].shape
                      /\ other.inputs[i].type = req.inputs[i].type
                      /\ other.inputs[i].bytes = req.raw[i] /\ req.raw[i] # None
<1> DEFINE other == AsCapi(req)
<1>1. /\ other.inputs = [i \in DOMAIN req.inputs |-> [req.inputs[i] EXCEPT !.bytes = req.raw[i]]]
      /\ other.outputs = req.outputs /\ other.raw = req.raw /\ "inputs" \in DOMAIN other
  BY DEF AsCapi, TypedRequest
<1>2. /\ req.inputs \in Seq(Tensors) /\ req.raw \in Seq(Nat) /\ req.outputs \in Seq(Tensors)
      /\ \A i \in DOMAIN req.inputs : FitsSize(req.inputs[i].shape)
  BY DEF TypedRequest
<1> HIDE DEF other
<1>3. DOMAIN req.inputs = 1 .. Len(req.inputs) /\ Len(req.inputs) \in Nat
      /\ DOMAIN req.raw = DOMAIN req.inputs
  BY <1>2
<1>4. ASSUME NEW i \in DOMAIN req.inputs
      PROVE  /\ other.inputs[i].name = req.inputs[i].name
             /\ other.inputs[i].shape = req.inputs[i].shape
             /\ other.inputs[i].type = req.inputs[i].type
             /\ other.inputs[i].bytes = req.raw[i] /\ req.raw[i] \in Nat
             /\ other.inputs[i] \in Tensors
  <2> DEFINE t == req.inputs[i]
  <2>1. t \in Tensors /\ DOMAIN t = {"name", "shape", "type", "count", "bytes"}
    BY <1>2, TensorAt
  <2>2. req.raw[i] \in Nat
    BY <1>2, <1>3
  <2>3. other.inputs[i] = [t EXCEPT !.bytes = req.raw[i]]
    BY <1>1
  <2> HIDE DEF t
  <2>4. [t EXCEPT !.bytes = req.raw[i]] \in Tensors
    BY <2>1, <2>2 DEF Tensors
  <2> QED BY <2>1, <2>2, <2>3, <2>4 DEF t
<1>5. other.inputs \in Seq(Tensors) /\ DOMAIN other.inputs = DOMAIN req.inputs
      /\ Len(other.inputs) = Len(req.inputs)
  <2>1. DOMAIN other.inputs = 1 .. Len(req.inputs)
    BY <1>1, <1>3
  <2>2. other.inputs \in [1 .. Len(req.inputs) -> Tensors]
    BY <1>1, <1>3, <1>4, <2>1
  <2> QED BY <1>3, <2>1, <2>2
<1>6. \A i \in DOMAIN req.inputs : req.raw[i] # None
  BY <1>4, NoneAssumption
<1>7. TypedRequest(other)
  BY <1>1, <1>2, <1>4, <1>5 DEF TypedRequest
<1> QED
  BY <1>4, <1>5, <1>6, <1>7 DEF other

\* Every input is accepted by both or by neither, and asks both for the same.
LEMMA SameTensors ==
    ASSUME NEW req, TypedRequest(req), req.inputs # <<>>, Len(req.raw) = Len(req.inputs),
           NEW sv, NEW info
    PROVE  LET other == AsCapi(req)
           IN  /\ InputPasses("kfs", req, sv, info) <=> InputPasses("capi", other, sv, info)
               /\ TensorDemand(req.inputs, sv, info) = TensorDemand(other.inputs, sv, info)
<1> DEFINE other == AsCapi(req)
           at == Find(req.inputs, info.name)
<1>1. /\ DOMAIN other.inputs = DOMAIN req.inputs /\ Len(other.inputs) = Len(req.inputs)
      /\ \A i \in DOMAIN req.inputs :
             /\ other.inputs[i].name = req.inputs[i].name
             /\ other.inputs[i].shape = req.inputs[i].shape
             /\ other.inputs[i].type = req.inputs[i].type
             /\ other.inputs[i].bytes = req.raw[i] /\ req.raw[i] # None
  BY AsCapiIs
<1>2. req.inputs \in Seq(Tensors) /\ req.raw # <<>>
  BY DEF TypedRequest
<1> HIDE DEF other
<1>3. Find(other.inputs, info.name) = at
  <2>1. {i \in 1 .. Len(other.inputs) : other.inputs[i].name = info.name}
            = {i \in 1 .. Len(req.inputs) : req.inputs[i].name = info.name}
    BY <1>1, <1>2
  <2> QED BY <2>1 DEF Find, SelectInSeq
<1>4. at = 0 \/ at \in DOMAIN req.inputs
  BY <1>2, FoundHasName
<1> HIDE DEF at
<1> SUFFICES /\ InputPasses("kfs", req, sv, info) <=> InputPasses("capi", other, sv, info)
             /\ TensorDemand(req.inputs, sv, info) = TensorDemand(other.inputs, sv, info)
  BY DEF other
<1>5. CASE at = 0
  BY <1>3, <1>5 DEF InputPasses, TensorDemand, at
<1>6. CASE at # 0
  <2> DEFINE t == req.inputs[at]
             u == other.inputs[at]
  <2>1. /\ u.shape = t.shape /\ u.type = t.type /\ u.bytes = req.raw[at]
        /\ req.raw[at] # None
    BY <1>1, <1>4, <1>6
  <2> HIDE DEF t, u
  <2>2. Content("kfs", req, req.inputs, at, info) = "OK"
            <=> Content("capi", other, other.inputs, at, info) = "OK"
    <3> DEFINE e == ElementCount(t.shape)
               b == BufferSize(e.count, ItemSize[info.type])
    <3>1. Content("kfs", req, req.inputs, at, info) = "OK"
              <=> e.ok /\ b.ok /\ b.size = req.raw[at]
      BY <1>2 DEF Content, KfsContent, t
    <3>2. Content("capi", other, other.inputs, at, info) = CapiContent(u, info)
      BY DEF Content, u
    <3> DEFINE x == ExpectedBytes(t.shape, ItemSize[info.type])
    <3>3. CapiContent(u, info) = "OK" <=> x.ok /\ x.size = req.raw[at]
      BY <2>1 DEF CapiContent
    <3>4. x = IF e.ok THEN b ELSE [ok |-> FALSE, size |-> 0]
      BY DEF ExpectedBytes
    <3> HIDE DEF e, b, x
    <3>5. x.ok /\ x.size = req.raw[at] <=> e.ok /\ b.ok /\ b.size = req.raw[at]
      BY <3>4
    <3> QED BY <3>1, <3>2, <3>3, <3>5
  <2>3. /\ BatchMismatch(info, t) <=> BatchMismatch(info, u)
        /\ ShapeMismatch(info, t, sv.batching) <=> ShapeMismatch(info, u, sv.batching)
    BY <2>1 DEF BatchMismatch, ShapeMismatch
  <2>4. Passed("kfs", req, req.inputs, at, info, sv)
            <=> Passed("capi", other, other.inputs, at, info, sv)
    BY <2>1, <2>2, <2>3 DEF Passed, t, u
  <2>5. Demand(info, t, sv) = Demand(info, u, sv)
    BY <2>3 DEF Demand
  <2> QED BY <1>3, <1>6, <2>4, <2>5 DEF InputPasses, TensorDemand, at, t, u
<1> QED
  BY <1>5, <1>6

\* The inputs that ask for a reload.
Demanding(tensors, infos, sv) ==
    {i \in DOMAIN infos : TensorDemand(tensors, sv, infos[i]) # "OK"}

\* A loop that refuses nothing ends with the last demand.
LEMMA LastDemand ==
    ASSUME NEW api, NEW req, NEW tensors, NEW infos, NEW sv,
           \A i \in DOMAIN infos : ValidateTensor(api, "INPUT", req, tensors, sv, infos[i]) = "OK"
    PROVE  LET demanding == Demanding(tensors, infos, sv)
           IN  ValidateTensors(api, "INPUT", req, tensors, infos, sv)
                   = IF demanding = {} THEN "OK"
                     ELSE TensorDemand(tensors, sv, infos[Max(demanding)])
BY DEF ValidateTensors, Demanding

\* What the KServe and the C-API validation say of the same tensors.
LEMMA SameVerdict ==
    ASSUME NEW req, TypedRequest(req), NEW sv, TypedModel(sv), Len(req.raw) = Len(req.inputs),
           \A i \in DOMAIN req.inputs : req.inputs[i].count = 0
    PROVE  LET kfs == ValidateInputs("kfs", req, sv)
               theirs == ValidateInputs("capi", AsCapi(req), sv)
           IN  IF kfs \in Statuses THEN theirs = kfs ELSE theirs \notin Statuses
<1> DEFINE other == AsCapi(req)
           mine == ValidateTensors("kfs", "INPUT", req, req.inputs, sv.inputs, sv)
           its == ValidateTensors("capi", "INPUT", other, other.inputs, sv.inputs, sv)
<1>1. /\ TypedRequest(other) /\ Len(other.inputs) = Len(req.inputs)
      /\ req.inputs \in Seq(Tensors) /\ other.inputs \in Seq(Tensors)
      /\ sv.inputs \in Seq(Infos)
  BY AsCapiIs DEF TypedRequest, TypedModel
<1> HIDE DEF other
<1>2. NumberOfTensors(other, sv) = NumberOfTensors(req, sv)
  BY <1>1 DEF NumberOfTensors
<1>3. CASE NumberOfTensors(req, sv) # "OK"
  BY <1>2, <1>3 DEF ValidateInputs, NumberOfTensors, Statuses, other
<1>4. CASE NumberOfTensors(req, sv) = "OK"
  <2>1. req.inputs # <<>>
    BY <1>4 DEF NumberOfTensors
  <2>2. Coherency("kfs", req) = "OK" /\ Coherency("capi", other) = "OK"
    BY DEF Coherency
  <2>3. ValidateInputs("kfs", req, sv) = mine /\ ValidateInputs("capi", other, sv) = its
    BY <1>2, <1>4, <2>2 DEF ValidateInputs
  <2>4. ASSUME NEW i \in DOMAIN sv.inputs
        PROVE  /\ ValidateTensor("kfs", "INPUT", req, req.inputs, sv, sv.inputs[i]) = "OK"
                     <=> ValidateTensor("capi", "INPUT", other, other.inputs, sv, sv.inputs[i]) = "OK"
               /\ TensorDemand(req.inputs, sv, sv.inputs[i])
                     = TensorDemand(other.inputs, sv, sv.inputs[i])
    <3>1. ValidateTensor("kfs", "INPUT", req, req.inputs, sv, sv.inputs[i]) = "OK"
              <=> InputPasses("kfs", req, sv, sv.inputs[i])
      BY InputPassesIs
    <3>2. ValidateTensor("capi", "INPUT", other, other.inputs, sv, sv.inputs[i]) = "OK"
              <=> InputPasses("capi", other, sv, sv.inputs[i])
      BY <1>1, InputPassesIs
    <3>3. /\ InputPasses("kfs", req, sv, sv.inputs[i])
                <=> InputPasses("capi", other, sv, sv.inputs[i])
          /\ TensorDemand(req.inputs, sv, sv.inputs[i])
                = TensorDemand(other.inputs, sv, sv.inputs[i])
      BY <2>1, SameTensors DEF other
    <3> QED BY <3>1, <3>2, <3>3
  <2> DEFINE passes == \A i \in DOMAIN sv.inputs :
                 ValidateTensor("kfs", "INPUT", req, req.inputs, sv, sv.inputs[i]) = "OK"
             passesToo == \A i \in DOMAIN sv.inputs :
                 ValidateTensor("capi", "INPUT", other, other.inputs, sv, sv.inputs[i]) = "OK"
  <2>5. mine \in Statuses <=> passes
    BY <1>1, LoopPasses
  <2>6. its \in Statuses <=> passesToo
    BY <1>1, LoopPasses
  <2>7. passes <=> passesToo
    BY <2>4
  <2>8. ASSUME passes PROVE mine = its
    <3> DEFINE D == Demanding(req.inputs, sv.inputs, sv)
               E == Demanding(other.inputs, sv.inputs, sv)
    <3>1. mine = IF D = {} THEN "OK" ELSE TensorDemand(req.inputs, sv, sv.inputs[Max(D)])
      BY <2>8, LastDemand
    <3>2. its = IF E = {} THEN "OK" ELSE TensorDemand(other.inputs, sv, sv.inputs[Max(E)])
      BY <2>7, <2>8, LastDemand
    <3>3. D = E
      BY <2>4 DEF Demanding
    <3>4. D # {} => Max(D) \in DOMAIN sv.inputs
      <4>1. D \in SUBSET (1 .. Len(sv.inputs)) /\ Len(sv.inputs) \in Nat
        BY <1>1 DEF Demanding
      <4>2. DOMAIN sv.inputs = 1 .. Len(sv.inputs)
        BY <1>1
      <4> HIDE DEF D
      <4> QED BY <4>1, <4>2, GreatestOf
    <3> HIDE DEF mine, its, D, E
    <3> QED BY <2>4, <3>1, <3>2, <3>3, <3>4
  <2> HIDE DEF mine, its, passes, passesToo
  <2> QED BY <2>3, <2>5, <2>6, <2>7, <2>8 DEF other
<1> QED
  BY <1>3, <1>4

\* ModelInfer, the REST infer and OVMS_Inference make the same of the same
\* tensors: RequestValidator<KFSRequest> accepts a request with raw contents,
\* asks for a batch size or a shape, or refuses it, when
\* RequestValidator<InferenceRequest> does with the contents as buffers.
THEOREM FrontEndsDoAgree == Spec => []FrontEndsAgree
<1>1. SafetyInv => FrontEndsAgree
  <2> SUFFICES ASSUME SafetyInv, Len(request.raw) = Len(request.inputs),
                      \A i \in DOMAIN request.inputs : request.inputs[i].count = 0
               PROVE  LET kfs == ValidateInputs("kfs", request, model)
                          other == ValidateInputs("capi", AsCapi(request), model)
                      IN  IF kfs \in Statuses THEN other = kfs ELSE other \notin Statuses
    BY DEF FrontEndsAgree, AsCapi
  <2>1. TypedRequest(request) /\ TypedModel(model)
    BY DEF SafetyInv, DataInv
  <2> QED BY <2>1, SameVerdict
<1> QED
  BY <1>1, SafetyInvariant, PTL

\* Every input tensor OpenVINO is given has exactly the bytes its shape needs,
\* however the sizes wrap in size_t (RequestValidator::validateTensorContent,
\* deserializePredictRequest), and the raw contents made of a REST body are
\* different parts of it, in the order of the inputs (handleBinaryInputs).
THEOREM BuffersAreSafe == Spec => []BuffersSafe
<1>1. SafetyInv /\ RequestsInv => BuffersSafe
  <2> SUFFICES ASSUME SafetyInv, RequestsInv PROVE BuffersSafe
    OBVIOUS
  <2>1. model.inputs # <<>> /\ Len(model.outputs) = 1
    BY DEF SafetyInv, DataInv, TypedModel
  <2>2. /\ \A t \in ToSet(capi.inputs) : [t EXCEPT !.bytes = None] \in CapiInputs
        /\ Len(capi.outputs) <= 1
        /\ \A i, j \in DOMAIN capi.inputs :
               i # j => capi.inputs[i].name # capi.inputs[j].name
    BY DEF SafetyInv, DataInv, CapiInv, ToSet, Bare
  <2>3. pc \in Working \cup {"idle", "answered", "crashed"} /\ front \in Fronts
    BY DEF RequestsInv, FrontInv
  <2>4. TypesInv /\ TensorsFitBuffers /\ SlicesDisjoint
    BY DEF SafetyInv
  <2>5. TypeOK
    BY <2>1, <2>2, <2>3, <2>4 DEF TypeOK, TypesInv, Working
  <2> QED BY <2>4, <2>5 DEF BuffersSafe
<1> QED
  BY <1>1, SafetyInvariant, RequestsInvariant, PTL
================================================================================

--------------------------- MODULE InferenceRequests ---------------------------
(***************************************************************************)
(* One inference from the front end to the answer: a gRPC ModelInfer, a    *)
(* REST infer (converted into a KServe request first), OVMS_Inference and  *)
(* OVMS_InferenceAsync with a request object the application builds call   *)
(* by call. The model has one stream, and an asynchronous inference keeps  *)
(* it, the unload guard and the outputs of the request until OpenVINO      *)
(* calls back; other requests are made in the meantime.                    *)
(*                                                                         *)
(* The network is one that returns its first input, so the only output has *)
(* the shape of that input. Pipelines and graphs are called as a whole     *)
(* (PipelineExecution and GraphServing have their steps).                  *)
(***************************************************************************)
EXTENDS RequestValidation

CONSTANTS Models,        \* the servable records a model may start with
          KfsRequests(_), \* gRPC requests: [inputs, outputs, raw], and
          Bodies(_),     \* REST bodies: [header, binary, inputs], when nothing
                         \* else goes on (TRUE) or the C-API is used too (FALSE)
          CapiInputs,    \* inputs and outputs an application may add to a request,
          CapiOutputs,   \* without a buffer,
          CapiSizes      \* and the sizes of its buffers

Tensors == [name : STRING, shape : Seq(Int), type : DOMAIN ItemSize, count : Nat,
            bytes : Nat \cup {None}]
JsonInputs == [name : STRING, shape : Seq(Int), type : DOMAIN ItemSize,
               data : Nat \cup {None}, bsize : Int]
Infos == [name : STRING, shape : Seq(SUBSET Int), type : DOMAIN ItemSize, batch : Nat]

\* Dimensions are int64_t, which size_t covers.
FitsSize(shape) == \A k \in DOMAIN shape : shape[k] <= SizeMax

ASSUME NoneAssumption == None \in Int \ Nat
ASSUME RequestsAssumption ==
    /\ \A quiet \in BOOLEAN : \A r \in KfsRequests(quiet) :
           /\ r \in [inputs : Seq(Tensors), outputs : {<<>>}, raw : Seq(Nat)]
           /\ \A i \in DOMAIN r.inputs : FitsSize(r.inputs[i].shape)
    /\ \A quiet \in BOOLEAN : \A b \in Bodies(quiet) :
           /\ b \in [header : STRING, binary : Nat, inputs : Seq(JsonInputs)]
           /\ \A i \in DOMAIN b.inputs : FitsSize(b.inputs[i].shape)
    /\ \A t \in CapiInputs \cup CapiOutputs :
           t \in Tensors /\ t.bytes = None /\ FitsSize(t.shape)
    /\ CapiSizes \subseteq Nat

\* An input with a shape of its own makes the batching mode FIXED.
ASSUME ModelsAssumption ==
    \A m \in Models :
        /\ DOMAIN m = {"inputs", "outputs", "batching", "mode"}
        /\ m.inputs \in Seq(Infos) /\ m.inputs # <<>>
        /\ m.outputs \in Seq(Infos) /\ Len(m.outputs) = 1
        /\ \A i \in DOMAIN m.inputs : m.inputs[i].batch <= Len(m.inputs[i].shape)
        /\ m.batching = "AUTO" => \A n \in DOMAIN m.mode : m.mode[n] # "AUTO"
        /\ \A info \in ToSet(m.inputs) \cup ToSet(m.outputs) : info.name \in DOMAIN m.mode

VARIABLES model,     \* the servable record of the loaded model
          capi,      \* the request object: [inputs, outputs, callback]
          pc, front, kind, request, status,
          handed,    \* the tensors given to the infer request of the stream
          stream,    \* who uses the stream: "free", "call", "async", "lost"
          output,    \* the output tensor of the infer request: "own", "client"
          call,      \* the last C-API inference: [front, status]
          reply,     \* what its completion callback was told
          counted    \* the metric of this request: "none", "success", "fail", "twice"

vars == <<model, capi, pc, front, kind, request, status, handed, stream, output,
          call, reply, counted>>

Fronts == {"grpc", "rest", "sync", "async"}
Kinds == {"model", "unloaded", "noVersion", "pipeline", "unloadedPipeline", "graph", "missing"}
Quiet == capi.inputs = <<>> /\ stream = "free"
NoCall == [front |-> "none", status |-> "OK", callback |-> FALSE]
NoRequest == [inputs |-> <<>>, outputs |-> <<>>, raw |-> <<>>]
Api == IF front \in {"grpc", "rest"} THEN "kfs" ELSE "capi"

Init ==
    /\ model \in Models
    /\ capi = [inputs |-> <<>>, outputs |-> <<>>, callback |-> FALSE]
    /\ pc = "idle" /\ front = "grpc" /\ kind = "missing"
    /\ request = NoRequest /\ status = "OK" /\ handed = {}
    /\ stream = "free" /\ output = "own"
    /\ call = NoCall /\ reply = "none" /\ counted = "none"

--------------------------------------------------------------------------------
(* The request object of the C-API. Its inputs and outputs are unordered maps, *)
(* so a new tensor may come anywhere. The application leaves the object alone  *)
(* while an inference uses it. A call that fails changes nothing.              *)

Building == pc = "idle" /\ stream # "async"

OnlyObject ==
    /\ call' = NoCall /\ reply' = "none"
    /\ UNCHANGED <<model, pc, front, kind, request, status, handed, stream, output, counted>>

(* InferenceRequest::addInput / addOutput *)
AddInput(t) ==
    /\ Building /\ Find(capi.inputs, t.name) = 0
    /\ \E at \in 1 .. Len(capi.inputs) + 1 :
           capi' = [capi EXCEPT !.inputs = InsertAt(@, at, t)]
    /\ OnlyObject

AddOutput(t) ==
    /\ Building /\ capi.outputs = <<>>
    /\ capi' = [capi EXCEPT !.outputs = <<t>>]
    /\ OnlyObject

(* setInputBuffer / setOutputBuffer: refused when there is a buffer already. *)
SetInputBuffer(i, size) ==
    /\ Building /\ capi.inputs[i].bytes = None
    /\ capi' = [capi EXCEPT !.inputs[i].bytes = size]
    /\ OnlyObject

SetOutputBuffer(size) ==
    /\ Building /\ capi.outputs # <<>> /\ capi.outputs[1].bytes = None
    /\ capi' = [capi EXCEPT !.outputs[1].bytes = size]
    /\ OnlyObject

(* removeInputBuffer / removeOutputBuffer *)
RemoveInputBuffer(i) ==
    /\ Building /\ capi.inputs[i].bytes # None
    /\ capi' = [capi EXCEPT !.inputs[i].bytes = None]
    /\ OnlyObject

RemoveOutputBuffer ==
    /\ Building /\ capi.outputs # <<>> /\ capi.outputs[1].bytes # None
    /\ capi' = [capi EXCEPT !.outputs[1].bytes = None]
    /\ OnlyObject

(* removeInput / removeOutput *)
RemoveInput(i) ==
    /\ Building
    /\ capi' = [capi EXCEPT !.inputs = RemoveAt(@, i)]
    /\ OnlyObject

RemoveOutput ==
    /\ Building /\ capi.outputs # <<>>
    /\ capi' = [capi EXCEPT !.outputs = <<>>]
    /\ OnlyObject

SetCompletionCallback ==
    /\ Building /\ ~capi.callback
    /\ capi' = [capi EXCEPT !.callback = TRUE]
    /\ OnlyObject

--------------------------------------------------------------------------------
(* The front ends.                                                             *)

(* Every return: a synchronous C-API inference calls the callback, if there is *)
(* one, from the destructor of its CallbackGuard; an asynchronous one does not.*)
AnswerAsyncToo(result) ==
    /\ pc' = "answered" /\ status' = result /\ request' = NoRequest /\ handed' = {}
    /\ call' = IF Api = "capi" THEN [front |-> front, status |-> result, callback |-> capi.callback]
                               ELSE call
    /\ reply' = IF Api = "capi" /\ capi.callback
                THEN IF result = "OK" THEN "success" ELSE "failure"
                ELSE reply
Answer(result) ==
    /\ pc' = "answered" /\ status' = result /\ request' = NoRequest /\ handed' = {}
    /\ call' = IF Api = "capi" THEN [front |-> front, status |-> result, callback |-> capi.callback]
                               ELSE call
    /\ reply' = IF front = "sync" /\ capi.callback
                THEN IF result = "OK" THEN "success" ELSE "failure"
                ELSE reply

Count(ok) ==
    counted' = IF Api = "capi" THEN counted
               ELSE IF counted # "none" THEN "twice"
               ELSE IF ok THEN "success" ELSE "fail"

(* ModelInfer *)
GrpcInfer ==
    /\ pc = "idle"
    /\ pc' = "lookup" /\ front' = "grpc" /\ request' \in KfsRequests(Quiet)
    /\ UNCHANGED <<model, capi, kind, status, handed, stream, output, call, reply, counted>>

(* processInferKFSRequest up to ModelInferImpl: a body that cannot be converted*)
(* is counted when getReporter finds a loaded model or a pipeline.             *)
RestInfer ==
    /\ pc = "idle"
    /\ \E body \in Bodies(Quiet), k \in Kinds :
           LET prepared == PrepareGrpcRequest(body) IN
           /\ front' = "rest"
           /\ \/ /\ prepared.status = "OK"
                 /\ pc' = "lookup" /\ request' = prepared.request
                 /\ UNCHANGED <<kind, status, handed, counted>>
              \/ /\ prepared.status # "OK"
                 /\ kind' = k /\ pc' = "answered" /\ status' = prepared.status
                 /\ counted' = IF k \in {"model", "pipeline", "unloadedPipeline"}
                               THEN "fail" ELSE "none"
                 /\ UNCHANGED <<request, handed>>
    /\ UNCHANGED <<model, capi, stream, output, call, reply>>

(* OVMS_Inference, OVMS_InferenceAsync *)
CapiInfer(f) ==
    /\ pc = "idle" /\ stream # "async"
    /\ pc' = "lookup" /\ front' = f
    /\ request' = [inputs |-> capi.inputs, outputs |-> capi.outputs, raw |-> <<>>]
    /\ call' = NoCall /\ reply' = "none"
    /\ UNCHANGED <<model, capi, kind, status, handed, stream, output, counted>>

(* getModelInstance, then the pipelines and, for KServe, the graphs. Only an   *)
(* instance that was found but is not available is counted as a failure here.  *)
LookupFails ==
    /\ pc = "lookup" /\ kind' \in Kinds
    /\ \/ kind' = "unloaded" /\ Count(FALSE) /\ Answer("MODEL_VERSION_NOT_LOADED_YET")
       \/ kind' = "noVersion" /\ Answer("MODEL_VERSION_MISSING") /\ UNCHANGED counted
       \/ /\ kind' = "unloadedPipeline"
          /\ Answer("PIPELINE_DEFINITION_NOT_LOADED_YET") /\ UNCHANGED counted
       \/ /\ kind' = "missing" \/ (kind' = "graph" /\ Api = "capi")
          /\ Answer("NAME_MISSING") /\ UNCHANGED counted
    /\ UNCHANGED <<model, capi, front, stream, output>>

LookupModel ==
    /\ pc = "lookup" /\ kind' = "model" /\ pc' = "check"
    /\ UNCHANGED <<model, capi, front, request, status, handed, stream, output, call, reply,
                   counted>>

(* A pipeline is executed and counted; a graph counts for itself. *)
ServeOther ==
    /\ pc = "lookup" /\ kind' \in {"pipeline", "graph"}
    /\ \E ok \in BOOLEAN :
           \/ /\ kind' = "pipeline" /\ front # "async" /\ Count(ok)
              /\ Answer(IF ok THEN "OK" ELSE "PIPELINE_FAILED")
           \/ /\ kind' = "pipeline" /\ front = "async" /\ ~ok
              /\ Answer("NOT_IMPLEMENTED") /\ UNCHANGED counted
           \/ /\ kind' = "graph" /\ Api = "kfs"
              /\ Answer(IF ok THEN "OK" ELSE "MEDIAPIPE_EXECUTION_ERROR") /\ UNCHANGED counted
    /\ UNCHANGED <<model, capi, front, stream, output>>

--------------------------------------------------------------------------------
(* infer() and modelInferAsync().                                              *)

(* A failure of infer(): counted, the stream given back with its own outputs   *)
(* (OutputKeeper is destroyed before the guard of the stream).                 *)
Fail(result) ==
    /\ Count(FALSE) /\ Answer(result)
    /\ IF stream = "call" THEN stream' = "free" /\ output' = "own"
                          ELSE UNCHANGED <<stream, output>>
    /\ UNCHANGED <<model, capi, front, kind>>

Check ==
    /\ pc = "check"
    /\ LET result == Validate(Api, request, model) IN
       \/ /\ result \in {"OK", "RESHAPE_REQUIRED", "BATCHSIZE_CHANGE_REQUIRED"}
          /\ status' = result
          /\ pc' = IF result = "OK" THEN "getStream" ELSE "reload"
          /\ UNCHANGED <<model, capi, front, kind, request, handed, stream, output, call,
                         reply, counted>>
       \/ /\ result \notin {"OK", "RESHAPE_REQUIRED", "BATCHSIZE_CHANGE_REQUIRED"}
          /\ Fail(result)

(* getRequestBatchSize reads the first input of the request, getRequestShapes  *)
(* all of them; the model takes the batch, or the shapes of its AUTO inputs.   *)
NewShapeFirst(info) ==
    LET t == request.inputs[Find(request.inputs, info.name)]
    IN  IF status = "BATCHSIZE_CHANGE_REQUIRED"
        THEN IF info.name # model.inputs[1].name THEN info.shape
             ELSE [info.shape EXCEPT ![info.batch] = {request.inputs[1].shape[model.inputs[1].batch]}]
        ELSE IF model.mode[info.name] = "AUTO"
             THEN [k \in DOMAIN t.shape |-> {t.shape[k]}] ELSE info.shape
NewShape(info) ==
    LET t == request.inputs[Find(request.inputs, info.name)]
    IN  IF status = "BATCHSIZE_CHANGE_REQUIRED"
        THEN IF info.batch = 0 THEN info.shape
             ELSE [info.shape EXCEPT ![info.batch] = {request.inputs[1].shape[model.inputs[1].batch]}]
        ELSE IF model.mode[info.name] = "AUTO"
             THEN [k \in DOMAIN t.shape |-> {t.shape[k]}] ELSE info.shape

Reloaded ==
    LET inputs == [i \in DOMAIN model.inputs |->
                       [model.inputs[i] EXCEPT !.shape = NewShape(model.inputs[i])]]
    IN  [model EXCEPT !.inputs = inputs, !.outputs[1].shape = inputs[1].shape]

\* getRequestBatchSize returns nothing when the first input is too short.
BatchFound == model.inputs[1].batch \in DOMAIN request.inputs[1].shape

(* The request gives up its unload guard and waits until nobody has one; when  *)
(* the model cannot be built that way, the previous one is loaded again.       *)
Reload ==
    /\ pc = "reload"
    /\ \/ /\ stream = "free"
          /\ status = "BATCHSIZE_CHANGE_REQUIRED" => BatchFound
          /\ \/ /\ model' = Reloaded /\ pc' = "getStream"
                /\ UNCHANGED <<capi, front, kind, request, status, handed, stream, output,
                               call, reply, counted>>
             \/ Fail("RESHAPE_ERROR")
       \/ /\ status = "BATCHSIZE_CHANGE_REQUIRED" /\ ~BatchFound
          /\ Fail("INTERNAL_ERROR")

GetStream ==
    /\ pc = "getStream" /\ stream = "free"
    /\ stream' = "call" /\ pc' = "feed"
    /\ UNCHANGED <<model, capi, front, kind, request, status, handed, output, call, reply,
                   counted>>

(* makeTensor: a tensor over the bytes of the request, or, without any, one    *)
(* that OpenVINO allocates. *)
TensorOf(info, tensors, dir) ==
    LET at == Find(tensors, info.name)
        t == tensors[at]
        item == ItemSize[info.type]
    IN  [dir |-> dir, shape |-> t.shape, item |-> item,
         bytes |-> IF Api = "capi" THEN t.bytes
                   ELSE IF request.raw # <<>> THEN request.raw[at]
                   ELSE t.count * item]

(* ov::InferRequest::set_tensor accepts a tensor of the model's shape only. *)
Refused(info, tensor) ==
    \/ Len(tensor.shape) # Len(info.shape)
    \/ \E k \in DOMAIN tensor.shape : tensor.shape[k] \notin info.shape[k]

(* deserializePredictRequest: the inputs, then the outputs of the request. An  *)
(* output without a buffer, which validation lets through when the inputs ask  *)
(* for a reload, is a null pointer here.                                       *)
Deserialize ==
    LET given(infos, tensors, dir) ==
            {<<info, TensorOf(info, tensors, dir)>> :
                info \in {i \in ToSet(infos) : Find(tensors, i.name) # 0}}
        inputs == given(model.inputs, request.inputs, "in")
        outputs == given(model.outputs, request.outputs, "out")
    IN  /\ pc = "feed"
        /\ IF \E g \in inputs \cup outputs : Refused(g[1], g[2]) /\ g[2].bytes # None
           THEN Fail("OV_INTERNAL_DESERIALIZATION_ERROR")
           ELSE IF \E g \in outputs : g[2].bytes = None
           THEN /\ pc' = "crashed"
                /\ UNCHANGED <<model, capi, front, kind, request, status, handed, stream,
                               output, call, reply, counted>>
           ELSE /\ handed' = {g[2] : g \in inputs \cup outputs}
                /\ output' = IF outputs = {} THEN output ELSE "client"
                /\ pc' = IF front = "async" THEN "start" ELSE "infer"
                /\ UNCHANGED <<model, capi, front, kind, request, status, stream, call, reply,
                               counted>>

(* performInference, serializePredictResponse and, for REST, the JSON: the     *)
(* request is counted before it is formatted.                                  *)
Infer ==
    /\ pc = "infer"
    /\ \/ Fail("OV_INTERNAL_INFERENCE_ERROR")
       \/ Fail("OV_INTERNAL_SERIALIZATION_ERROR")
       \/ /\ Count(TRUE)
          /\ stream' = "free" /\ output' = "own"
          /\ IF front # "rest" THEN Answer("OK")
             ELSE \E json \in {"OK", "REST_UNSUPPORTED_PRECISION"} : Answer(json)
          /\ UNCHANGED <<model, capi, front, kind>>

(* modelInferAsync: set_callback and start_async. When the start fails, the    *)
(* callback that was set keeps the guards and the outputs.                     *)
StartAsync ==
    /\ pc = "start"
    /\ \/ ~capi.callback /\ Fail("OV_INTERNAL_INFERENCE_ERROR")
       \/ /\ capi.callback
          /\ \E started \in BOOLEAN :
                 /\ stream' = IF started THEN "async" ELSE "lost"
                 /\ Answer(IF started THEN "OK" ELSE "OV_INTERNAL_INFERENCE_ERROR")
          /\ UNCHANGED <<model, capi, front, kind, output, counted>>

(* The callback of OpenVINO: a failed serialization is told, an exception of   *)
(* the inference is not. The application hears before the outputs are put back *)
(* and the stream and the guard are given up, in this order.                   *)
AsyncCallback ==
    /\ stream = "async" /\ reply = "none"
    /\ reply' \in {"success", "failure"}
    /\ UNCHANGED <<model, capi, pc, front, kind, request, status, handed, stream, output,
                   call, counted>>

ReleaseAsync ==
    /\ stream = "async" /\ reply # "none"
    /\ stream' = "free" /\ output' = "own"
    /\ UNCHANGED <<model, capi, pc, front, kind, request, status, handed, call, reply,
                   counted>>

(* The front end returns; the next request starts afresh. *)
Return ==
    /\ pc = "answered"
    /\ pc' = "idle" /\ front' = "grpc" /\ kind' = "missing" /\ status' = "OK"
    /\ counted' = "none"
    /\ IF call.front = "async" /\ call.status = "OK" THEN UNCHANGED <<call, reply>>
       ELSE call' = NoCall /\ reply' = "none"
    /\ UNCHANGED <<model, capi, request, handed, stream, output>>

Build ==
    \/ \E t \in CapiInputs : AddInput(t)
    \/ \E t \in CapiOutputs : AddOutput(t)
    \/ \E i \in DOMAIN capi.inputs :
           \/ \E size \in CapiSizes : SetInputBuffer(i, size)
           \/ RemoveInputBuffer(i)
           \/ RemoveInput(i)
    \/ \E size \in CapiSizes : SetOutputBuffer(size)
    \/ RemoveOutputBuffer \/ RemoveOutput \/ SetCompletionCallback

Next ==
    \/ Build
    \/ GrpcInfer \/ RestInfer \/ \E f \in {"sync", "async"} : CapiInfer(f)
    \/ LookupFails \/ LookupModel \/ ServeOther
    \/ Check \/ Reload \/ GetStream \/ Deserialize \/ Infer \/ StartAsync
    \/ Return \/ AsyncCallback \/ ReleaseAsync

Spec == Init /\ [][Next]_vars

--------------------------------------------------------------------------------
(* Properties.                                                                 *)

Statuses == {"OK", "RESHAPE_REQUIRED", "BATCHSIZE_CHANGE_REQUIRED"}

TypeOK ==
    /\ model.inputs # <<>> /\ Len(model.outputs) = 1
    /\ \A t \in ToSet(capi.inputs) : [t EXCEPT !.bytes = None] \in CapiInputs
    /\ Len(capi.outputs) <= 1
    /\ \A i, j \in DOMAIN capi.inputs : i # j => capi.inputs[i].name # capi.inputs[j].name
    /\ pc \in {"idle", "answered", "lookup", "check", "reload", "getStream", "feed", "infer", "start", "crashed"}
    /\ front \in Fronts /\ kind \in Kinds
    /\ stream \in {"free", "call", "async", "lost"} /\ output \in {"own", "client"}
    /\ reply \in {"none", "success", "failure"}
    /\ counted \in {"none", "success", "fail", "twice"}

(* Every input tensor OpenVINO is given has, in unbounded arithmetic, exactly  *)
(* the bytes its shape needs: no overflow of size_t, no zero dimension and no  *)
(* mixture of raw and typed contents gets past validation and deserialization. *)
Bytes(item, shape) ==
    LET product[k \in 0 .. Len(shape)] ==
            IF k = 0 THEN item ELSE product[k - 1] * shape[k]
    IN  product[Len(shape)]

TensorsFitBuffers ==
    \A t \in handed : t.dir = "in" => t.bytes = Bytes(t.item, t.shape)

(* The raw contents made of a REST body are different parts of it, in the      *)
(* order of the inputs.                                                        *)
SlicesDisjoint ==
    pc = "lookup" /\ front = "rest" =>
        \A i \in DOMAIN request.raw :
            /\ request.at[i] >= 0 /\ request.at[i] + request.raw[i] <= request.total
            /\ \A j \in 1 .. i - 1 : request.at[j] + request.raw[j] <= request.at[i]

(* What a KServe request with raw contents is told, and what it makes of the   *)
(* model, is what the C-API says of the same tensors.                          *)
FrontEndsAgree ==
    LET asCapi == [request EXCEPT !.inputs =
                       [i \in DOMAIN request.inputs |->
                           [request.inputs[i] EXCEPT !.bytes = request.raw[i]]]]
        distinct == \A i, j \in DOMAIN request.inputs :
                        i # j => request.inputs[i].name # request.inputs[j].name
        kfs == ValidateInputs("kfs", request, model)
        other == ValidateInputs("capi", asCapi, model)
    IN  pc = "check" /\ Api = "kfs" /\ distinct /\ Len(request.raw) = Len(request.inputs)
          /\ (\A i \in DOMAIN request.inputs : request.inputs[i].count = 0)
        => IF kfs \in Statuses THEN other = kfs ELSE other \notin Statuses

(* After the reload a request asked for, the model takes the request; when it  *)
(* asked for a batch size, unless its inputs have different ones.              *)
ReloadServes ==
    LET batch == request.inputs[1].shape[model.inputs[1].batch]
        agrees(info) == request.inputs[Find(request.inputs, info.name)].shape[info.batch] = batch
    IN  /\ pc = "getStream" /\ status # "OK"
        /\ status = "BATCHSIZE_CHANGE_REQUIRED" => \A info \in ToSet(model.inputs) : agrees(info)
        => ValidateInputs(Api, request, model) = "OK"

(* A KServe request is counted at most once, with the result it had, and every *)
(* request that a loaded model or pipeline refused, failed or served is.       *)
CountedOnce ==
    /\ counted # "twice"
    /\ pc = "answered" /\ Api = "kfs" =>
          /\ counted = "success" => status \in {"OK", "REST_UNSUPPORTED_PRECISION"}
          /\ counted = "fail" => status # "OK"
          /\ kind \in {"model", "pipeline"} => counted # "none"

(* The completion callback of a C-API inference agrees with what the call      *)
(* returned: a synchronous one was told before it, with the same result; an    *)
(* asynchronous one that failed is never told, one that was accepted is, while *)
(* it still has the stream.                                                    *)
CallbackAgrees ==
    pc \in {"idle", "answered"} =>
        /\ call.front = "sync" /\ call.callback =>
               reply = IF call.status = "OK" THEN "success" ELSE "failure"
        /\ call.front = "async" =>
               IF call.status = "OK" THEN stream = "async" \/ reply # "none" ELSE reply = "none"

(* An infer request nobody uses writes to its own output tensors again, not    *)
(* into the buffer of the last application.                                    *)
OutputsReset == stream = "free" => output = "own"

(* OpenVINO reads the bytes of the request and no others.                      *)
BuffersSafe == TypeOK /\ TensorsFitBuffers /\ SlicesDisjoint

(* A request is answered, counted and forgotten once.                          *)
AnsweredOnce == CountedOnce /\ CallbackAgrees /\ OutputsReset
================================================================================

--------------------------- MODULE RequestValidation ---------------------------
(***************************************************************************)
(* What decides whether the tensors of a request may be handed to          *)
(* OpenVINO: the sizes a shape stands for, computed in size_t, the checks  *)
(* RequestValidator makes for the two request types (KServe and C-API),    *)
(* and the conversion of a REST body with binary data into a KServe        *)
(* request.                                                                *)
(*                                                                         *)
(* Tensors of a request are records                                        *)
(*     [name, shape, type, count, bytes]                                   *)
(* where count is the number of values in the contents of a KServe tensor  *)
(* and bytes the size of the buffer of a C-API tensor (None: no buffer).   *)
(* The data of a KServe request may be in `raw' instead, the sizes of its  *)
(* raw_input_contents. The tensors a servable declares are records         *)
(*     [name, shape, type, batch]                                          *)
(* with a set of sizes for every dimension and the position of the batch   *)
(* in the layout (0: none). Tensors that need preprocessing (strings,      *)
(* images) are not modelled.                                               *)
(***************************************************************************)
EXTENDS Integers, Sequences, SequencesExt, FiniteSetsExt

CONSTANTS SizeMax,      \* the largest value of size_t
          ItemSize,     \* bytes of one element, for every precision
          RawOnly,      \* the precisions JSON and contents cannot carry (FP16, BF16)
          None          \* an absent buffer, absent data, an absent parameter

ASSUME SizeMaxAssumption == SizeMax \in Nat \ {0}
ASSUME ItemSizeAssumption == \A p \in DOMAIN ItemSize : ItemSize[p] \in 1 .. SizeMax

--------------------------------------------------------------------------------
(* Sizes, in the width of size_t.                                              *)

Cast(d) == d % (SizeMax + 1)
Times(a, b) == (a * b) % (SizeMax + 1)

(* computeExpectedElementCountReturnFalseIfOverflow: the product of the        *)
(* dimensions up to the first zero, unless it overflows before that.           *)
CountDimension(acc, d) ==
    IF ~acc.ok \/ acc.zero THEN acc
    ELSE IF d = 0 THEN [acc EXCEPT !.count = 0, !.zero = TRUE]
    ELSE IF acc.count > SizeMax \div Cast(d) THEN [acc EXCEPT !.ok = FALSE]
    ELSE [acc EXCEPT !.count = Times(acc.count, Cast(d))]

ElementCount(shape) ==
    LET elements[k \in 0 .. Len(shape)] ==
            IF k = 0 THEN [ok |-> TRUE, zero |-> FALSE, count |-> 1]
                     ELSE CountDimension(elements[k - 1], shape[k])
    IN  elements[Len(shape)]

(* computeExpectedBufferSizeReturnFalseIfOverflow *)
BufferSizeWraps(count, item) == [ok |-> TRUE, size |-> Times(count, item)]
BufferSize(count, item) ==
    IF item = 0 \/ count = 0 THEN [ok |-> TRUE, size |-> 0]
    ELSE IF count > SizeMax \div item THEN [ok |-> FALSE, size |-> 0]
    ELSE [ok |-> TRUE, size |-> Times(count, item)]

ExpectedBytes(shape, item) ==
    LET elements == ElementCount(shape)
    IN  IF elements.ok THEN BufferSize(elements.count, item)
                       ELSE [ok |-> FALSE, size |-> 0]

--------------------------------------------------------------------------------
(* RequestValidator. `api' is "kfs" or "capi", `sv' the servable with its      *)
(* inputs, outputs, batching mode and the shape mode of every tensor.          *)

(* The position of the first tensor of that name (0: missing). For KServe it   *)
(* is also the position of its raw contents.                                   *)
Find(tensors, name) == SelectInSeq(tensors, LAMBDA t : t.name = name)

(* validateNumberOfTensors of the inputs *)
NumberOfTensors(req, sv) ==
    IF req.inputs # <<>> /\ Len(req.inputs) = Len(sv.inputs)
    THEN "OK" ELSE "INVALID_NO_OF_INPUTS"

(* validateRequestCoherencyKFS *)
Coherency(api, req) ==
    IF \/ api = "capi"
       \/ req.raw = <<>>
       \/ /\ Len(req.raw) = Len(req.inputs)
          /\ \A i \in DOMAIN req.inputs : req.inputs[i].count = 0
    THEN "OK" ELSE "INVALID_MESSAGE_STRUCTURE"

BatchMismatch(info, t) ==
    info.batch # 0 /\ t.shape[info.batch] \notin info.shape[info.batch]

(* checkShapeMismatch skips the batch only when the server may change it. *)
ShapeMismatch(info, t, batching) ==
    \E k \in DOMAIN t.shape :
        /\ ~(batching = "AUTO" /\ k = info.batch)
        /\ t.shape[k] \notin info.shape[k]

(* validateTensorContent of a KServe tensor *)
KfsContent(req, at, info) ==
    LET t == req.inputs[at]
        elements == ElementCount(t.shape)
        expected == BufferSize(elements.count, ItemSize[info.type])
    IN  IF ~elements.ok THEN "INVALID_CONTENT_SIZE"
        ELSE IF req.raw # <<>>
             THEN IF expected.ok /\ expected.size = req.raw[at]
                  THEN "OK" ELSE "INVALID_CONTENT_SIZE"
             ELSE IF elements.count = t.count THEN "OK" ELSE "INVALID_VALUE_COUNT"

(* validateCapiTensorContent *)
CapiContentFits(t, info) ==
    LET expected == ExpectedBytes(t.shape, ItemSize[info.type])
    IN  IF t.bytes = None THEN "NONEXISTENT_BUFFER"
        ELSE IF ~expected.ok THEN "INVALID_SHAPE"
        ELSE IF expected.size > t.bytes THEN "INVALID_CONTENT_SIZE"
        ELSE "OK"
CapiContent(t, info) ==
    LET expected == ExpectedBytes(t.shape, ItemSize[info.type])
    IN  IF t.bytes = None THEN "NONEXISTENT_BUFFER"
        ELSE IF ~expected.ok THEN "INVALID_SHAPE"
        ELSE IF expected.size # t.bytes THEN "INVALID_CONTENT_SIZE"
        ELSE "OK"

Content(api, req, tensors, at, info) ==
    IF api = "kfs" THEN KfsContent(req, at, info) ELSE CapiContent(tensors[at], info)

(* The checks of one tensor, in the order validate() makes them. *)
CheckTensor(api, req, tensors, at, info, sv) ==
    LET t == tensors[at] IN
    IF \E k \in DOMAIN t.shape : t.shape[k] < 0 THEN "INVALID_SHAPE"
    ELSE IF t.type # info.type THEN "INVALID_PRECISION"
    ELSE IF Len(t.shape) # Len(info.shape) THEN "INVALID_NO_OF_SHAPE_DIMENSIONS"
    ELSE IF /\ BatchMismatch(info, t)
            /\ sv.batching # "AUTO" /\ sv.mode[info.name] # "AUTO" THEN "INVALID_BATCH_SIZE"
    ELSE IF sv.batching = "AUTO" /\ info.batch = 0 THEN "INTERNAL_ERROR"
    ELSE IF /\ ShapeMismatch(info, t, sv.batching)
            /\ sv.mode[info.name] # "AUTO" THEN "INVALID_SHAPE"
    ELSE Content(api, req, tensors, at, info)

(* What one tensor sets finalStatus to: what the model has to become to serve  *)
(* it ("OK": finalStatus stays).                                               *)
Demand(info, t, sv) ==
    IF ShapeMismatch(info, t, sv.batching) THEN "RESHAPE_REQUIRED"
    ELSE IF BatchMismatch(info, t) /\ sv.batching = "AUTO" THEN "BATCHSIZE_CHANGE_REQUIRED"
    ELSE "OK"

(* One round of the loop of validate() over the declared tensors; a missing    *)
(* output is fine.                                                             *)
ValidateTensor(api, choice, req, tensors, sv, info) ==
    LET at == Find(tensors, info.name)
    IN  IF at # 0 THEN CheckTensor(api, req, tensors, at, info, sv)
        ELSE IF choice = "OUTPUT" THEN "OK" ELSE "INVALID_MISSING_INPUT"

TensorDemand(tensors, sv, info) ==
    LET at == Find(tensors, info.name)
    IN  IF at = 0 THEN "OK" ELSE Demand(info, tensors[at], sv)

(* The loop ends with the first tensor that is refused; otherwise the last     *)
(* demand stands.                                                              *)
ValidateTensors(api, choice, req, tensors, infos, sv) ==
    LET check(i) == ValidateTensor(api, choice, req, tensors, sv, infos[i])
        demand(i) == TensorDemand(tensors, sv, infos[i])
        refused == {i \in DOMAIN infos : check(i) # "OK"}
        demanding == {i \in DOMAIN infos : demand(i) # "OK"}
    IN  IF refused # {} THEN check(Min(refused))
        ELSE IF demanding # {} THEN demand(Max(demanding))
        ELSE "OK"

ValidateInputs(api, req, sv) ==
    IF NumberOfTensors(req, sv) # "OK" THEN NumberOfTensors(req, sv)
    ELSE IF Coherency(api, req) # "OK" THEN Coherency(api, req)
    ELSE ValidateTensors(api, "INPUT", req, req.inputs, sv.inputs, sv)

(* The C-API validates the outputs of the request when nothing has been asked  *)
(* for by the inputs.                                                          *)
Validate(api, req, sv) ==
    LET inputs == ValidateInputs(api, req, sv)
    IN  IF api = "kfs" \/ inputs # "OK" THEN inputs
        ELSE ValidateTensors(api, "OUTPUT", req, req.outputs, sv.outputs, sv)

--------------------------------------------------------------------------------
(* REST: a JSON body with, after it, `binary' bytes of tensor data. Its inputs *)
(* are records [name, shape, type, data, bsize] with the number of values in   *)
(* "data" and the parameter "binary_data_size" (None when absent).             *)

(* KFSRestParser::parseInput *)
ParseInput(input) ==
    IF \/ \E k \in DOMAIN input.shape : input.shape[k] < 0
       \/ input.data # None /\ input.type \in RawOnly
    THEN "REST_COULD_NOT_PARSE_INPUT" ELSE "OK"

(* KFSRestParser::parseInputs *)
ParseInputs(inputs) ==
    IF inputs = <<>> THEN "REST_NO_INPUTS_FOUND"
    ELSE IF \E i \in DOMAIN inputs : ParseInput(inputs[i]) # "OK"
         THEN "REST_COULD_NOT_PARSE_INPUT" ELSE "OK"

ToTensor(input) == [name |-> input.name, shape |-> input.shape, type |-> input.type,
                    count |-> IF input.data = None THEN 0 ELSE input.data,
                    bytes |-> None]

(* handleBinaryInput: the next `size' bytes of the body become raw contents. *)
TakeBinary(acc, size, binary) ==
    IF size > binary - acc.offset
    THEN [acc EXCEPT !.error = "REST_BINARY_BUFFER_EXCEEDED"]
    ELSE [acc EXCEPT !.raw = Append(@, size), !.at = Append(@, acc.offset),
                     !.offset = @ + size]

(* One round of handleBinaryInputs; an input whose data is in the JSON and     *)
(* that declares no binary size takes nothing.                                 *)
HandleBinaryInput(acc, input, binary) ==
    LET empty == input.data \in {None, 0}
        computed == ExpectedBytes(input.shape, ItemSize[input.type])
    IN  IF acc.error # "OK" THEN acc
        ELSE IF input.bsize # None
             THEN IF ~empty THEN [acc EXCEPT !.error = "REST_CONTENTS_FIELD_NOT_EMPTY"]
                  ELSE IF input.bsize < 0
                  THEN [acc EXCEPT !.error = "REST_BINARY_DATA_SIZE_PARAMETER_INVALID"]
                  ELSE TakeBinary(acc, input.bsize, binary)
        ELSE IF ~empty THEN acc
        ELSE IF ~computed.ok THEN [acc EXCEPT !.error = "INVALID_CONTENT_SIZE"]
        ELSE TakeBinary(acc, computed.size, binary)

HandleBinaryInputs(body) ==
    LET taken[k \in 0 .. Len(body.inputs)] ==
            IF k = 0 THEN [error |-> "OK", raw |-> <<>>, at |-> <<>>, offset |-> 0]
            ELSE HandleBinaryInput(taken[k - 1], body.inputs[k], body.binary)
    IN  taken[Len(body.inputs)]

(* prepareGrpcRequest: the status and the KServe request a body becomes; `at'  *)
(* is where in the body the raw contents were found.                           *)
PrepareGrpcRequest(body) ==
    LET parsed == ParseInputs(body.inputs)
        binary == HandleBinaryInputs(body)
        request == [inputs |-> [i \in DOMAIN body.inputs |-> ToTensor(body.inputs[i])],
                    outputs |-> <<>>, raw |-> binary.raw, at |-> binary.at,
                    total |-> body.binary]
    IN  IF body.header # "fits" THEN [status |-> "REST_INFERENCE_HEADER_CONTENT_LENGTH_EXCEEDED", request |-> request]
        ELSE IF parsed # "OK" THEN [status |-> parsed, request |-> request]
        ELSE [status |-> binary.error, request |-> request]

================================================================================

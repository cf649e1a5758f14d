----------------------------- MODULE LlmServing -----------------------------
(***************************************************************************)
(* Text generation: the calculator that carries one HTTP request through a *)
(* servable, the executor thread of the servable, and the client that may  *)
(* close its connection at any time.                                       *)
(*                                                                         *)
(* `servable' is CB (continuous batching), LM or OMNI (the pipelines that  *)
(* generate one request at a time; a visual language model is an OMNI one  *)
(* whose requests ask for no audio).  The GenAI pipeline is external:      *)
(* it makes tokens 1, 2, ... for a request, CB one per step for            *)
(* every running request.  The text streamer is given by what the channel  *)
(* sees of it: it may hold tokens back and delivers all of them at the     *)
(* end; TextStreaming models it in full.                                   *)
(***************************************************************************)
EXTENDS Integers, Sequences, FiniteSets

CONSTANTS
    Req,               \* requests
    Profiles,          \* Profiles[r]: what r may ask for, records of ProfileType
    MaxModelLength,    \* 0: not set
    MaxBatchedTokens,  \* of the scheduler, without dynamic split fuse
    MaxPromptLength    \* of the NPU plugin

ProfileType ==
    [uri: {"chat", "completions", "responses", "tokenize", "other"},
     json: BOOLEAN, valid: BOOLEAN, image: BOOLEAN,
     prompt: Nat, max: Nat,          \* tokens of the prompt, max_tokens (0: not set)
     stream: BOOLEAN, usage: BOOLEAN,
     len: Nat, audio: Nat,           \* tokens and audio chunks the model makes
     leaves: BOOLEAN,                \* its client may close the connection
     bad: BOOLEAN]                   \* its output may break the parser or the pipeline

\* What a generation makes is at least one token: max_tokens is refused when 0.
ASSUME ProfilesAssumption ==
    \A r \in Req : Profiles[r] \subseteq {p \in ProfileType : p.len > 0}

VARIABLES
    servable,
    ask,        \* ask[r]: the profile of r
    pc,         \* pc[r]: where the calculator is
    status,     \* status[r]: what Process returned last
    conn,       \* conn[r]: the connection is open
    hook,       \* hook[r]: "none", "set" or "due": the disconnection callback
    gone,       \* clientDisconnected of the execution context
    gen,        \* gen[r]: the generation as the pipeline has it
    out,        \* out[r]: outputs of the handle not read yet
    last,       \* generationOutputs of the execution context
    held,       \* tokens the streamer holds back
    chan,       \* deltaChannel: [d: deltas, c: complete]
    taken,      \* deltas drained and not sent yet
    ready,      \* readySignal is set
    success,
    sent,       \* chunks sent down the graph
    queue,      \* requests of the executor
    ex,         \* the executor thread
    finish      \* finishExecutorThread

vars == <<servable, ask, pc, status, conn, hook, gone, gen, out, last, held,
          chan, taken, ready, success, sent, queue, ex, finish>>
client == <<conn, hook>>
pipeVars == <<gen, out>>
ctxVars == <<gone, last, held, chan, taken, ready, success>>

CB == servable = "CB"
Legacy == ~CB
Chunk(d, fin) == [d |-> d, fin |-> fin]
FinishDelta == 0
Done == Chunk(-1, FALSE)
Created == Chunk(-2, FALSE)
Failed == Chunk(-3, FALSE)
Usage == Chunk(-4, FALSE)
Primed == Chunk(-5, FALSE)
Total(r) == ask[r].len + (IF servable = "OMNI" THEN ask[r].audio ELSE 0)
NoAsk == [uri |-> "other", json |-> FALSE, valid |-> FALSE, image |-> FALSE,
          prompt |-> 0, max |-> 0, stream |-> FALSE, usage |-> FALSE,
          len |-> 0, audio |-> 0, leaves |-> FALSE, bad |-> FALSE]
NoOutput == [tok |-> 0, fin |-> FALSE, some |-> FALSE]
EmptyStop == [tok |-> 0, fin |-> TRUE, some |-> TRUE]
Idle == [st |-> "none", made |-> 0, in |-> FALSE]

Init ==
    /\ servable \in {"CB", "LM", "OMNI"}
    /\ ask = [r \in Req |-> NoAsk]
    /\ pc = [r \in Req |-> "idle"]
    /\ status = [r \in Req |-> "none"]
    /\ conn = [r \in Req |-> TRUE]
    /\ hook = [r \in Req |-> "none"]
    /\ gone = [r \in Req |-> FALSE]
    /\ gen = [r \in Req |-> Idle]
    /\ out = [r \in Req |-> <<>>]
    /\ last = [r \in Req |-> NoOutput]
    /\ held = [r \in Req |-> <<>>]
    /\ chan = [r \in Req |-> [d |-> <<>>, c |-> FALSE]]
    /\ taken = [r \in Req |-> <<>>]
    /\ ready = [r \in Req |-> FALSE]
    /\ success = [r \in Req |-> TRUE]
    /\ sent = [r \in Req |-> <<>>]
    /\ queue = <<>>
    /\ ex = "top"
    /\ finish = "no"

-----------------------------------------------------------------------------
(* Verdicts on a request before it is scheduled.                           *)

ValidateEndpoint(p) == ~(servable = "OMNI" /\ p.uri = "completions")

LoadRequest(p) ==
    IF ~p.json \/ p.uri = "other" \/ ~ValidateEndpoint(p) THEN "invalid" ELSE "ok"

\* The generation servables ask for the client first, CB does not.
ParseRequest(r) ==
    IF Legacy /\ ~conn[r] THEN "cancelled"
    ELSE IF ~ask[r].valid THEN "invalid" ELSE "ok"

ValidateInputCompatibility(p) == servable = "OMNI" \/ ~p.image

PrepareInputs(p) ==
    IF \/ ~ValidateInputCompatibility(p)
       \/ MaxModelLength > 0 /\ p.prompt > MaxModelLength
       \/ MaxModelLength > 0 /\ p.max > 0 /\ p.prompt + p.max > MaxModelLength
    THEN "invalid" ELSE "ok"

ValidateInputComplianceWithProperties(p) ==
    servable = "LM" => p.prompt <= MaxPromptLength

-----------------------------------------------------------------------------
(* Process: what a request goes through.                                   *)

\* The request is over: its execution context is dropped with the graph, and
\* with it the handle, which stops a generation that still runs.
Over(r, s) ==
    /\ pc' = [pc EXCEPT ![r] = "over"]
    /\ status' = [status EXCEPT ![r] = s]

Drop(r) ==
    gen' = [gen EXCEPT ![r].st = IF @ = "RUNNING" THEN "STOP" ELSE @]

Submit(r) ==
    /\ pc[r] = "idle" /\ finish = "no"
    /\ \E p \in Profiles[r] : ask' = [ask EXCEPT ![r] = p]
    /\ pc' = [pc EXCEPT ![r] = "load"]
    /\ UNCHANGED <<servable, status, client, pipeVars, ctxVars, sent, queue, ex, finish>>

Verdicts(r) ==
    LET p == ask[r] IN
    <<LoadRequest(p), ParseRequest(r), PrepareInputs(p),
      IF ValidateInputComplianceWithProperties(p) THEN "ok" ELSE "invalid">>

ProcessTokenizeRequest(r) ==
    /\ pc[r] = "load" /\ LoadRequest(ask[r]) = "ok" /\ ask[r].uri = "tokenize"
    /\ Over(r, IF ask[r].valid THEN "ok" ELSE "invalid")
    /\ UNCHANGED <<servable, ask, client, pipeVars, ctxVars, sent, queue, ex, finish>>

Load(r) ==
    /\ pc[r] = "load"
    /\ LoadRequest(ask[r]) = "ok" => ask[r].uri # "tokenize"
    /\ LET bad == {i \in 1..4 : Verdicts(r)[i] # "ok"} IN
       IF bad = {}
       THEN /\ pc' = [pc EXCEPT ![r] = IF CB THEN "check" ELSE "register"]
            /\ UNCHANGED status
       ELSE Over(r, Verdicts(r)[CHOOSE i \in bad : \A j \in bad : i <= j])
    /\ UNCHANGED <<servable, ask, client, pipeVars, ctxVars, sent, queue, ex, finish>>

\* isDisconnected, then add_request, then the callback, then notify.
ScheduleCheck(r) ==
    /\ pc[r] = "check"
    /\ IF ~conn[r] THEN Over(r, "cancelled")
       ELSE IF ask[r].prompt > MaxBatchedTokens THEN Over(r, "invalid")
       ELSE pc' = [pc EXCEPT ![r] = "add"] /\ UNCHANGED status
    /\ UNCHANGED <<servable, ask, client, pipeVars, ctxVars, sent, queue, ex, finish>>

AddRequestToPipeline(r) ==
    /\ pc[r] = "add" /\ CB
    /\ gen' = [gen EXCEPT ![r] = [st |-> "RUNNING", made |-> 0, in |-> TRUE]]
    /\ pc' = [pc EXCEPT ![r] = "register"]
    /\ UNCHANGED <<servable, ask, status, client, out, ctxVars, sent, queue, ex, finish>>

\* A connection that is closed already takes no callback.
RegisterDisconnectionCallback(r) ==
    /\ pc[r] = "register"
    /\ hook' = [hook EXCEPT ![r] = IF conn[r] THEN "set" ELSE @]
    /\ pc' = [pc EXCEPT ![r] = IF CB THEN "notify" ELSE "add"]
    /\ UNCHANGED <<servable, ask, status, conn, pipeVars, ctxVars, sent, queue, ex, finish>>

\* A stream of the responses API begins with response.created, once the
\* request is scheduled.
Scheduled(r) ==
    /\ sent' = [sent EXCEPT ![r] =
                   IF ask[r].stream /\ ask[r].uri = "responses"
                   THEN <<Created>> ELSE <<>>]
    /\ pc' = [pc EXCEPT ![r] = "read"]

\* The generation servables look at the connection after registering.
ScheduleUnchecked(r) ==
    /\ pc[r] = "add" /\ Legacy /\ ex # "locked"
    /\ queue' = Append(queue, r)
    /\ ex' = IF ex = "asleep" THEN "woken" ELSE ex
    /\ Scheduled(r)
    /\ UNCHANGED <<status, gone, chan>>
    /\ UNCHANGED <<servable, ask, client, pipeVars, last, held, taken, ready,
                   success, finish>>

ScheduleExecution(r) ==
    /\ pc[r] = "add" /\ Legacy
    /\ IF conn[r]
       THEN /\ ex # "locked"
            /\ queue' = Append(queue, r)
            /\ ex' = IF ex = "asleep" THEN "woken" ELSE ex
            /\ Scheduled(r)
            /\ UNCHANGED <<status, gone, chan>>
       ELSE /\ gone' = [gone EXCEPT ![r] = TRUE]
            /\ chan' = [chan EXCEPT ![r].c = TRUE]
            /\ Over(r, "cancelled")
            /\ UNCHANGED <<queue, ex, sent>>
    /\ UNCHANGED <<servable, ask, client, pipeVars, last, held, taken, ready,
                   success, finish>>

NotifyUnlocked(r) ==
    /\ pc[r] = "notify"
    /\ ex' = IF ex = "asleep" THEN "woken" ELSE ex
    /\ Scheduled(r)
    /\ UNCHANGED <<servable, ask, status, client, pipeVars, ctxVars, queue, finish>>

\* LLMExecutor::notify takes the mutex that the executor holds between
\* testing its condition and falling asleep.
NotifyExecutorThread(r) == ex # "locked" /\ NotifyUnlocked(r)

\* A failure while reading or preparing: streams of the responses API end
\* with response.failed, other requests with an error.
HandleGenerationError(r) ==
    IF ask[r].stream /\ ask[r].uri = "responses"
    THEN /\ sent' = [sent EXCEPT ![r] = @ \o <<Failed, Done>>]
         /\ Over(r, "ok")
    ELSE Over(r, "invalid") /\ UNCHANGED sent

(* --- continuous batching: reading ---------------------------------------*)

ReadCompleteExecutionResults(r) ==
    /\ pc[r] = "read" /\ CB /\ ~ask[r].stream
    /\ \/ ~conn[r] /\ Over(r, "cancelled") /\ Drop(r) /\ UNCHANGED <<taken, out>>
       \/ /\ gen[r].st # "RUNNING" /\ ~gen[r].in
          /\ IF gen[r].st = "STOP"
             THEN Over(r, "cancelled") /\ UNCHANGED <<taken, out, gen>>
             ELSE /\ taken' = [taken EXCEPT ![r] =
                       [i \in 1..Len(out[r]) |-> out[r][i].tok]]
                  /\ out' = [out EXCEPT ![r] = <<>>]
                  /\ pc' = [pc EXCEPT ![r] = "prepare"]
                  /\ UNCHANGED <<status, gen>>
    /\ UNCHANGED <<servable, ask, client, gone, last, held, chan, ready, success,
                   sent, queue, ex, finish>>

\* The streamer and the serialization run in this one thread.
PrepareCompleteResponse(r) ==
    /\ pc[r] = "prepare" /\ CB /\ ~ask[r].stream
    /\ \/ /\ sent' = [sent EXCEPT ![r] = [i \in 1..Len(taken[r]) |-> Chunk(taken[r][i], FALSE)]]
          /\ Over(r, "ok")
       \/ ask[r].bad /\ HandleGenerationError(r)
    /\ taken' = [taken EXCEPT ![r] = <<>>]
    /\ UNCHANGED <<servable, ask, client, pipeVars, gone, last, held, chan, ready,
                   success, queue, ex, finish>>

ReadPartialExecutionResults(r) ==
    /\ pc[r] = "read" /\ CB /\ ask[r].stream
    /\ IF ~conn[r] \/ gen[r].st = "STOP"
       THEN Over(r, "cancelled") /\ Drop(r)
       ELSE /\ pc' = [pc EXCEPT ![r] =
                   IF gen[r].st = "RUNNING" \/ out[r] # <<>> THEN "reading" ELSE "prepare"]
            /\ UNCHANGED <<status, gen>>
    /\ UNCHANGED <<servable, ask, client, out, ctxVars, sent, queue, ex, finish>>

\* read() blocks until the pipeline has pushed an output; an empty one is
\* taken for the end of the generation.
Read(r) ==
    /\ pc[r] = "reading" /\ out[r] # <<>>
    /\ last' = [last EXCEPT ![r] = IF Head(out[r]).some THEN Head(out[r]) ELSE EmptyStop]
    /\ out' = [out EXCEPT ![r] = Tail(@)]
    /\ pc' = [pc EXCEPT ![r] = "prepare"]
    /\ UNCHANGED <<servable, ask, status, client, gen, gone, held, chan, taken, ready,
                   success, sent, queue, ex, finish>>

(* --- what is sent for the deltas ds --------------------------------------*)

Midstream(r, ds) ==
    [i \in 1..Len(ds) |-> Chunk(ds[i], FALSE)]
        \o IF ds = <<>> /\ ask[r].uri = "responses" /\ Primed \notin {sent[r][i] : i \in 1..Len(sent[r])}
           THEN <<Primed>> ELSE <<>>

LastChunks(r, ds) ==
    (IF ds = <<>> THEN <<Chunk(FinishDelta, TRUE)>>
     ELSE [i \in 1..Len(ds) |-> Chunk(ds[i], i = Len(ds))])
        \o (IF ask[r].usage THEN <<Usage, Done>> ELSE <<Done>>)

PreparePartialResponse(r) ==
    /\ pc[r] = "prepare" /\ CB /\ ask[r].stream
    /\ LET o == last[r]
           new == IF o.tok > 0 THEN Append(held[r], o.tok) ELSE held[r] IN
       \/ /\ ~o.some /\ Over(r, "internal") /\ Drop(r) /\ UNCHANGED <<sent, held>>
       \/ /\ o.some /\ o.fin
          /\ sent' = [sent EXCEPT ![r] = @ \o LastChunks(r, new)]
          /\ held' = [held EXCEPT ![r] = <<>>]
          /\ Over(r, "ok") /\ Drop(r)
       \/ /\ o.some /\ ~o.fin
          /\ \E flush \in BOOLEAN :
                /\ held' = [held EXCEPT ![r] = IF flush THEN <<>> ELSE new]
                /\ sent' = [sent EXCEPT ![r] = @ \o Midstream(r, IF flush THEN new ELSE <<>>)]
          /\ pc' = [pc EXCEPT ![r] = "read"]
          /\ UNCHANGED <<status, gen>>
       \/ o.some /\ ask[r].bad /\ HandleGenerationError(r) /\ Drop(r) /\ UNCHANGED held
    /\ UNCHANGED <<servable, ask, client, out, gone, last, chan, taken, ready, success,
                   queue, ex, finish>>

(* --- one request at a time: reading --------------------------------------*)

LegacyReadComplete(r) ==
    /\ pc[r] = "read" /\ Legacy /\ ~ask[r].stream
    /\ IF ~conn[r] THEN Over(r, "cancelled")
       ELSE pc' = [pc EXCEPT ![r] = "waiting"] /\ UNCHANGED status
    /\ UNCHANGED <<servable, ask, client, pipeVars, ctxVars, sent, queue, ex, finish>>

FinishedWait(r) ==
    /\ pc[r] = "waiting" /\ ready[r]
    /\ IF ~success[r] THEN Over(r, "invalid")
       ELSE pc' = [pc EXCEPT ![r] = "prepare"] /\ UNCHANGED status
    /\ UNCHANGED <<servable, ask, client, pipeVars, ctxVars, sent, queue, ex, finish>>

LegacyPrepareComplete(r) ==
    /\ pc[r] = "prepare" /\ Legacy /\ ~ask[r].stream
    /\ IF conn[r]
       THEN /\ sent' = [sent EXCEPT ![r] =
                   [i \in 1..Len(chan[r].d) |-> Chunk(chan[r].d[i], FALSE)]]
            /\ chan' = [chan EXCEPT ![r].d = <<>>]
            /\ Over(r, "ok")
       ELSE Over(r, "cancelled") /\ UNCHANGED <<sent, chan>>
    /\ UNCHANGED <<servable, ask, client, pipeVars, gone, last, held, taken, ready,
                   success, queue, ex, finish>>

WaitForData(r) ==
    /\ pc[r] = "read" /\ Legacy /\ ask[r].stream
    /\ chan[r].d # <<>> \/ chan[r].c
    /\ pc' = [pc EXCEPT ![r] = "prepare"]
    /\ UNCHANGED <<servable, ask, status, client, pipeVars, ctxVars, sent, queue, ex, finish>>

\* prepareLegacyPartialResponse drains the channel and then asks whether it
\* is complete: the executor may push in between.
Drain(r) ==
    /\ pc[r] = "prepare" /\ Legacy /\ ask[r].stream
    /\ IF ~conn[r] THEN Over(r, "cancelled") /\ UNCHANGED <<chan, taken>>
       ELSE /\ taken' = [taken EXCEPT ![r] = chan[r].d]
            /\ chan' = [chan EXCEPT ![r].d = <<>>]
            /\ pc' = [pc EXCEPT ![r] = "drained"]
            /\ UNCHANGED status
    /\ UNCHANGED <<servable, ask, client, pipeVars, gone, last, held, ready, success,
                   sent, queue, ex, finish>>

LegacyPartial(r) ==
    /\ pc[r] = "drained"
    /\ IF chan[r].c
       THEN pc' = [pc EXCEPT ![r] = "finishing"] /\ UNCHANGED <<sent, taken>>
       ELSE /\ sent' = [sent EXCEPT ![r] = @ \o Midstream(r, taken[r])]
            /\ taken' = [taken EXCEPT ![r] = <<>>]
            /\ pc' = [pc EXCEPT ![r] = "read"]
    /\ UNCHANGED <<servable, ask, status, client, pipeVars, gone, last, held, chan, ready,
                   success, queue, ex, finish>>

LegacyFinishOnce(r) ==
    /\ pc[r] = "finishing" /\ ready[r]
    /\ IF ~success[r] THEN Over(r, "invalid") /\ UNCHANGED sent
       ELSE sent' = [sent EXCEPT ![r] = @ \o LastChunks(r, taken[r])] /\ Over(r, "ok")
    /\ taken' = [taken EXCEPT ![r] = <<>>]
    /\ UNCHANGED <<servable, ask, client, pipeVars, gone, last, held, chan, ready,
                   success, queue, ex, finish>>

\* finished.wait, then a second drain.
LegacyFinish(r) ==
    /\ pc[r] = "finishing" /\ ready[r]
    /\ IF ~success[r] THEN Over(r, "invalid") /\ UNCHANGED sent
       ELSE /\ sent' = [sent EXCEPT ![r] = @ \o LastChunks(r, taken[r] \o chan[r].d)]
            /\ Over(r, "ok")
    /\ taken' = [taken EXCEPT ![r] = <<>>]
    /\ chan' = [chan EXCEPT ![r].d = <<>>]
    /\ UNCHANGED <<servable, ask, client, pipeVars, gone, last, held, ready, success,
                   queue, ex, finish>>

-----------------------------------------------------------------------------
(* The client.                                                             *)

\* The connection closes; the callbacks run later on the event loop.
Disconnect(r) ==
    /\ conn[r] /\ ask[r].leaves /\ pc[r] \notin {"idle", "over"}
    /\ conn' = [conn EXCEPT ![r] = FALSE]
    /\ hook' = [hook EXCEPT ![r] = IF @ = "set" THEN "due" ELSE @]
    /\ UNCHANGED <<servable, ask, pc, status, pipeVars, ctxVars, sent, queue, ex, finish>>

\* CB stops the handle; the others signalDisconnection of a context that
\* still exists.
OnDisconnected(r) ==
    /\ hook[r] = "due"
    /\ hook' = [hook EXCEPT ![r] = "none"]
    /\ IF CB THEN Drop(r) /\ UNCHANGED <<gone, chan>>
       ELSE /\ gone' = [gone EXCEPT ![r] = TRUE]
            /\ chan' = [chan EXCEPT ![r].c = TRUE]
            /\ UNCHANGED gen
    /\ UNCHANGED <<servable, ask, pc, status, conn, out, last, held, taken, ready,
                   success, sent, queue, ex, finish>>

-----------------------------------------------------------------------------
(* The executor thread.                                                    *)

InPipe == {r \in Req : gen[r].in}
HasRequests == IF CB THEN InPipe # {} ELSE queue # <<>>

\* LM counts its queue under the mutex.  OMNI reads the size without
\* it, so an element being pushed may be missed until it has held it.
Run ==
    /\ ex \in {"top", "synced"}
    /\ \/ finish # "no" /\ ex' = "exit"
       \/ finish = "no" /\ HasRequests /\ ex' = IF CB THEN "step" ELSE "front"
       \/ /\ finish = "no"
          /\ ~HasRequests \/ (servable = "OMNI" /\ Len(queue) = 1 /\ ex = "top")
          /\ ex' = "wait"
    /\ UNCHANGED <<servable, ask, pc, status, client, pipeVars, ctxVars, sent, queue, finish>>

WaitForRequests ==
    /\ \/ ex \in {"wait", "woken"} /\ ex' = IF HasRequests \/ finish # "no" THEN "synced" ELSE "locked"
       \/ ex = "locked" /\ ex' = "asleep"
    /\ UNCHANGED <<servable, ask, pc, status, client, pipeVars, ctxVars, sent, queue, finish>>

\* One step of the CB pipeline: a token for every running request; a request
\* for which there is no cache left is ignored, one that was stopped leaves.
Step ==
    /\ ex = "step"
    /\ \E ignored \in SUBSET {r \in InPipe : gen[r].st = "RUNNING" /\ gen[r].made = 0} :
         LET runs(r) == gen[r].in /\ gen[r].st = "RUNNING" /\ r \notin ignored
             ends(r) == gen[r].made + 1 >= ask[r].len
         IN /\ gen' = [r \in Req |->
                  IF runs(r) THEN [st |-> IF ends(r) THEN "FINISHED" ELSE "RUNNING",
                                   made |-> gen[r].made + 1, in |-> ~ends(r)]
                  ELSE IF r \in ignored THEN [gen[r] EXCEPT !.st = "IGNORED", !.in = FALSE]
                  ELSE [gen[r] EXCEPT !.in = FALSE]]
            /\ out' = [r \in Req |->
                  IF pc[r] = "over" THEN <<>>
                  ELSE IF runs(r) THEN Append(out[r], [tok |-> gen[r].made + 1, fin |-> ends(r), some |-> TRUE])
                  ELSE IF gen[r].in THEN Append(out[r], NoOutput) ELSE out[r]]
    /\ ex' = "top"
    /\ UNCHANGED <<servable, ask, pc, status, client, ctxVars, sent, queue, finish>>

Front == Head(queue)
LegacyCtx == <<servable, ask, pc, status, client, out, last, taken, sent, queue, finish>>

\* processRequest: a client that is gone is not served.
ProcessRequest ==
    /\ ex = "front"
    /\ IF gone[Front]
       THEN success' = [success EXCEPT ![Front] = FALSE] /\ ex' = "signal" /\ UNCHANGED gen
       ELSE /\ gen' = [gen EXCEPT ![Front] = [st |-> "RUNNING", made |-> 0, in |-> FALSE]]
            /\ ex' = "generate" /\ UNCHANGED success
    /\ UNCHANGED <<LegacyCtx, gone, held, chan, ready>>

\* generate() makes a token and gives it to the streamer, which holds it
\* back or calls back; after the last one end() delivers the rest, and an
\* omni pipeline its audio.
Generate ==
    /\ ex = "generate"
    /\ LET r == Front
           n == gen[r].made + 1 IN
       \/ /\ n <= Total(r)
          /\ gen' = [gen EXCEPT ![r].made = n]
          /\ held' = [held EXCEPT ![r] = Append(@, n)]
          /\ ex' \in IF n <= ask[r].len THEN {"generate", "callback"} ELSE {"callback"}
          /\ UNCHANGED success
       \/ /\ gen[r].made = Total(r)
          /\ gen' = [gen EXCEPT ![r].st = "FINISHED"]
          /\ ex' = "callback"
          /\ UNCHANGED <<held, success>>
       \/ /\ ask[r].bad /\ gen[r].st = "RUNNING"
          /\ success' = [success EXCEPT ![r] = FALSE]
          /\ gen' = [gen EXCEPT ![r].st = "FAILED"]
          /\ ex' = "signal"
          /\ UNCHANGED held
    /\ UNCHANGED <<LegacyCtx, gone, chan, ready>>

\* The callback asks whether the client is gone and pushes if not.
Callback ==
    /\ ex = "callback"
    /\ IF gone[Front]
       THEN /\ chan' = [chan EXCEPT ![Front].c = TRUE]
            /\ gen' = [gen EXCEPT ![Front].st = "CANCELLED"]
            /\ ex' = "signal"
       ELSE ex' = "push" /\ UNCHANGED <<chan, gen>>
    /\ UNCHANGED <<LegacyCtx, gone, held, success, ready>>

Push ==
    /\ ex = "push"
    /\ LET r == Front
           ended == gen[r].st = "FINISHED"
           audio == servable = "OMNI" /\ ask[r].stream /\ ask[r].audio > 0 IN
       /\ chan' = [chan EXCEPT ![r] =
             [d |-> @.d \o held[r] \o (IF ended THEN <<FinishDelta>> ELSE <<>>),
              c |-> @.c \/ (ended /\ ~audio)]]
       /\ held' = [held EXCEPT ![r] = <<>>]
       /\ ex' = IF ended THEN "signal" ELSE "generate"
    /\ UNCHANGED <<LegacyCtx, gen, gone, success, ready>>

\* readySignal, the channel, and the queue under its mutex.
ReadySignal ==
    /\ ex = "signal"
    /\ ready' = [ready EXCEPT ![Front] = TRUE]
    /\ ex' = "complete"
    /\ UNCHANGED <<LegacyCtx, gen, gone, held, chan, success>>

SignalComplete ==
    /\ ex = "complete"
    /\ chan' = [chan EXCEPT ![Front].c = TRUE]
    /\ ex' = "pop"
    /\ UNCHANGED <<LegacyCtx, gen, gone, held, ready, success>>

Pop ==
    /\ ex = "pop"
    /\ queue' = Tail(queue)
    /\ ex' = "top"
    /\ UNCHANGED <<servable, ask, pc, status, client, pipeVars, ctxVars, sent, finish>>

\* The wrapper goes with the servable, which every calculator holds.
Stop ==
    /\ finish = "no" /\ \A r \in Req : pc[r] \in {"idle", "over"}
    /\ finish' = "set"
    /\ UNCHANGED <<servable, ask, pc, status, client, pipeVars, ctxVars, sent, queue, ex>>

StopNotify ==
    /\ finish = "set" /\ ex # "locked"
    /\ finish' = "notified"
    /\ ex' = IF ex = "asleep" THEN "woken" ELSE ex
    /\ UNCHANGED <<servable, ask, pc, status, client, pipeVars, ctxVars, sent, queue>>

-----------------------------------------------------------------------------
Calculator(r) ==
    \/ ProcessTokenizeRequest(r) \/ Load(r) \/ ScheduleCheck(r)
    \/ AddRequestToPipeline(r) \/ RegisterDisconnectionCallback(r)
    \/ ScheduleExecution(r) \/ NotifyExecutorThread(r)
    \/ ReadCompleteExecutionResults(r) \/ PrepareCompleteResponse(r)
    \/ ReadPartialExecutionResults(r) \/ Read(r) \/ PreparePartialResponse(r)
    \/ LegacyReadComplete(r) \/ FinishedWait(r) \/ LegacyPrepareComplete(r)
    \/ WaitForData(r) \/ Drain(r) \/ LegacyPartial(r) \/ LegacyFinish(r)

Executor ==
    \/ Run \/ WaitForRequests \/ Step
    \/ ProcessRequest \/ Generate \/ Callback \/ Push
    \/ ReadySignal \/ SignalComplete \/ Pop

Next ==
    \/ \E r \in Req : Submit(r) \/ Calculator(r) \/ Disconnect(r) \/ OnDisconnected(r)
    \/ Executor \/ Stop \/ StopNotify

Spec == Init /\ [][Next]_vars

\* Threads of the graph, the executor thread and the event loop run on; the
\* destructor ends what it began.  Clients and the owner may do nothing.
FairSpec ==
    /\ Spec
    /\ \A r \in Req : WF_vars(Calculator(r)) /\ WF_vars(OnDisconnected(r))
    /\ WF_vars(Executor) /\ WF_vars(StopNotify)

-----------------------------------------------------------------------------
\* Every variable has its type; a request is queued once, and the executor
\* that works on the front of its queue has one.
TypeOK ==
    /\ servable \in {"CB", "LM", "OMNI"}
    /\ \A r \in Req :
        /\ pc[r] \in {"idle", "load", "check", "add", "register", "notify",
                      "read", "reading", "waiting", "prepare", "drained", "finishing", "over"}
        /\ status[r] \in {"none", "ok", "invalid", "cancelled", "internal"}
        /\ hook[r] \in {"none", "set", "due"}
        /\ gen[r].st \in {"none", "RUNNING", "FINISHED", "STOP", "IGNORED", "FAILED", "CANCELLED"}
        /\ gen[r].made \in 0..Total(r)
        /\ \A i \in 1..Len(chan[r].d) : chan[r].d[i] \in 0..Total(r)
    /\ \A i, j \in 1..Len(queue) : queue[i] \in Req /\ (queue[i] = queue[j] => i = j)
    /\ ex \in {"front", "generate", "callback", "push", "signal", "complete", "pop"}
          => queue # <<>>
    /\ finish \in {"no", "set", "notified"}

\* The deltas s carry the tokens after a up to b, each once and in order; one
\* that is not positive carries none.  Deltas(s) are those of the chunks s.
Carries(s, a, b) ==
    /\ \A i \in 1..Len(s) : s[i] <= 0 \/ s[i] \in (a + 1)..b
    /\ \A k \in (a + 1)..b : \E i \in 1..Len(s) : s[i] = k
    /\ \A i, j \in 1..Len(s) : i < j /\ s[j] > 0 => s[i] < s[j]

Deltas(s) == [i \in 1..Len(s) |-> s[i].d]

\* A stream that ended well for a client still there has carried every token of the generation once
\* and in order, one chunk with a finish reason after them, and [DONE] as the
\* last of all (the drain of prepareLegacyPartialResponse against a push of
\* the executor, the empty outputs of a handle that was stopped).  At any
\* earlier time the chunks sent are the first tokens of the generation.
StreamFaithful ==
    \A r \in Req : ask[r].stream =>
        /\ \E n \in 0..gen[r].made : Carries(Deltas(sent[r]), 0, n)
        /\ status[r] = "ok" /\ ask[r].uri # "tokenize" /\ conn[r] =>
              LET n == Len(sent[r])
                  fins == {i \in 1..n : sent[r][i].fin} IN
              /\ sent[r][n] = Done
              /\ \/ sent[r][n - 1] = Failed /\ fins = {}
                 \/ /\ fins = {n - 1 - (IF ask[r].usage THEN 1 ELSE 0)}
                    /\ Carries(Deltas(sent[r]), 0, gen[r].made)
                    /\ Legacy => gen[r].st = "FINISHED" /\ success[r]

\* A unary answer is a whole generation: never the part that was made before
\* the client went away and the streamer cancelled, never a failed one.
UnaryWhole ==
    \A r \in Req : status[r] = "ok" /\ ~ask[r].stream /\ ask[r].uri # "tokenize" =>
        /\ gen[r].st \in {"FINISHED", "IGNORED"} /\ success[r]
        /\ Carries(Deltas(sent[r]), 0, gen[r].made)
        /\ gen[r].st = "FINISHED" => gen[r].made = Total(r)

\* The pipelines that serve one request at a time never miss that a client
\* is gone: once its callbacks have run, a request in the queue is marked, so
\* that it is skipped or cancelled at its next token and does not hold up the
\* others.
DisconnectionSeen ==
    Legacy => \A r \in Req :
        ~conn[r] /\ hook[r] # "due" /\ (\E i \in 1..Len(queue) : queue[i] = r) => gone[r]

\* Every request is answered or cancelled: the executor does not sleep over
\* it, a reader of its channel or of its handle is woken (waitForRequests and
\* notify, DeltaChannel::waitForData, readySignal, GenerationHandle::read).
EveryRequestEnds == \A r \in Req : (pc[r] = "load") ~> (pc[r] = "over")

\* Destroying the servable ends: the executor thread sees the end signal and
\* can be joined, whatever it was doing.
ShutdownCompletes == (finish = "set") ~> (ex = "exit")

\* What a client is sent is the generation, streamed or in one piece.
AnswersFaithful == TypeOK /\ StreamFaithful /\ UnaryWhole

\* Neither a request nor the destruction of the servable waits for ever.
GenerationEnds == EveryRequestEnds /\ ShutdownCompletes
=============================================================================

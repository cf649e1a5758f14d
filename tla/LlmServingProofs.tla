-------------------------- MODULE LlmServingProofs --------------------------
(***************************************************************************)
(* Proofs about LlmServing: a request that waits for the executor is marked *)
(* when its client has gone (DisconnectionSeen), and what a client is sent  *)
(* is the generation (AnswersFaithful), for any number of requests, any     *)
(* profiles and any limits.                                                 *)
(*                                                                         *)
(* The invariant has a part for each request that all servables share        *)
(* (CommonInv) and one for each way of serving.  Where requests are served   *)
(* one at a time (OneInv) the tokens of a generation are, in order, those    *)
(* sent, taken, in the channel and held back by the streamer.  With          *)
(* continuous batching (ManyInv) they are those sent, held back, and in the  *)
(* outputs of the handle that are still to be read.                          *)
(***************************************************************************)
EXTENDS LlmServing, TLAPS

-----------------------------------------------------------------------------
(* Types.                                                                  *)

Pcs == {"idle", "load", "check", "add", "register", "notify", "read", "reading",
        "waiting", "prepare", "drained", "finishing", "over"}
ChunkType == [d: Int, fin: BOOLEAN]
OutputType == [tok: Nat, fin: BOOLEAN, some: BOOLEAN]
GenType == [st: {"none", "RUNNING", "FINISHED", "STOP", "IGNORED", "FAILED", "CANCELLED"},
            made: Nat, in: BOOLEAN]
Statuses == {"none", "ok", "invalid", "cancelled", "internal"}
ChannelType == [d: Seq(Nat), c: BOOLEAN]
Works == {"front", "generate", "callback", "push", "signal", "complete", "pop"}
Rests == {"top", "synced", "step", "wait", "locked", "asleep", "woken", "exit"}

ClientType ==
    /\ ask \in [Req -> ProfileType] /\ pc \in [Req -> Pcs]
    /\ status \in [Req -> Statuses]
    /\ conn \in [Req -> BOOLEAN] /\ hook \in [Req -> {"none", "set", "due"}]
    /\ sent \in [Req -> Seq(ChunkType)]

PipeType ==
    /\ servable \in {"CB", "LM", "OMNI"}
    /\ gen \in [Req -> GenType] /\ out \in [Req -> Seq(OutputType)]
    /\ queue \in Seq(Req) /\ ex \in Works \cup Rests
    /\ finish \in {"no", "set", "notified"}

ContextType ==
    /\ gone \in [Req -> BOOLEAN] /\ last \in [Req -> OutputType]
    /\ held \in [Req -> Seq(Nat)] /\ taken \in [Req -> Seq(Nat)]
    /\ chan \in [Req -> ChannelType]
    /\ ready \in [Req -> BOOLEAN] /\ success \in [Req -> BOOLEAN]

Types == ClientType /\ PipeType /\ ContextType

\* The chunks that carry no token.
LEMMA ChunkConstants ==
    /\ <<>> \in Seq(ChunkType) /\ <<Primed>> \in Seq(ChunkType)
    /\ <<Usage, Done>> \in Seq(ChunkType) /\ <<Done>> \in Seq(ChunkType)
    /\ <<Created>> \in Seq(ChunkType) /\ <<Failed, Done>> \in Seq(ChunkType)
    /\ <<Chunk(FinishDelta, TRUE)>> \in Seq(ChunkType)
BY DEF Primed, Usage, Done, Created, Failed, Chunk, ChunkType, FinishDelta

\* The chunks made of a sequence of deltas.
LEMMA ChunksOf ==
    ASSUME NEW ds \in Seq(Nat)
    PROVE  /\ [i \in 1..Len(ds) |-> Chunk(ds[i], FALSE)] \in Seq(ChunkType)
           /\ [i \in 1..Len(ds) |-> Chunk(ds[i], i = Len(ds))] \in Seq(ChunkType)
BY DEF Chunk, ChunkType

\* What a stream is sent, midstream and at its end.
LEMMA ChunksTyped ==
    ASSUME NEW r \in Req, NEW ds \in Seq(Nat)
    PROVE  /\ Midstream(r, ds) \in Seq(ChunkType)
           /\ LastChunks(r, ds) \in Seq(ChunkType)
<1>1. PICK s \in Seq(ChunkType), t \in Seq(ChunkType) : Midstream(r, ds) = s \o t
    BY ChunksOf, ChunkConstants DEF Midstream
<1>2. PICK v \in Seq(ChunkType), w \in Seq(ChunkType) : LastChunks(r, ds) = v \o w
    BY ChunksOf, ChunkConstants DEF LastChunks
<1> QED BY <1>1, <1>2

\* What the variables hold for one request.
LEMMA TypesAt ==
    ASSUME Types, NEW r \in Req
    PROVE  /\ gen[r] \in GenType /\ gen[r].made \in Nat /\ out[r] \in Seq(OutputType)
           /\ sent[r] \in Seq(ChunkType) /\ held[r] \in Seq(Nat) /\ taken[r] \in Seq(Nat)
           /\ chan[r] \in ChannelType /\ chan[r].d \in Seq(Nat)
           /\ last[r] \in OutputType /\ last[r].tok \in Nat
<1>1. gen[r] \in GenType /\ out[r] \in Seq(OutputType)
    BY DEF Types, PipeType
<1>2. gen[r].made \in Nat
    BY <1>1 DEF GenType
<1>3. /\ held[r] \in Seq(Nat) /\ taken[r] \in Seq(Nat)
      /\ chan[r] \in ChannelType /\ last[r] \in OutputType
    BY DEF Types, ContextType
<1>4. chan[r].d \in Seq(Nat) /\ last[r].tok \in Nat
    BY <1>3 DEF ChannelType, OutputType
<1>5. sent[r] \in Seq(ChunkType)
    BY DEF Types, ClientType
<1> QED BY <1>1, <1>2, <1>3, <1>4, <1>5

\* Fields of a generation and of a channel are set within their types.
LEMMA FieldsTyped ==
    /\ \A g \in GenType :
        /\ \A s \in {"none", "RUNNING", "FINISHED", "STOP", "IGNORED", "FAILED", "CANCELLED"} :
              [g EXCEPT !.st = s] \in GenType /\ [g EXCEPT !.st = s, !.in = FALSE] \in GenType
        /\ \A n \in Nat : [g EXCEPT !.made = n] \in GenType
        /\ [g EXCEPT !.in = FALSE] \in GenType
    /\ \A c \in ChannelType :
        /\ [c EXCEPT !.c = TRUE] \in ChannelType
        /\ [c EXCEPT !.d = <<>>] \in ChannelType
<1>1. <<>> \in Seq(Nat)
    OBVIOUS
<1>2. \A g \in GenType :
        /\ \A s \in {"none", "RUNNING", "FINISHED", "STOP", "IGNORED", "FAILED", "CANCELLED"} :
              [g EXCEPT !.st = s] \in GenType /\ [g EXCEPT !.st = s, !.in = FALSE] \in GenType
        /\ \A n \in Nat : [g EXCEPT !.made = n] \in GenType
        /\ [g EXCEPT !.in = FALSE] \in GenType
    BY DEF GenType
<1>3. ASSUME NEW c \in ChannelType PROVE [c EXCEPT !.c = TRUE] \in ChannelType
    BY DEF ChannelType
<1>4. ASSUME NEW c \in ChannelType PROVE [c EXCEPT !.d = <<>>] \in ChannelType
    BY <1>1 DEF ChannelType
<1> QED BY <1>2, <1>3, <1>4

\* A generation that is dropped keeps its type,
LEMMA DropTyped ==
    ASSUME NEW r \in Req, gen \in [Req -> GenType], Drop(r)
    PROVE  gen' \in [Req -> GenType]
<1>1. [gen[r] EXCEPT !.st = IF @ = "RUNNING" THEN "STOP" ELSE @] \in GenType
    BY DEF GenType
<1>2. gen' = [gen EXCEPT ![r] = [gen[r] EXCEPT !.st = IF @ = "RUNNING" THEN "STOP" ELSE @]]
    BY DEF Drop
<1> QED BY <1>1, <1>2

\* a channel that is drained or closed,
LEMMA ChanTyped ==
    ASSUME NEW r \in Req, chan \in [Req -> ChannelType],
           \/ chan' = chan
           \/ chan' = [chan EXCEPT ![r].d = <<>>]
           \/ chan' = [chan EXCEPT ![r].c = TRUE]
    PROVE  chan' \in [Req -> ChannelType]
<1>1. CASE chan' = chan
    BY <1>1
<1>2. CASE chan' = [chan EXCEPT ![r].d = <<>>]
    <2>1. [chan[r] EXCEPT !.d = <<>>] \in ChannelType
        BY FieldsTyped
    <2> QED BY <1>2, <2>1
<1>3. CASE chan' = [chan EXCEPT ![r].c = TRUE]
    <2>1. [chan[r] EXCEPT !.c = TRUE] \in ChannelType
        BY FieldsTyped
    <2> QED BY <1>3, <2>1
<1> QED BY <1>1, <1>2, <1>3

\* and a generation that ends or makes a token.
LEMMA GenTyped ==
    ASSUME NEW r \in Req, gen \in [Req -> GenType], NEW n \in Nat,
           NEW s \in {"FINISHED", "FAILED", "CANCELLED"},
           \/ gen' = gen
           \/ gen' = [gen EXCEPT ![r].st = s]
           \/ gen' = [gen EXCEPT ![r].made = n]
    PROVE  gen' \in [Req -> GenType]
<1>1. CASE gen' = gen
    BY <1>1
<1>2. CASE gen' = [gen EXCEPT ![r].st = s]
    <2>1. [gen[r] EXCEPT !.st = s] \in GenType
        BY FieldsTyped
    <2> QED BY <1>2, <2>1
<1>3. CASE gen' = [gen EXCEPT ![r].made = n]
    <2>1. [gen[r] EXCEPT !.made = n] \in GenType
        BY FieldsTyped
    <2> QED BY <1>3, <2>1
<1> QED BY <1>1, <1>2, <1>3

\* The calculator keeps the types of what controls a request,
LEMMA ControlTyped ==
    ASSUME Types, NEW r \in Req, Submit(r) \/ Calculator(r)
    PROVE  /\ ask' \in [Req -> ProfileType] /\ pc' \in [Req -> Pcs]
           /\ status' \in [Req -> Statuses]
           /\ conn' \in [Req -> BOOLEAN] /\ hook' \in [Req -> {"none", "set", "due"}]
           /\ gone' \in [Req -> BOOLEAN]
           /\ UNCHANGED <<servable, ready, success, finish>>
           /\ queue' \in Seq(Req) /\ ex' \in Works \cup Rests
<1>t. /\ ask \in [Req -> ProfileType] /\ pc \in [Req -> Pcs]
      /\ status \in [Req -> Statuses]
      /\ conn \in [Req -> BOOLEAN] /\ hook \in [Req -> {"none", "set", "due"}]
      /\ gone \in [Req -> BOOLEAN]
      /\ queue \in Seq(Req) /\ ex \in Works \cup Rests
    BY DEF Types, ClientType, PipeType, ContextType
<1>1. CASE Submit(r)
    BY <1>t, <1>1, ProfilesAssumption DEF Submit, client, pipeVars, ctxVars, Pcs
<1>2. CASE ProcessTokenizeRequest(r)
    BY <1>t, <1>2 DEF ProcessTokenizeRequest, Over, client, pipeVars, ctxVars, Pcs, Statuses
<1>3. CASE Load(r)
    <2> DEFINE bad == {i \in 1..4 : Verdicts(r)[i] # "ok"}
               first == CHOOSE i \in bad : \A j \in bad : i <= j
    <2>1. \A i \in 1..4 : Verdicts(r)[i] \in {"ok", "invalid", "cancelled"}
        BY DEF Verdicts, LoadRequest, ParseRequest, PrepareInputs
    <2>2. ASSUME bad # {} PROVE first \in 1..4
        <3>1. \E i \in bad : \A j \in bad : i <= j
            <4>1. CASE 1 \in bad BY <4>1
            <4>2. CASE 1 \notin bad /\ 2 \in bad BY <4>2
            <4>3. CASE 1 \notin bad /\ 2 \notin bad /\ 3 \in bad BY <4>3
            <4>4. CASE 1 \notin bad /\ 2 \notin bad /\ 3 \notin bad /\ 4 \in bad BY <4>4
            <4> QED BY <2>2, <4>1, <4>2, <4>3, <4>4
        <3> QED BY <3>1
    <2>3. /\ pc' \in [Req -> Pcs] /\ status' \in [Req -> Statuses]
        <3> HIDE DEF first
        <3>1. CASE bad = {}
            BY <1>t, <1>3, <3>1 DEF Load, Pcs
        <3>2. CASE bad # {}
            <4>1. /\ pc' = [pc EXCEPT ![r] = "over"]
                  /\ status' = [status EXCEPT ![r] = Verdicts(r)[first]]
                BY <1>3, <3>2 DEF Load, Over, first
            <4> QED BY <1>t, <4>1, <2>1, <2>2, <3>2 DEF Pcs, Statuses
        <3> QED BY <3>1, <3>2
    <2> QED BY <1>t, <1>3, <2>3 DEF Load, client, pipeVars, ctxVars
<1>4. CASE ScheduleCheck(r)
    BY <1>t, <1>4 DEF ScheduleCheck, Over, client, pipeVars, ctxVars, Pcs, Statuses
<1>5. CASE AddRequestToPipeline(r)
    BY <1>t, <1>5 DEF AddRequestToPipeline, client, ctxVars, Pcs
<1>6. CASE RegisterDisconnectionCallback(r)
    BY <1>t, <1>6 DEF RegisterDisconnectionCallback, pipeVars, ctxVars, Pcs
<1>7. CASE ScheduleExecution(r)
    <2>1. queue' \in Seq(Req) /\ ex' \in Works \cup Rests
        <3>1. queue' \in {queue, Append(queue, r)} /\ ex' \in {ex, "woken"}
            BY <1>7 DEF ScheduleExecution
        <3> QED BY <1>t, <3>1 DEF Rests
    <2>2. /\ pc' \in [Req -> Pcs] /\ status' \in [Req -> Statuses]
          /\ gone' \in [Req -> BOOLEAN]
        BY <1>t, <1>7 DEF ScheduleExecution, Scheduled, Over, Pcs, Statuses
    <2> QED BY <1>t, <1>7, <2>1, <2>2 DEF ScheduleExecution, client
<1>8. CASE NotifyExecutorThread(r)
    BY <1>t, <1>8 DEF NotifyExecutorThread, NotifyUnlocked, Scheduled, client, pipeVars,
                      ctxVars, Pcs, Rests
<1>9. CASE ReadCompleteExecutionResults(r)
    BY <1>t, <1>9 DEF ReadCompleteExecutionResults, Over, client, Pcs, Statuses
<1>10. CASE PrepareCompleteResponse(r)
    BY <1>t, <1>10 DEF PrepareCompleteResponse, HandleGenerationError, Over, client, Pcs, Statuses
<1>11. CASE ReadPartialExecutionResults(r)
    BY <1>t, <1>11 DEF ReadPartialExecutionResults, Over, client, ctxVars, Pcs, Statuses
<1>12. CASE Read(r)
    BY <1>t, <1>12 DEF Read, client, Pcs
<1>13. CASE PreparePartialResponse(r)
    <2>1. UNCHANGED <<servable, ask, client, gone, ready, success, queue, ex, finish>>
        BY <1>13 DEF PreparePartialResponse
    <2>2. \/ pc' = [pc EXCEPT ![r] = "over"] /\ \E s \in Statuses : status' = [status EXCEPT ![r] = s]
          \/ pc' = [pc EXCEPT ![r] = "read"] /\ UNCHANGED status
        BY <1>13 DEF PreparePartialResponse, HandleGenerationError, Over, Statuses
    <2>3. pc' \in [Req -> Pcs] /\ status' \in [Req -> Statuses]
        BY <1>t, <2>2 DEF Pcs
    <2> QED BY <1>t, <2>1, <2>3 DEF client
<1>14. CASE LegacyReadComplete(r)
    BY <1>t, <1>14 DEF LegacyReadComplete, Over, client, pipeVars, ctxVars, Pcs, Statuses
<1>15. CASE FinishedWait(r)
    BY <1>t, <1>15 DEF FinishedWait, Over, client, pipeVars, ctxVars, Pcs, Statuses
<1>16. CASE LegacyPrepareComplete(r)
    BY <1>t, <1>16 DEF LegacyPrepareComplete, Over, client, Pcs, Statuses
<1>17. CASE WaitForData(r)
    BY <1>t, <1>17 DEF WaitForData, client, pipeVars, ctxVars, Pcs
<1>18. CASE Drain(r)
    BY <1>t, <1>18 DEF Drain, Over, client, Pcs, Statuses
<1>19. CASE LegacyPartial(r)
    BY <1>t, <1>19 DEF LegacyPartial, client, Pcs
<1>20. CASE LegacyFinish(r)
    BY <1>t, <1>20 DEF LegacyFinish, Over, client, Pcs, Statuses
<1> QED BY <1>1, <1>2, <1>3, <1>4, <1>5, <1>6, <1>7, <1>8, <1>9, <1>10, <1>11, <1>12,
           <1>13, <1>14, <1>15, <1>16, <1>17, <1>18, <1>19, <1>20 DEF Calculator

\* of what it has sent,
LEMMA SentTyped ==
    ASSUME Types, NEW r \in Req, Submit(r) \/ Calculator(r)
    PROVE  sent' \in [Req -> Seq(ChunkType)]
<1>t. sent \in [Req -> Seq(ChunkType)]
    BY DEF Types, ClientType
<1>1. CASE UNCHANGED sent
    BY <1>t, <1>1
<1>2. CASE ScheduleExecution(r) \/ NotifyExecutorThread(r)
    BY <1>t, <1>2, ChunkConstants DEF ScheduleExecution, NotifyExecutorThread,
       NotifyUnlocked, Scheduled
<1>3. CASE PrepareCompleteResponse(r)
    BY <1>t, <1>3, TypesAt, ChunksOf, ChunkConstants DEF PrepareCompleteResponse,
       HandleGenerationError
<1>4. CASE PreparePartialResponse(r)
    <2> DEFINE new == IF last[r].tok > 0 THEN Append(held[r], last[r].tok) ELSE held[r]
    <2>1. new \in Seq(Nat) /\ <<>> \in Seq(Nat)
        BY TypesAt
    <2>2. sent[r] \o <<Failed, Done>> \in Seq(ChunkType)
        BY <1>t, ChunkConstants
    <2>3. ASSUME NEW ds \in Seq(Nat)
          PROVE  /\ sent[r] \o Midstream(r, ds) \in Seq(ChunkType)
                 /\ sent[r] \o LastChunks(r, ds) \in Seq(ChunkType)
        BY <1>t, ChunksTyped
    <2>5. \/ UNCHANGED sent
          \/ sent' = [sent EXCEPT ![r] = @ \o LastChunks(r, new)]
          \/ sent' = [sent EXCEPT ![r] = @ \o Midstream(r, new)]
          \/ sent' = [sent EXCEPT ![r] = @ \o Midstream(r, <<>>)]
          \/ sent' = [sent EXCEPT ![r] = @ \o <<Failed, Done>>]
        BY <1>4 DEF PreparePartialResponse, HandleGenerationError
    <2> HIDE DEF new
    <2> QED BY <1>t, <2>1, <2>2, <2>3, <2>5
<1>5. CASE LegacyPrepareComplete(r)
    BY <1>t, <1>5, TypesAt, ChunksOf DEF LegacyPrepareComplete
<1>6. CASE LegacyPartial(r)
    <2>1. sent[r] \o Midstream(r, taken[r]) \in Seq(ChunkType)
        BY <1>t, TypesAt, ChunksTyped
    <2> QED BY <1>t, <1>6, <2>1 DEF LegacyPartial
<1>7. CASE LegacyFinish(r)
    <2>1. taken[r] \o chan[r].d \in Seq(Nat)
        BY TypesAt
    <2>2. sent[r] \o LastChunks(r, taken[r] \o chan[r].d) \in Seq(ChunkType)
        <3>1. LastChunks(r, taken[r] \o chan[r].d) \in Seq(ChunkType)
            BY <2>1, ChunksTyped
        <3>2. sent[r] \in Seq(ChunkType)
            BY TypesAt
        <3> QED BY <3>1, <3>2
    <2> QED BY <1>t, <1>7, <2>2 DEF LegacyFinish
<1>8. ASSUME ~ UNCHANGED sent
      PROVE  \/ ScheduleExecution(r) \/ NotifyExecutorThread(r) \/ PrepareCompleteResponse(r)
             \/ PreparePartialResponse(r) \/ LegacyPrepareComplete(r) \/ LegacyPartial(r)
             \/ LegacyFinish(r)
    BY <1>8 DEF Calculator, Submit, ProcessTokenizeRequest, Load, ScheduleCheck,
       AddRequestToPipeline, RegisterDisconnectionCallback, ReadCompleteExecutionResults,
       ReadPartialExecutionResults, Read, LegacyReadComplete, FinishedWait, WaitForData,
       Drain
<1> QED BY <1>1, <1>2, <1>3, <1>4, <1>5, <1>6, <1>7, <1>8

\* of its generation and handle,
LEMMA PipeTyped ==
    ASSUME Types, NEW r \in Req, Submit(r) \/ Calculator(r)
    PROVE  /\ gen' \in [Req -> GenType] /\ out' \in [Req -> Seq(OutputType)]
           /\ last' \in [Req -> OutputType]
<1>t. /\ gen \in [Req -> GenType] /\ out \in [Req -> Seq(OutputType)]
      /\ last \in [Req -> OutputType]
    BY DEF Types, PipeType, ContextType
<1>1. CASE UNCHANGED <<gen, out, last>>
    BY <1>t, <1>1
<1>2. CASE AddRequestToPipeline(r)
    <2>1. [st |-> "RUNNING", made |-> 0, in |-> TRUE] \in GenType
        BY DEF GenType
    <2> QED BY <1>t, <1>2, <2>1 DEF AddRequestToPipeline, ctxVars
<1>3. CASE UNCHANGED last /\ (Drop(r) \/ UNCHANGED gen) /\ (out' = [out EXCEPT ![r] = <<>>] \/ UNCHANGED out)
    <2>1. <<>> \in Seq(OutputType)
        OBVIOUS
    <2> QED BY <1>t, <1>3, <2>1, DropTyped
<1>4. CASE Read(r)
    <2>1. Head(out[r]) \in OutputType /\ Tail(out[r]) \in Seq(OutputType)
        BY <1>4, TypesAt DEF Read
    <2>2. EmptyStop \in OutputType
        BY DEF EmptyStop, OutputType
    <2> QED BY <1>t, <1>4, <2>1, <2>2 DEF Read
<1>5. ReadCompleteExecutionResults(r) \/ ReadPartialExecutionResults(r) \/ PreparePartialResponse(r) =>
          /\ UNCHANGED last /\ (Drop(r) \/ UNCHANGED gen)
          /\ out' = [out EXCEPT ![r] = <<>>] \/ UNCHANGED out
    BY DEF ReadCompleteExecutionResults, ReadPartialExecutionResults, PreparePartialResponse, ctxVars
<1>6. ASSUME ~ UNCHANGED <<gen, out, last>>
      PROVE  \/ AddRequestToPipeline(r) \/ ReadCompleteExecutionResults(r)
             \/ ReadPartialExecutionResults(r) \/ Read(r) \/ PreparePartialResponse(r)
    BY <1>6 DEF Calculator, Submit, ProcessTokenizeRequest, Load, ScheduleCheck,
       RegisterDisconnectionCallback, ScheduleExecution, NotifyExecutorThread, NotifyUnlocked,
       PrepareCompleteResponse, LegacyReadComplete, FinishedWait, LegacyPrepareComplete,
       WaitForData, Drain, LegacyPartial, LegacyFinish, pipeVars, ctxVars
<1> QED BY <1>1, <1>2, <1>3, <1>4, <1>5, <1>6

\* and of its execution context.
LEMMA ContextTyped ==
    ASSUME Types, NEW r \in Req, Submit(r) \/ Calculator(r)
    PROVE  /\ held' \in [Req -> Seq(Nat)] /\ taken' \in [Req -> Seq(Nat)]
           /\ chan' \in [Req -> ChannelType]
<1>t. /\ held \in [Req -> Seq(Nat)] /\ taken \in [Req -> Seq(Nat)]
      /\ chan \in [Req -> ChannelType]
    BY DEF Types, ContextType
<1>0. <<>> \in Seq(Nat)
    OBVIOUS
<1>1. CASE UNCHANGED <<held, taken, chan>>
    BY <1>t, <1>1
<1>2. CASE ScheduleExecution(r)
    BY <1>t, <1>2, ChanTyped DEF ScheduleExecution
<1>3. CASE ReadCompleteExecutionResults(r)
    <2>1. \A i \in 1..Len(out[r]) : out[r][i].tok \in Nat
        <3>1. out[r] \in Seq(OutputType)
            BY TypesAt
        <3>2. \A i \in 1..Len(out[r]) : out[r][i] \in OutputType
            BY <3>1
        <3> QED BY <3>2 DEF OutputType
    <2>2. [i \in 1..Len(out[r]) |-> out[r][i].tok] \in Seq(Nat)
        BY <2>1, TypesAt
    <2> QED BY <1>t, <1>3, <2>2 DEF ReadCompleteExecutionResults
<1>4. CASE PrepareCompleteResponse(r) \/ LegacyPartial(r)
    BY <1>t, <1>0, <1>4 DEF PrepareCompleteResponse, LegacyPartial
<1>5. CASE PreparePartialResponse(r)
    <2> DEFINE new == IF last[r].tok > 0 THEN Append(held[r], last[r].tok) ELSE held[r]
    <2>1. new \in Seq(Nat)
        BY TypesAt
    <2>2. /\ UNCHANGED <<taken, chan>>
          /\ \/ UNCHANGED held
             \/ held' = [held EXCEPT ![r] = <<>>]
             \/ held' = [held EXCEPT ![r] = new]
        BY <1>5 DEF PreparePartialResponse
    <2> HIDE DEF new
    <2> QED BY <1>t, <1>0, <2>1, <2>2
<1>6. CASE LegacyPrepareComplete(r)
    BY <1>t, <1>6, ChanTyped DEF LegacyPrepareComplete
<1>7. CASE Drain(r)
    <2>1. chan' \in [Req -> ChannelType]
        BY <1>t, <1>7, ChanTyped DEF Drain
    <2>2. taken' \in [Req -> Seq(Nat)] /\ UNCHANGED held
        BY <1>t, <1>7, TypesAt DEF Drain
    <2> QED BY <1>t, <2>1, <2>2
<1>8. CASE LegacyFinish(r)
    BY <1>t, <1>0, <1>8, ChanTyped DEF LegacyFinish
<1>9. ASSUME ~ UNCHANGED <<held, taken, chan>>
      PROVE  \/ ScheduleExecution(r) \/ ReadCompleteExecutionResults(r)
             \/ PrepareCompleteResponse(r) \/ LegacyPartial(r) \/ PreparePartialResponse(r)
             \/ LegacyPrepareComplete(r) \/ Drain(r) \/ LegacyFinish(r)
    BY <1>9 DEF Calculator, Submit, ProcessTokenizeRequest, Load, ScheduleCheck,
       AddRequestToPipeline, RegisterDisconnectionCallback, NotifyExecutorThread, NotifyUnlocked,
       ReadPartialExecutionResults, Read, LegacyReadComplete, FinishedWait, WaitForData,
       ctxVars
<1> QED BY <1>1, <1>2, <1>3, <1>4, <1>5, <1>6, <1>7, <1>8, <1>9

\* The client, the executor and the destructor.
LEMMA OthersTyped ==
    ASSUME Types, \/ \E r \in Req : Disconnect(r) \/ OnDisconnected(r)
                  \/ Executor \/ Stop \/ StopNotify,
           ex \in Works => queue # <<>>
    PROVE  Types'
<1>a. /\ conn \in [Req -> BOOLEAN] /\ hook \in [Req -> {"none", "set", "due"}]
      /\ gone \in [Req -> BOOLEAN] /\ gen \in [Req -> GenType]
      /\ out \in [Req -> Seq(OutputType)] /\ chan \in [Req -> ChannelType]
      /\ held \in [Req -> Seq(Nat)] /\ queue \in Seq(Req) /\ ex \in Works \cup Rests
      /\ finish \in {"no", "set", "notified"}
      /\ ready \in [Req -> BOOLEAN] /\ success \in [Req -> BOOLEAN]
    BY DEF Types, ClientType, PipeType, ContextType
<1>b. ASSUME UNCHANGED <<servable, ask, pc, status, sent, last, taken>>,
             conn' \in [Req -> BOOLEAN], hook' \in [Req -> {"none", "set", "due"}],
             gone' \in [Req -> BOOLEAN], gen' \in [Req -> GenType],
             out' \in [Req -> Seq(OutputType)], chan' \in [Req -> ChannelType],
             held' \in [Req -> Seq(Nat)], queue' \in Seq(Req), ex' \in Works \cup Rests,
             finish' \in {"no", "set", "notified"},
             ready' \in [Req -> BOOLEAN], success' \in [Req -> BOOLEAN]
      PROVE  Types'
    BY <1>b DEF Types, ClientType, PipeType, ContextType
<1>c. <<>> \in Seq(Nat)
    OBVIOUS
<1>d. ASSUME ex \in Works PROVE Front \in Req
    BY <1>a, <1>d DEF Front
<1>1. CASE \E r \in Req : Disconnect(r) \/ OnDisconnected(r)
    <2>1. PICK r \in Req : Disconnect(r) \/ OnDisconnected(r)
        BY <1>1
    <2>2. CASE Disconnect(r)
        BY <1>a, <1>b, <2>2 DEF Disconnect, pipeVars, ctxVars
    <2>3. CASE OnDisconnected(r)
        <3>1. gen' \in [Req -> GenType]
            BY <1>a, <2>3, DropTyped DEF OnDisconnected
        <3>2. gone' \in [Req -> BOOLEAN] /\ chan' \in [Req -> ChannelType]
            BY <1>a, <2>3, ChanTyped DEF OnDisconnected
        <3> QED BY <1>a, <1>b, <2>3, <3>1, <3>2 DEF OnDisconnected
    <2> QED BY <2>1, <2>2, <2>3
<1>2. CASE Run \/ WaitForRequests
    BY <1>a, <1>b, <1>2 DEF Run, WaitForRequests, client, pipeVars, ctxVars, Works, Rests
<1>3. CASE Step
    <2> DEFINE ends(r) == gen[r].made + 1 >= ask[r].len
               made(r) == gen[r].made + 1
    <2>1. PICK ignored \in SUBSET {r \in InPipe : gen[r].st = "RUNNING" /\ gen[r].made = 0} :
             /\ gen' = [r \in Req |->
                   IF gen[r].in /\ gen[r].st = "RUNNING" /\ r \notin ignored
                   THEN [st |-> IF ends(r) THEN "FINISHED" ELSE "RUNNING",
                         made |-> made(r), in |-> ~ends(r)]
                   ELSE IF r \in ignored THEN [gen[r] EXCEPT !.st = "IGNORED", !.in = FALSE]
                   ELSE [gen[r] EXCEPT !.in = FALSE]]
             /\ out' = [r \in Req |->
                   IF pc[r] = "over" THEN <<>>
                   ELSE IF gen[r].in /\ gen[r].st = "RUNNING" /\ r \notin ignored
                   THEN Append(out[r], [tok |-> made(r), fin |-> ends(r), some |-> TRUE])
                   ELSE IF gen[r].in THEN Append(out[r], NoOutput) ELSE out[r]]
        BY <1>3 DEF Step
    <2>2. \A r \in Req : ends(r) \in BOOLEAN /\ made(r) \in Nat
        BY TypesAt
    <2> HIDE DEF ends, made
    <2>3. gen' \in [Req -> GenType]
        <3>1. ASSUME NEW r \in Req PROVE gen'[r] \in GenType
            <4>1. [st |-> IF ends(r) THEN "FINISHED" ELSE "RUNNING",
                         made |-> made(r), in |-> ~ends(r)] \in GenType
                BY <2>2 DEF GenType
            <4>2. [gen[r] EXCEPT !.st = "IGNORED", !.in = FALSE] \in GenType
                BY TypesAt, FieldsTyped
            <4>3. [gen[r] EXCEPT !.in = FALSE] \in GenType
                BY TypesAt, FieldsTyped
            <4> QED BY <2>1, <4>1, <4>2, <4>3
        <3> QED BY <2>1, <3>1
    <2>4. out' \in [Req -> Seq(OutputType)]
        <3>1. ASSUME NEW r \in Req PROVE out'[r] \in Seq(OutputType)
            <4>1. [tok |-> made(r), fin |-> ends(r), some |-> TRUE] \in OutputType
                BY <2>2 DEF OutputType
            <4>2. NoOutput \in OutputType
                BY DEF NoOutput, OutputType
            <4>3. out[r] \in Seq(OutputType) /\ <<>> \in Seq(OutputType)
                BY TypesAt
            <4>4. out'[r] \in {<<>>, out[r], Append(out[r], NoOutput),
                               Append(out[r], [tok |-> made(r), fin |-> ends(r), some |-> TRUE])}
                BY <2>1
            <4>5. /\ Append(out[r], NoOutput) \in Seq(OutputType)
                  /\ Append(out[r], [tok |-> made(r), fin |-> ends(r), some |-> TRUE])
                        \in Seq(OutputType)
                BY <4>1, <4>2, <4>3
            <4> QED BY <4>3, <4>4, <4>5
        <3> QED BY <2>1, <3>1
    <2> QED BY <1>a, <1>b, <1>3, <2>3, <2>4 DEF Step, client, ctxVars, Rests
<1>4. CASE ProcessRequest
    <2>1. Front \in Req /\ ex' \in Works
        BY <1>d, <1>4 DEF ProcessRequest, Works
    <2>2. [st |-> "RUNNING", made |-> 0, in |-> FALSE] \in GenType
        BY DEF GenType
    <2>3. gen' \in [Req -> GenType] /\ success' \in [Req -> BOOLEAN]
        BY <1>a, <1>4, <2>1, <2>2 DEF ProcessRequest
    <2> QED BY <1>a, <1>b, <1>4, <2>1, <2>3 DEF ProcessRequest, LegacyCtx, client
<1>5. CASE Generate
    <2>1. Front \in Req /\ ex' \in Works
        BY <1>d, <1>5 DEF Generate, Works
    <2>2. gen[Front].made + 1 \in Nat /\ Append(held[Front], gen[Front].made + 1) \in Seq(Nat)
        BY <2>1, TypesAt
    <2>3. \/ gen' = [gen EXCEPT ![Front].made = gen[Front].made + 1]
          \/ gen' = [gen EXCEPT ![Front].st = "FINISHED"]
          \/ gen' = [gen EXCEPT ![Front].st = "FAILED"]
        BY <1>5 DEF Generate
    <2>4. gen' \in [Req -> GenType]
        BY <1>a, <2>1, <2>2, <2>3, GenTyped
    <2>5. held' \in [Req -> Seq(Nat)] /\ success' \in [Req -> BOOLEAN]
        BY <1>a, <1>5, <2>1, <2>2 DEF Generate
    <2> QED BY <1>a, <1>b, <1>5, <2>1, <2>4, <2>5 DEF Generate, LegacyCtx, client
<1>6. CASE Callback
    <2>1. Front \in Req /\ ex' \in Works
        BY <1>d, <1>6 DEF Callback, Works
    <2>2. gen' \in [Req -> GenType] /\ chan' \in [Req -> ChannelType]
        BY <1>a, <1>6, <2>1, GenTyped, ChanTyped DEF Callback
    <2> QED BY <1>a, <1>b, <1>6, <2>1, <2>2 DEF Callback, LegacyCtx, client
<1>7. CASE Push
    <2>1. Front \in Req /\ ex' \in Works
        BY <1>d, <1>7 DEF Push, Works
    <2>2. <<FinishDelta>> \in Seq(Nat)
        BY DEF FinishDelta
    <2>3. PICK c \in BOOLEAN, ds \in {<<FinishDelta>>, <<>>} :
             chan' = [chan EXCEPT ![Front] = [d |-> @.d \o held[Front] \o ds, c |-> c]]
        BY <1>7, <2>1, TypesAt DEF Push, ChannelType
    <2>4. [d |-> chan[Front].d \o held[Front] \o ds, c |-> c] \in ChannelType
        <3>1. chan[Front].d \o held[Front] \o ds \in Seq(Nat)
            <4>1. /\ chan[Front].d \in Seq(Nat) /\ held[Front] \in Seq(Nat)
                  /\ ds \in Seq(Nat)
                BY <1>c, <2>1, <2>2, TypesAt
            <4> QED BY <4>1
        <3> QED BY <3>1 DEF ChannelType
    <2>5. chan' \in [Req -> ChannelType]
        BY <1>a, <2>3, <2>4
    <2>6. held' \in [Req -> Seq(Nat)]
        BY <1>a, <1>c, <1>7 DEF Push
    <2> QED BY <1>a, <1>b, <1>7, <2>1, <2>5, <2>6 DEF Push, LegacyCtx, client
<1>8. CASE ReadySignal
    BY <1>a, <1>b, <1>8 DEF ReadySignal, LegacyCtx, client, Works
<1>9. CASE SignalComplete
    <2>1. chan' \in [Req -> ChannelType]
        BY <1>a, <1>9, <1>d, ChanTyped DEF SignalComplete, Works
    <2> QED BY <1>a, <1>b, <1>9, <2>1 DEF SignalComplete, LegacyCtx, client, Works
<1>10. CASE Pop
    <2>1. Tail(queue) \in Seq(Req)
        BY <1>a, <1>10 DEF Pop, Works
    <2> QED BY <1>a, <1>b, <1>10, <2>1 DEF Pop, client, pipeVars, ctxVars, Rests
<1>11. CASE Stop \/ StopNotify
    BY <1>a, <1>b, <1>11 DEF Stop, StopNotify, client, pipeVars, ctxVars, Rests
<1> QED BY <1>1, <1>2, <1>3, <1>4, <1>5, <1>6, <1>7, <1>8, <1>9, <1>10, <1>11 DEF Executor

-----------------------------------------------------------------------------
(* What a sequence of deltas carries.                                          *)

\* Nothing is carried by what holds no token.
LEMMA CarriesNothing ==
    ASSUME NEW s \in Seq(Int), NEW a \in Nat, \A i \in 1..Len(s) : s[i] <= 0
    PROVE  Carries(s, a, a)
BY DEF Carries

\* u is s followed by t.
Joined(u, s, t) ==
    /\ s \in Seq(Int) /\ t \in Seq(Int) /\ u \in Seq(Int)
    /\ Len(u) = Len(s) + Len(t)
    /\ \A i \in 1..Len(s) : u[i] = s[i]
    /\ \A i \in 1..Len(t) : u[Len(s) + i] = t[i]

\* What one sequence carries and then another is carried by both.
LEMMA CarriesJoin ==
    ASSUME NEW s, NEW t, NEW u, Joined(u, s, t), NEW a \in Nat, NEW b \in Nat, NEW c \in Nat,
           a <= b, b <= c, Carries(s, a, b), Carries(t, b, c)
    PROVE  Carries(u, a, c)
<1> DEFINE m == Len(s)
           n == Len(t)
<1>1. m \in Nat /\ n \in Nat /\ Len(u) = m + n
    BY DEF Joined
<1>2. \A i \in 1..m : u[i] = s[i] /\ s[i] \in Int /\ (s[i] <= 0 \/ s[i] \in (a + 1)..b)
    BY DEF Carries, Joined
<1>3. \A i \in 1..n : u[m + i] = t[i] /\ t[i] \in Int /\ (t[i] <= 0 \/ t[i] \in (b + 1)..c)
    BY DEF Carries, Joined
<1>4. \A i, j \in 1..m : i < j /\ s[j] > 0 => s[i] < s[j]
    BY DEF Carries
<1>5. \A i, j \in 1..n : i < j /\ t[j] > 0 => t[i] < t[j]
    BY DEF Carries
<1>6. \A k \in (a + 1)..b : \E i \in 1..m : s[i] = k
    BY DEF Carries
<1>7. \A k \in (b + 1)..c : \E i \in 1..n : t[i] = k
    BY DEF Carries
<1> HIDE DEF m, n
<1>8. ASSUME NEW i \in 1..(m + n), i > m
      PROVE  i - m \in 1..n /\ u[i] = t[i - m]
    <2>1. i - m \in 1..n /\ m + (i - m) = i
        BY <1>1, <1>8
    <2> QED BY <1>3, <2>1
<1>9. \A i \in 1..(m + n) : u[i] <= 0 \/ u[i] \in (a + 1)..c
    BY <1>1, <1>2, <1>3, <1>8
<1>10. ASSUME NEW k \in (a + 1)..c PROVE \E i \in 1..(m + n) : u[i] = k
    <2>1. CASE k <= b
        BY <1>1, <1>2, <1>6, <2>1
    <2>2. CASE k > b
        <3>1. PICK i \in 1..n : t[i] = k
            BY <1>7, <2>2
        <3>2. m + i \in 1..(m + n) /\ u[m + i] = k
            BY <1>1, <1>3, <3>1
        <3> QED BY <3>2
    <2> QED BY <2>1, <2>2
<1>11. ASSUME NEW i \in 1..(m + n), NEW j \in 1..(m + n), i < j, u[j] > 0
       PROVE  u[i] < u[j]
    <2>1. CASE j <= m
        BY <1>1, <1>2, <1>4, <1>11, <2>1
    <2>2. CASE i <= m /\ j > m
        <3>1. i \in 1..m /\ u[i] \in Int /\ u[i] <= b
            BY <1>1, <1>2, <2>2
        <3>2. u[j] \in Int /\ u[j] > b
            <4>1. j - m \in 1..n /\ u[j] = t[j - m]
                BY <1>8, <2>2
            <4> QED BY <1>3, <1>11, <4>1
        <3> QED BY <3>1, <3>2
    <2>3. CASE i > m
        <3>1. /\ i - m \in 1..n /\ u[i] = t[i - m]
              /\ j - m \in 1..n /\ u[j] = t[j - m] /\ i - m < j - m
            BY <1>1, <1>8, <1>11, <2>3
        <3> QED BY <1>5, <1>11, <3>1
    <2> QED BY <1>1, <2>1, <2>2, <2>3
<1> QED BY <1>1, <1>9, <1>10, <1>11 DEF Carries

\* The next token is appended.
LEMMA CarriesNext ==
    ASSUME NEW s \in Seq(Nat), NEW a \in Nat, NEW b \in Nat, a <= b, Carries(s, a, b)
    PROVE  Carries(Append(s, b + 1), a, b + 1)
<1>1. Carries(<<b + 1>>, b, b + 1)
    BY DEF Carries
<1>2. Joined(Append(s, b + 1), s, <<b + 1>>)
    BY DEF Joined
<1>3. b + 1 \in Nat /\ b <= b + 1
    OBVIOUS
<1> QED BY <1>1, <1>2, <1>3, CarriesJoin

\* Two sequences are put together.
LEMMA CarriesConcat ==
    ASSUME NEW s \in Seq(Nat), NEW t \in Seq(Nat), NEW a \in Nat, NEW b \in Nat, NEW c \in Nat,
           a <= b, b <= c, Carries(s, a, b), Carries(t, b, c)
    PROVE  Carries(s \o t, a, c)
<1>1. Joined(s \o t, s, t)
    BY DEF Joined
<1> QED BY <1>1, CarriesJoin

\* Chunks with the deltas ds carry what ds does.
LEMMA CarriesSame ==
    ASSUME NEW s \in Seq(ChunkType), NEW ds \in Seq(Int), Len(s) = Len(ds),
           \A i \in 1..Len(s) : s[i].d = ds[i], NEW a, NEW b, Carries(ds, a, b)
    PROVE  Carries(Deltas(s), a, b)
<1>1. Deltas(s) = ds
    BY DEF Deltas
<1> QED BY <1>1

\* The deltas of a sequence of chunks.
LEMMA DeltasTyped ==
    ASSUME NEW s \in Seq(ChunkType)
    PROVE  /\ Deltas(s) \in Seq(Int) /\ Len(Deltas(s)) = Len(s)
           /\ \A i \in 1..Len(s) : Deltas(s)[i] = s[i].d
<1>1. \A i \in 1..Len(s) : s[i] \in ChunkType
    OBVIOUS
<1> QED BY <1>1 DEF ChunkType, Deltas

\* Chunks that carry tokens one after the other.
LEMMA SentConcat ==
    ASSUME NEW s \in Seq(ChunkType), NEW t \in Seq(ChunkType),
           NEW a \in Nat, NEW b \in Nat, NEW c \in Nat, a <= b, b <= c,
           Carries(Deltas(s), a, b), Carries(Deltas(t), b, c)
    PROVE  Carries(Deltas(s \o t), a, c)
<1>1. Joined(Deltas(s \o t), Deltas(s), Deltas(t))
    <2>1. s \o t \in Seq(ChunkType) /\ Len(s \o t) = Len(s) + Len(t)
        OBVIOUS
    <2>2. Len(s) \in Nat /\ Len(t) \in Nat
        OBVIOUS
    <2>3. /\ Deltas(s) \in Seq(Int) /\ Len(Deltas(s)) = Len(s)
          /\ Deltas(t) \in Seq(Int) /\ Len(Deltas(t)) = Len(t)
          /\ Deltas(s \o t) \in Seq(Int) /\ Len(Deltas(s \o t)) = Len(s) + Len(t)
        BY <2>1, DeltasTyped
    <2>4. ASSUME NEW i \in 1..Len(s) PROVE Deltas(s \o t)[i] = Deltas(s)[i]
        <3>1. i \in 1..Len(s \o t) /\ (s \o t)[i] = s[i]
            OBVIOUS
        <3> QED BY <2>1, <3>1, DeltasTyped
    <2>5. ASSUME NEW i \in 1..Len(t) PROVE Deltas(s \o t)[Len(s) + i] = Deltas(t)[i]
        <3>1. Len(s) + i \in 1..Len(s \o t) /\ (s \o t)[Len(s) + i] = t[i]
            OBVIOUS
        <3> QED BY <2>1, <3>1, DeltasTyped
    <2> QED BY <2>3, <2>4, <2>5 DEF Joined
<1> QED BY <1>1, CarriesJoin

Unfinished(s) == \A i \in 1..Len(s) : ~s[i].fin

\* A stream that ended: its last chunk, and the only one with a finish reason.
EndsWell(s, usage) ==
    /\ Len(s) >= 2 /\ s[Len(s)] = Done
    /\ {i \in 1..Len(s) : s[i].fin} = {Len(s) - 1 - (IF usage THEN 1 ELSE 0)}

\* A stream that ended with a failure.
EndsFailed(s) ==
    Len(s) >= 2 /\ s[Len(s)] = Done /\ s[Len(s) - 1] = Failed /\ Unfinished(s)

\* What is sent midstream carries the deltas, without a finish reason.
LEMMA MidstreamCarries ==
    ASSUME NEW r \in Req, NEW ds \in Seq(Nat)
    PROVE  /\ Unfinished(Midstream(r, ds))
           /\ \A a, b \in Nat : a <= b /\ Carries(ds, a, b) =>
                 Carries(Deltas(Midstream(r, ds)), a, b)
<1> DEFINE body == [i \in 1..Len(ds) |-> Chunk(ds[i], FALSE)]
<1>1. PICK p \in {<<>>, <<Primed>>} : Midstream(r, ds) = body \o p
    BY DEF Midstream
<1>2. body \in Seq(ChunkType) /\ p \in Seq(ChunkType)
    BY ChunksOf, ChunkConstants
<1>3. Len(body) = Len(ds) /\ \A i \in 1..Len(body) : body[i].d = ds[i] /\ ~body[i].fin
    BY DEF Chunk
<1>4. \A i \in 1..Len(p) : p[i].d <= 0 /\ ~p[i].fin
    BY DEF Primed, Chunk
<1> HIDE DEF body
<1>5. ds \in Seq(Int)
    OBVIOUS
<1>6. ASSUME NEW a \in Nat, NEW b \in Nat, a <= b, Carries(ds, a, b)
      PROVE  Carries(Deltas(body \o p), a, b)
    <2>1. Carries(Deltas(body), a, b)
        BY <1>2, <1>3, <1>5, <1>6, CarriesSame
    <2>2. Carries(Deltas(p), b, b)
        BY <1>2, <1>4, DeltasTyped, CarriesNothing
    <2> QED BY <1>2, <1>6, <2>1, <2>2, SentConcat
<1>7. Unfinished(body \o p)
    <2>1. ASSUME NEW i \in 1..Len(body \o p) PROVE ~(body \o p)[i].fin
        <3>1. CASE i <= Len(body)
            BY <1>2, <1>3, <3>1
        <3>2. CASE i > Len(body)
            <4>1. i - Len(body) \in 1..Len(p) /\ (body \o p)[i] = p[i - Len(body)]
                BY <1>2, <3>2
            <4> QED BY <1>4, <4>1
        <3> QED BY <1>2, <3>1, <3>2
    <2> QED BY <2>1 DEF Unfinished
<1> QED BY <1>1, <1>6, <1>7

\* Some chunks of which only the last has a finish reason.
FinishesLast(s) ==
    s \in Seq(ChunkType) /\ Len(s) >= 1 /\ \A i \in 1..Len(s) : s[i].fin <=> i = Len(s)

\* A last chunk without a token.
LEMMA NothingCarried ==
    ASSUME NEW s \in Seq(ChunkType), Len(s) = 1, s[1].d <= 0, s[1].fin, NEW a \in Nat
    PROVE  Carries(Deltas(s), a, a) /\ FinishesLast(s)
<1>1. \A i \in 1..Len(s) : i = 1
    OBVIOUS
<1>2. Deltas(s) \in Seq(Int) /\ \A i \in 1..Len(Deltas(s)) : Deltas(s)[i] <= 0
    BY <1>1, DeltasTyped
<1>3. Carries(Deltas(s), a, a)
    BY <1>2, CarriesNothing
<1> QED BY <1>1, <1>3 DEF FinishesLast

\* The deltas of the last chunks, the finish reason on the last one.
LEMMA LastCarried ==
    ASSUME NEW ds \in Seq(Nat), ds # <<>>, NEW a \in Nat, NEW b \in Nat, Carries(ds, a, b),
           NEW s, s = [i \in 1..Len(ds) |-> Chunk(ds[i], i = Len(ds))]
    PROVE  Carries(Deltas(s), a, b) /\ FinishesLast(s)
<1>1. Len(ds) \in Nat /\ Len(ds) >= 1 /\ ds \in Seq(Int)
    OBVIOUS
<1>2. s \in Seq(ChunkType)
    BY ChunksOf
<1>3. Len(s) = Len(ds)
    BY <1>1
<1>4. \A i \in 1..Len(ds) : s[i] = Chunk(ds[i], i = Len(ds))
    BY <1>1
<1>5. \A i \in 1..Len(s) : s[i].d = ds[i] /\ (s[i].fin <=> i = Len(s))
    BY <1>3, <1>4 DEF Chunk
<1>6. Carries(Deltas(s), a, b)
    BY <1>1, <1>2, <1>3, <1>5, CarriesSame
<1> QED BY <1>1, <1>2, <1>3, <1>5, <1>6 DEF FinishesLast

\* Without deltas nothing is carried.
LEMMA NoneCarried ==
    ASSUME NEW a \in Nat, NEW b \in Nat, a <= b, Carries(<<>>, a, b)
    PROVE  a = b
<1>1. ASSUME a < b PROVE FALSE
    <2>1. a + 1 \in (a + 1)..b
        BY <1>1
    <2>2. PICK i \in 1..Len(<<>>) : <<>>[i] = a + 1
        BY <2>1 DEF Carries
    <2> QED BY <2>2
<1> QED BY <1>1

\* The end of a stream carries the deltas and ends well.
LEMMA LastChunksCarry ==
    ASSUME NEW r \in Req, NEW ds \in Seq(Nat), NEW a \in Nat, NEW b \in Nat, a <= b,
           Carries(ds, a, b)
    PROVE  /\ Carries(Deltas(LastChunks(r, ds)), a, b)
           /\ EndsWell(LastChunks(r, ds), ask[r].usage)
<1> DEFINE last1 == <<Chunk(FinishDelta, TRUE)>>
           last2 == [i \in 1..Len(ds) |-> Chunk(ds[i], i = Len(ds))]
<1>0. LastChunks(r, ds) = (IF ds = <<>> THEN last1 ELSE last2)
                             \o IF ask[r].usage THEN <<Usage, Done>> ELSE <<Done>>
    BY DEF LastChunks
<1>1. PICK body : /\ Carries(Deltas(body), a, b) /\ FinishesLast(body)
                  /\ LastChunks(r, ds) = body \o IF ask[r].usage THEN <<Usage, Done>> ELSE <<Done>>
    <2>1. CASE ds = <<>>
        <3>1. a = b
            BY <2>1, NoneCarried
        <3>2. Carries(Deltas(last1), a, a) /\ FinishesLast(last1)
            <4>1. last1 \in Seq(ChunkType) /\ Len(last1) = 1
                BY ChunkConstants
            <4>2. last1[1].d <= 0 /\ last1[1].fin
                BY DEF Chunk, FinishDelta
            <4> HIDE DEF last1
            <4> QED BY <4>1, <4>2, NothingCarried
        <3> HIDE DEF last1, last2
        <3> QED BY <1>0, <2>1, <3>1, <3>2
    <2>2. CASE ds # <<>>
        <3>1. Carries(Deltas(last2), a, b) /\ FinishesLast(last2)
            BY <2>2, LastCarried
        <3> HIDE DEF last1, last2
        <3> QED BY <1>0, <2>2, <3>1
    <2> QED BY <2>1, <2>2
<1>2. PICK tail \in {<<Usage, Done>>, <<Done>>} :
          /\ tail = IF ask[r].usage THEN <<Usage, Done>> ELSE <<Done>>
          /\ LastChunks(r, ds) = body \o tail
    BY <1>1
<1>3. /\ tail \in Seq(ChunkType) /\ Len(tail) = 1 + (IF ask[r].usage THEN 1 ELSE 0)
      /\ tail[Len(tail)] = Done
      /\ \A i \in 1..Len(tail) : tail[i].d <= 0 /\ ~tail[i].fin
    <2>1. Done.d <= 0 /\ ~Done.fin /\ Usage.d <= 0 /\ ~Usage.fin
        BY DEF Usage, Done, Chunk
    <2>2. CASE ask[r].usage
        <3>1. tail = <<Usage, Done>>
            BY <1>2, <2>2
        <3> QED BY <2>1, <2>2, <3>1, ChunkConstants
    <2>3. CASE ~ask[r].usage
        <3>1. tail = <<Done>>
            BY <1>2, <2>3
        <3> QED BY <2>1, <2>3, <3>1, ChunkConstants
    <2> QED BY <2>2, <2>3
<1>4. body \in Seq(ChunkType) /\ Len(body) >= 1 /\ \A i \in 1..Len(body) : body[i].fin <=> i = Len(body)
    BY <1>1 DEF FinishesLast
<1>5. Carries(Deltas(tail), b, b)
    BY <1>3, DeltasTyped, CarriesNothing
<1>6. Carries(Deltas(body \o tail), a, b)
    BY <1>1, <1>3, <1>4, <1>5, SentConcat
<1>7. EndsWell(body \o tail, ask[r].usage)
    <2>1. /\ Len(body \o tail) = Len(body) + Len(tail) /\ Len(body) \in Nat /\ Len(tail) \in Nat
          /\ Len(tail) >= 1 /\ Len(body) >= 1
        <3>1. Len(tail) \in Nat /\ Len(tail) >= 1
            BY <1>3
        <3>2. ASSUME NEW s \in Seq(ChunkType), NEW t \in Seq(ChunkType)
              PROVE  Len(s \o t) = Len(s) + Len(t) /\ Len(s) \in Nat
            OBVIOUS
        <3>3. body \in Seq(ChunkType) /\ tail \in Seq(ChunkType) /\ Len(body) >= 1
            BY <1>3, <1>4
        <3>4. Len(body \o tail) = Len(body) + Len(tail) /\ Len(body) \in Nat
            BY <3>2, <3>3
        <3> QED BY <3>1, <3>3, <3>4
    <2>2. ASSUME NEW i \in 1..Len(body \o tail)
          PROVE  (body \o tail)[i].fin <=> i = Len(body)
        <3>1. CASE i <= Len(body)
            <4>1. i \in 1..Len(body) /\ (body \o tail)[i] = body[i]
                BY <1>3, <1>4, <3>1
            <4> QED BY <1>4, <4>1
        <3>2. CASE i > Len(body)
            <4>1. i - Len(body) \in 1..Len(tail) /\ (body \o tail)[i] = tail[i - Len(body)]
                BY <1>3, <1>4, <2>1, <3>2
            <4> QED BY <1>3, <2>1, <3>2, <4>1
        <3> QED BY <2>1, <3>1, <3>2
    <2>3. (body \o tail)[Len(body \o tail)] = Done
        <3>1. (body \o tail)[Len(body) + Len(tail)] = tail[Len(tail)]
            BY <1>3, <1>4, <2>1
        <3> QED BY <1>3, <2>1, <3>1
    <2>4. {i \in 1..Len(body \o tail) : (body \o tail)[i].fin} = {Len(body)}
        BY <2>1, <2>2
    <2>5. Len(body) = Len(body \o tail) - 1 - (IF ask[r].usage THEN 1 ELSE 0)
        BY <1>3, <2>1
    <2> QED BY <2>1, <2>3, <2>4, <2>5 DEF EndsWell
<1> QED BY <1>2, <1>6, <1>7

\* The last chunks end a stream that had not ended.
LEMMA EndsAfter ==
    ASSUME NEW s \in Seq(ChunkType), NEW t \in Seq(ChunkType), NEW u \in BOOLEAN,
           Unfinished(s), EndsWell(t, u)
    PROVE  EndsWell(s \o t, u)
<1>1. /\ Len(s \o t) = Len(s) + Len(t) /\ Len(s) \in Nat /\ Len(t) \in Nat /\ Len(t) >= 2
    BY DEF EndsWell
<1>2. ASSUME NEW i \in 1..Len(s \o t)
      PROVE  (s \o t)[i].fin <=> i = Len(s) + Len(t) - 1 - (IF u THEN 1 ELSE 0)
    <2>1. CASE i <= Len(s)
        <3>1. i \in 1..Len(s) /\ (s \o t)[i] = s[i]
            BY <2>1
        <3>2. Len(t) - 1 - (IF u THEN 1 ELSE 0) \in 1..Len(t)
            BY DEF EndsWell
        <3> QED BY <1>1, <2>1, <3>1, <3>2 DEF Unfinished
    <2>2. CASE i > Len(s)
        <3>1. i - Len(s) \in 1..Len(t) /\ (s \o t)[i] = t[i - Len(s)]
            BY <2>2
        <3>2. t[i - Len(s)].fin <=> i - Len(s) = Len(t) - 1 - (IF u THEN 1 ELSE 0)
            BY <3>1 DEF EndsWell
        <3> QED BY <1>1, <3>1, <3>2
    <2> QED BY <1>1, <2>1, <2>2
<1>3. Len(s) + Len(t) - 1 - (IF u THEN 1 ELSE 0) \in 1..Len(s \o t)
    <2>1. Len(t) - 1 - (IF u THEN 1 ELSE 0) \in 1..Len(t)
        BY DEF EndsWell
    <2> QED BY <1>1, <2>1
<1>4. (s \o t)[Len(s \o t)] = Done
    <2>1. (s \o t)[Len(s) + Len(t)] = t[Len(t)]
        BY <1>1
    <2> QED BY <1>1, <2>1 DEF EndsWell
<1> DEFINE st == s \o t
           at == Len(s) + Len(t) - 1 - (IF u THEN 1 ELSE 0)
<1>5. {i \in 1..Len(st) : st[i].fin} = {at} /\ at = Len(st) - 1 - (IF u THEN 1 ELSE 0)
    <2>1. /\ \A i \in 1..Len(st) : st[i].fin <=> i = at
          /\ at \in 1..Len(st) /\ Len(st) = Len(s) + Len(t)
        BY <1>1, <1>2, <1>3
    <2>2. at = Len(st) - 1 - (IF u THEN 1 ELSE 0)
        BY <2>1
    <2> HIDE DEF st, at
    <2> QED BY <2>1, <2>2
<1> QED BY <1>1, <1>4, <1>5 DEF EndsWell

\* Without a finish reason before, and none after.
LEMMA UnfinishedConcat ==
    ASSUME NEW s \in Seq(ChunkType), NEW t \in Seq(ChunkType), Unfinished(s), Unfinished(t)
    PROVE  Unfinished(s \o t)
<1>1. ASSUME NEW i \in 1..Len(s \o t) PROVE ~(s \o t)[i].fin
    <2>1. CASE i <= Len(s)
        BY <2>1 DEF Unfinished
    <2>2. CASE i > Len(s)
        <3>1. i - Len(s) \in 1..Len(t) /\ (s \o t)[i] = t[i - Len(s)]
            BY <2>2
        <3> QED BY <3>1 DEF Unfinished
    <2> QED BY <2>1, <2>2
<1> QED BY <1>1 DEF Unfinished

-----------------------------------------------------------------------------
(* The invariant.                                                          *)

InQueue(r) == \E i \in 1..Len(queue) : queue[i] = r
WorksOn(r) == ex \in Works \ {"front"} /\ queue # <<>> /\ r = Front
Before == {"idle", "load", "check", "register", "add"}

\* The queue of the executor has no request twice, and one while it works.
QueueInv ==
    /\ \A i, j \in 1..Len(queue) : queue[i] = queue[j] => i = j
    /\ ex \in Works => queue # <<>>
    /\ queue # <<>> => Legacy
    /\ ex = "step" => CB

\* The disconnection callback, once registered, runs for a client that leaves.
ClientInv(r) ==
    /\ hook[r] = "set" => conn[r]
    /\ hook[r] = "due" => ~conn[r]
    /\ gone[r] => ~conn[r]
    /\ Legacy /\ pc[r] = "add" /\ conn[r] => hook[r] = "set"
    /\ pc[r] \in Before => ~InQueue(r)
    /\ InQueue(r) => IF conn[r] THEN hook[r] = "set" ELSE hook[r] = "due" \/ gone[r]

\* Where a request can be, by its servable and what it asks for.
StageInv(r) ==
    /\ status[r] = "ok" => pc[r] = "over"
    /\ pc[r] # "idle" => ask[r].len > 0
    /\ pc[r] \in {"check", "notify", "reading"} => CB
    /\ pc[r] \in {"waiting", "drained", "finishing"} => Legacy
    /\ pc[r] \in {"reading", "drained", "finishing"} => ask[r].stream
    /\ pc[r] = "waiting" => ~ask[r].stream
    /\ pc[r] \notin {"idle", "load", "over"} => ask[r].uri # "tokenize"

\* What has been sent, and what is taken from a channel and not sent.
SentInv(r) ==
    pc[r] # "over" =>
        /\ Unfinished(sent[r])
        /\ ~ask[r].stream \/ pc[r] \in Before \cup {"notify"} => sent[r] = <<>>
        /\ \/ taken[r] = <<>>
           \/ pc[r] \in {"drained", "finishing"}
           \/ pc[r] = "prepare" /\ CB /\ ~ask[r].stream

(* One request at a time.                                                  *)

Fresh(r) ==
    gen[r] = Idle /\ held[r] = <<>> /\ chan[r].d = <<>> /\ success[r]
Ended(r) ==
    \/ ~success[r]
    \/ gen[r].st = "FINISHED" /\ gen[r].made = Total(r) /\ held[r] = <<>>
    \/ gen[r].st = "CANCELLED" /\ gone[r]

\* A request is untouched until the executor works on it, and ready after that.
LegacyInv(r) ==
    /\ gen[r].made <= Total(r)
    /\ \A i \in 1..Len(chan[r].d) : chan[r].d[i] <= gen[r].made
    /\ \A i \in 1..Len(held[r]) : held[r][i] <= gen[r].made
    /\ pc[r] \in Before => ~ready[r]
    /\ ~ready[r] /\ ~WorksOn(r) => Fresh(r)
    /\ ready[r] => Ended(r) /\ (InQueue(r) => WorksOn(r) /\ ex \in {"complete", "pop"})
    /\ ~ask[r].stream /\ pc[r] = "prepare" => ready[r] /\ success[r]

\* What the executor is doing to the request it works on.
WorkInv(r) ==
    WorksOn(r) =>
        /\ ex = "generate" => gen[r].st = "RUNNING"
        /\ ex \in {"callback", "push"} =>
              \/ gen[r].st = "RUNNING"
              \/ gen[r].st = "FINISHED" /\ gen[r].made = Total(r)
        /\ ex \in {"generate", "callback", "push"} => success[r] /\ ~ready[r]
        /\ ex = "signal" => Ended(r) /\ ~ready[r]
        /\ ex \in {"complete", "pop"} => ready[r]

\* The tokens of a generation, in order: sent, taken, in the channel, held.
ChainInv(r) ==
    pc[r] # "over" =>
        \E a, b, c \in 0..gen[r].made :
            /\ a <= b /\ b <= c
            /\ Carries(Deltas(sent[r]), 0, a) /\ Carries(taken[r], a, b)
            /\ Carries(chan[r].d, b, c) /\ Carries(held[r], c, gen[r].made)

\* The answer of a request that is over.
OverInv(r) ==
    pc[r] = "over" =>
        /\ \E n \in 0..gen[r].made : Carries(Deltas(sent[r]), 0, n)
        /\ status[r] = "ok" /\ ask[r].uri # "tokenize" /\ (ask[r].stream => conn[r]) =>
              /\ ready[r] /\ success[r] /\ gen[r].st = "FINISHED" /\ gen[r].made = Total(r)
              /\ Carries(Deltas(sent[r]), 0, gen[r].made)
              /\ ask[r].stream => EndsWell(sent[r], ask[r].usage)

CommonInv(r) == ClientInv(r) /\ StageInv(r) /\ SentInv(r)
OneInv(r) == LegacyInv(r) /\ WorkInv(r) /\ ChainInv(r) /\ OverInv(r)

-----------------------------------------------------------------------------
(* Steps of one request leave the others alone.                            *)

Same(q) ==
    /\ ask'[q] = ask[q] /\ pc'[q] = pc[q] /\ status'[q] = status[q] /\ conn'[q] = conn[q]
    /\ hook'[q] = hook[q] /\ gone'[q] = gone[q] /\ gen'[q] = gen[q] /\ out'[q] = out[q]
    /\ last'[q] = last[q] /\ held'[q] = held[q] /\ chan'[q] = chan[q] /\ taken'[q] = taken[q]
    /\ ready'[q] = ready[q] /\ success'[q] = success[q] /\ sent'[q] = sent[q]

Still(q) ==
    /\ servable' = servable
    /\ InQueue(q)' = InQueue(q) /\ WorksOn(q)' = WorksOn(q)
    /\ WorksOn(q) => ex' = ex

\* A request that a step leaves alone keeps its invariant.
LEMMA SameKeeps ==
    ASSUME NEW q \in Req, Same(q), Still(q)
    PROVE  /\ CommonInv(q) => CommonInv(q)'
           /\ OneInv(q) => OneInv(q)'
<1>1. ClientInv(q) => ClientInv(q)'
    BY DEF ClientInv, Same, Still, CB, Legacy
<1>2. StageInv(q) => StageInv(q)'
    BY DEF StageInv, Same, Still, CB, Legacy
<1>3. SentInv(q) => SentInv(q)'
    BY DEF SentInv, Same, Still, CB
<1>4. (Ended(q)' <=> Ended(q)) /\ (Fresh(q)' <=> Fresh(q)) /\ Total(q)' = Total(q)
    BY DEF Ended, Fresh, Total, Same, Still
<1>5. LegacyInv(q) => LegacyInv(q)'
    BY <1>4 DEF LegacyInv, Same, Still
<1>6. WorkInv(q) => WorkInv(q)'
    BY <1>4 DEF WorkInv, Same, Still
<1>7. ChainInv(q) => ChainInv(q)'
    BY DEF ChainInv, Same
<1>8. OverInv(q) => OverInv(q)'
    BY <1>4 DEF OverInv, Same
<1> QED BY <1>1, <1>2, <1>3, <1>5, <1>6, <1>7, <1>8 DEF CommonInv, OneInv

\* Variables are functions of the request.
LEMMA Domains ==
    ASSUME Types
    PROVE  /\ DOMAIN ask = Req /\ DOMAIN pc = Req /\ DOMAIN status = Req /\ DOMAIN conn = Req
           /\ DOMAIN hook = Req /\ DOMAIN gone = Req /\ DOMAIN gen = Req /\ DOMAIN out = Req
           /\ DOMAIN last = Req /\ DOMAIN held = Req /\ DOMAIN chan = Req /\ DOMAIN taken = Req
           /\ DOMAIN ready = Req /\ DOMAIN success = Req /\ DOMAIN sent = Req
BY DEF Types, ClientType, PipeType, ContextType

\* The executor waits or looks, and the queue is as it was.
LEMMA QueueKept ==
    ASSUME queue' = queue, servable' = servable,
           ex' = ex \/ (ex \in Rests /\ ex' \in Rests \cup {"front"}), NEW q \in Req
    PROVE  Still(q)
BY DEF Still, InQueue, WorksOn, Front, Works, Rests

\* A request joins the queue.
LEMMA Enqueued ==
    ASSUME Types, QueueInv, NEW r \in Req, ~InQueue(r), queue' = Append(queue, r),
           servable' = servable, Legacy, ex' = ex \/ (ex \in Rests /\ ex' = "woken")
    PROVE  /\ QueueInv'
           /\ \A q \in Req \ {r} : Still(q)
           /\ InQueue(r)' /\ ~WorksOn(r) /\ ~WorksOn(r)'
<1>t. queue \in Seq(Req) /\ Len(queue) \in Nat /\ queue' \in Seq(Req)
    BY DEF Types, PipeType
<1>1. /\ Len(queue') = Len(queue) + 1 /\ queue'[Len(queue) + 1] = r
      /\ \A i \in 1..Len(queue) : queue'[i] = queue[i]
    BY <1>t
<1>2. queue # <<>> => Head(queue') = Head(queue) /\ Len(queue) >= 1 /\ Head(queue) = queue[1]
    BY <1>t
<1>3. queue' # <<>> /\ \A i \in 1..Len(queue) : queue[i] # r
    BY <1>t DEF InQueue
<1>4. queue = <<>> => ex \notin Works
    BY DEF QueueInv
<1>5. ~WorksOn(r) /\ ~WorksOn(r)'
    <2>1. queue # <<>> => Head(queue) # r
        BY <1>t, <1>2, <1>3
    <2> QED BY <1>2, <1>4, <2>1 DEF WorksOn, Front, Works, Rests
<1>6. InQueue(r)'
    BY <1>t, <1>1 DEF InQueue
<1>7. ASSUME NEW q \in Req \ {r} PROVE Still(q)
    <2>1. InQueue(q)' <=> InQueue(q)
        BY <1>t, <1>1 DEF InQueue
    <2>2. WorksOn(q)' <=> WorksOn(q)
        BY <1>2, <1>3, <1>4 DEF WorksOn, Front, Works, Rests
    <2>3. WorksOn(q) => ex' = ex
        BY DEF WorksOn, Works, Rests
    <2> QED BY <2>1, <2>2, <2>3 DEF Still, InQueue, WorksOn
<1>8. QueueInv'
    <2>1. \A i, j \in 1..Len(queue') : queue'[i] = queue'[j] => i = j
        BY <1>t, <1>1, <1>3 DEF QueueInv
    <2> QED BY <1>3, <2>1 DEF QueueInv, CB, Legacy, Works, Rests
<1> QED BY <1>5, <1>6, <1>7, <1>8

\* A step of one request touches no other.
LEMMA OthersSame ==
    ASSUME Types, NEW r \in Req, NEW q \in Req \ {r},
           Submit(r) \/ Calculator(r) \/ Disconnect(r) \/ OnDisconnected(r)
    PROVE  Same(q)
<1> USE Domains DEF Submit, Calculator, Disconnect, OnDisconnected, ProcessTokenizeRequest, Load,
       ScheduleCheck, AddRequestToPipeline, RegisterDisconnectionCallback, ScheduleExecution,
       NotifyExecutorThread, NotifyUnlocked, ReadCompleteExecutionResults, PrepareCompleteResponse,
       ReadPartialExecutionResults, Read, PreparePartialResponse, LegacyReadComplete,
       FinishedWait, LegacyPrepareComplete, WaitForData, Drain, LegacyPartial, LegacyFinish
<1>d. q # r
    OBVIOUS
<1>1. ask'[q] = ask[q] /\ conn'[q] = conn[q] /\ hook'[q] = hook[q] /\ gone'[q] = gone[q]
    BY <1>d DEF client, ctxVars
<1>2. pc'[q] = pc[q] /\ status'[q] = status[q]
    BY <1>d DEF Over, Scheduled, HandleGenerationError
<1>3. gen'[q] = gen[q] /\ out'[q] = out[q] /\ last'[q] = last[q]
    BY <1>d DEF Drop, pipeVars, ctxVars
<1>4. held'[q] = held[q] /\ chan'[q] = chan[q] /\ taken'[q] = taken[q]
    BY <1>d DEF ctxVars
<1>5. ready'[q] = ready[q] /\ success'[q] = success[q] /\ sent'[q] = sent[q]
    BY <1>d DEF HandleGenerationError, Scheduled, ctxVars
<1> QED BY <1>1, <1>2, <1>3, <1>4, <1>5 DEF Same

\* Only ScheduleExecution of a client still there changes the queue.
LEMMA QueueAfter ==
    ASSUME Types, QueueInv, NEW r \in Req, ClientInv(r),
           Submit(r) \/ Calculator(r) \/ Disconnect(r) \/ OnDisconnected(r)
    PROVE  /\ QueueInv' /\ \A q \in Req \ {r} : Still(q)
           /\ ~(ScheduleExecution(r) /\ conn[r]) => Still(r)
           /\ ScheduleExecution(r) /\ conn[r] => InQueue(r)' /\ ~WorksOn(r) /\ ~WorksOn(r)'
<1>1. CASE ScheduleExecution(r) /\ conn[r]
    <2>1. /\ queue' = Append(queue, r) /\ servable' = servable /\ Legacy /\ pc[r] = "add"
          /\ ex' = ex \/ (ex = "asleep" /\ ex' = "woken")
        BY <1>1 DEF ScheduleExecution
    <2>2. ~InQueue(r)
        BY <2>1 DEF ClientInv, Before
    <2> QED BY <1>1, <2>1, <2>2, Enqueued DEF Rests
<1>2. CASE ~(ScheduleExecution(r) /\ conn[r])
    <2>1. /\ queue' = queue /\ servable' = servable
          /\ ex' = ex \/ (ex = "asleep" /\ ex' = "woken")
        <3>1. CASE ScheduleExecution(r)
            BY <1>2, <3>1 DEF ScheduleExecution
        <3>2. CASE ~ScheduleExecution(r)
            BY <3>2 DEF Submit, Calculator, Disconnect, OnDisconnected, ProcessTokenizeRequest,
               Load, ScheduleCheck, AddRequestToPipeline, RegisterDisconnectionCallback,
               NotifyExecutorThread, NotifyUnlocked, ReadCompleteExecutionResults,
               PrepareCompleteResponse, ReadPartialExecutionResults, Read,
               PreparePartialResponse, LegacyReadComplete, FinishedWait,
               LegacyPrepareComplete, WaitForData, Drain, LegacyPartial, LegacyFinish
        <3> QED BY <3>1, <3>2
    <2>2. \A q \in Req : Still(q)
        BY <2>1, QueueKept DEF Rests
    <2>3. QueueInv'
        BY <2>1 DEF QueueInv, CB, Legacy, Works
    <2> QED BY <1>2, <2>2, <2>3
<1> QED BY <1>1, <1>2

\* The calculator and the client keep the invariant of the callback,
LEMMA ClientKept ==
    ASSUME Types, QueueInv, NEW r \in Req, CommonInv(r),
           Submit(r) \/ Calculator(r) \/ Disconnect(r) \/ OnDisconnected(r)
    PROVE  ClientInv(r)'
<1>c. ClientInv(r) /\ StageInv(r)
    BY DEF CommonInv
<1>b. conn[r] \in BOOLEAN /\ conn'[r] \in BOOLEAN
    BY Domains DEF Types, ClientType, Submit, Calculator, Disconnect, OnDisconnected,
       ProcessTokenizeRequest, Load, ScheduleCheck, AddRequestToPipeline,
       RegisterDisconnectionCallback, ScheduleExecution, NotifyExecutorThread, NotifyUnlocked,
       ReadCompleteExecutionResults, PrepareCompleteResponse, ReadPartialExecutionResults,
       Read, PreparePartialResponse, LegacyReadComplete, FinishedWait, LegacyPrepareComplete,
       WaitForData, Drain, LegacyPartial, LegacyFinish, client, ctxVars
<1>1. CASE ScheduleExecution(r)
    <2>1. /\ UNCHANGED client /\ pc[r] = "add" /\ Legacy
          /\ IF conn[r] THEN gone' = gone /\ pc'[r] = "read"
             ELSE gone'[r] /\ pc'[r] = "over" /\ UNCHANGED queue
        BY <1>1, Domains DEF ScheduleExecution, Over, Scheduled
    <2>2. CASE conn[r]
        BY <1>c, <2>1, <2>2 DEF ClientInv, client, Before
    <2>3. CASE ~conn[r]
        BY <1>c, <2>1, <2>3 DEF ClientInv, client, Before, InQueue
    <2> QED BY <2>2, <2>3
<1>2. ASSUME ~ScheduleExecution(r) PROVE Still(r)
    BY <1>2, <1>c, QueueAfter
<1>3. CASE RegisterDisconnectionCallback(r)
    <2>1. /\ pc[r] = "register" /\ pc'[r] = (IF CB THEN "notify" ELSE "add")
          /\ hook'[r] = (IF conn[r] THEN "set" ELSE hook[r])
          /\ UNCHANGED <<conn, gone, servable>>
        BY <1>3, Domains DEF RegisterDisconnectionCallback, ctxVars
    <2>2. Still(r)
        BY <1>2, <1>3 DEF RegisterDisconnectionCallback, ScheduleExecution
    <2>3. ~InQueue(r)'
        BY <1>c, <2>1, <2>2 DEF ClientInv, Before, Still
    <2> QED BY <1>c, <1>b, <2>1, <2>3 DEF ClientInv, Before, Legacy, CB
<1>4. CASE Disconnect(r)
    <2>1. /\ conn[r] /\ ~conn'[r] /\ hook'[r] = (IF hook[r] = "set" THEN "due" ELSE hook[r])
          /\ UNCHANGED <<servable, pc, gone, queue>>
        BY <1>4, Domains DEF Disconnect, ctxVars
    <2> QED BY <1>c, <2>1 DEF ClientInv, Legacy, CB, InQueue
<1>5. CASE OnDisconnected(r)
    <2>1. /\ hook[r] = "due" /\ hook'[r] = "none" /\ (CB => gone' = gone) /\ (~CB => gone'[r])
          /\ UNCHANGED <<servable, pc, conn, queue>>
        BY <1>5, Domains DEF OnDisconnected, Drop
    <2>2. InQueue(r) => ~CB
        <3>1. InQueue(r) => queue # <<>>
            BY DEF InQueue
        <3> QED BY <3>1 DEF QueueInv, Legacy
    <2> QED BY <1>c, <2>1, <2>2 DEF ClientInv, Legacy, CB, InQueue
<1>6. CASE ~ \/ ScheduleExecution(r) \/ RegisterDisconnectionCallback(r)
             \/ Disconnect(r) \/ OnDisconnected(r)
    <2>1. conn'[r] = conn[r] /\ hook'[r] = hook[r] /\ gone'[r] = gone[r]
        BY <1>6 DEF Submit, Calculator, ProcessTokenizeRequest, Load, ScheduleCheck,
           AddRequestToPipeline, NotifyExecutorThread, NotifyUnlocked,
           ReadCompleteExecutionResults, PrepareCompleteResponse, ReadPartialExecutionResults,
           Read, PreparePartialResponse, LegacyReadComplete, FinishedWait,
           LegacyPrepareComplete, WaitForData, Drain, LegacyPartial, LegacyFinish,
           client, ctxVars
    <2>2. /\ pc'[r] = "add" => pc[r] = "check"
          /\ pc'[r] \in Before => pc[r] \in Before
        BY <1>6, Domains DEF Submit, Calculator, ProcessTokenizeRequest, Load, ScheduleCheck,
           AddRequestToPipeline, NotifyExecutorThread, NotifyUnlocked, Scheduled, Over,
           ReadCompleteExecutionResults, PrepareCompleteResponse, ReadPartialExecutionResults,
           Read, PreparePartialResponse, LegacyReadComplete, FinishedWait,
           LegacyPrepareComplete, WaitForData, Drain, LegacyPartial, LegacyFinish,
           HandleGenerationError, Before
    <2>3. Still(r)
        BY <1>2, <1>6
    <2> QED BY <1>c, <2>1, <2>2, <2>3 DEF ClientInv, StageInv, Still, Legacy, CB
<1> QED BY <1>1, <1>3, <1>4, <1>5, <1>6

\* of where a request can be,
LEMMA StageKept ==
    ASSUME Types, QueueInv, NEW r \in Req, CommonInv(r),
           Submit(r) \/ Calculator(r) \/ Disconnect(r) \/ OnDisconnected(r)
    PROVE  StageInv(r)'
<1>c. StageInv(r)
    BY DEF CommonInv
<1>s. servable' = servable
    BY DEF Submit, Calculator, Disconnect, OnDisconnected, ProcessTokenizeRequest, Load,
       ScheduleCheck, AddRequestToPipeline, RegisterDisconnectionCallback, ScheduleExecution,
       NotifyExecutorThread, NotifyUnlocked, ReadCompleteExecutionResults,
       PrepareCompleteResponse, ReadPartialExecutionResults, Read, PreparePartialResponse,
       LegacyReadComplete, FinishedWait, LegacyPrepareComplete, WaitForData, Drain,
       LegacyPartial, LegacyFinish
<1>1. CASE Submit(r)
    <2>1. PICK p \in Profiles[r] : ask'[r] = p
        BY <1>1, Domains DEF Submit
    <2>2. p.len > 0
        BY ProfilesAssumption
    <2>3. pc[r] = "idle" /\ pc'[r] = "load" /\ status'[r] = status[r]
        BY <1>1, Domains DEF Submit
    <2> QED BY <1>c, <1>s, <2>1, <2>2, <2>3 DEF StageInv
<1>2. CASE Disconnect(r) \/ OnDisconnected(r)
    BY <1>c, <1>s, <1>2 DEF Disconnect, OnDisconnected, StageInv, CB, Legacy
<1>3. CASE Calculator(r)
    <2>1. ask'[r] = ask[r] /\ pc[r] # "idle"
        BY <1>3 DEF Calculator, ProcessTokenizeRequest, Load, ScheduleCheck, AddRequestToPipeline,
           RegisterDisconnectionCallback, ScheduleExecution, NotifyExecutorThread,
           NotifyUnlocked, ReadCompleteExecutionResults, PrepareCompleteResponse,
           ReadPartialExecutionResults, Read, PreparePartialResponse, LegacyReadComplete,
           FinishedWait, LegacyPrepareComplete, WaitForData, Drain, LegacyPartial, LegacyFinish
    <2>2. \/ pc'[r] = "over"
          \/ pc'[r] # "over" /\ status'[r] = status[r]
        BY <1>3, Domains DEF Calculator, ProcessTokenizeRequest, Load, ScheduleCheck,
           AddRequestToPipeline, RegisterDisconnectionCallback, ScheduleExecution,
           NotifyExecutorThread, NotifyUnlocked, ReadCompleteExecutionResults,
           PrepareCompleteResponse, ReadPartialExecutionResults, Read, PreparePartialResponse,
           LegacyReadComplete, FinishedWait, LegacyPrepareComplete, WaitForData, Drain,
           LegacyPartial, LegacyFinish, Over, Scheduled, HandleGenerationError
    <2>3. CASE Load(r)
        <3>1. pc'[r] # "over" => Verdicts(r)[1] = "ok"
            BY <2>3, Domains DEF Load, Over
        <3>2. pc'[r] \in {"check", "register", "over"} /\ (pc'[r] = "check" => CB)
            BY <2>3, Domains DEF Load, Over
        <3>3. pc'[r] # "over" => ask[r].uri # "tokenize"
            BY <2>3, <3>1 DEF Load, Verdicts
        <3>4. pc[r] = "load"
            BY <2>3 DEF Load
        <3> QED BY <1>c, <1>s, <2>1, <2>2, <3>2, <3>3, <3>4 DEF StageInv, CB, Legacy
    <2>4. ASSUME ~Load(r), pc'[r] # "over"
          PROVE  /\ pc[r] \notin {"idle", "load", "over"} /\ pc'[r] \notin {"idle", "load"}
                 /\ pc'[r] \in {"check", "notify", "reading"} => CB
                 /\ pc'[r] \in {"waiting", "drained", "finishing"} => Legacy \/ pc[r] = "drained"
                 /\ pc'[r] \in {"reading", "drained", "finishing"} => ask[r].stream \/ pc[r] = "drained"
                 /\ pc'[r] = "waiting" => ~ask[r].stream
        BY <1>3, <2>4, Domains DEF Calculator, ProcessTokenizeRequest, ScheduleCheck,
           AddRequestToPipeline, RegisterDisconnectionCallback, ScheduleExecution,
           NotifyExecutorThread, NotifyUnlocked, ReadCompleteExecutionResults,
           PrepareCompleteResponse, ReadPartialExecutionResults, Read, PreparePartialResponse,
           LegacyReadComplete, FinishedWait, LegacyPrepareComplete, WaitForData, Drain,
           LegacyPartial, LegacyFinish, Over, Scheduled, HandleGenerationError
    <2>5. CASE ~Load(r)
        BY <1>c, <1>s, <2>1, <2>2, <2>4, <2>5 DEF StageInv, CB, Legacy
    <2> QED BY <2>3, <2>5
<1> QED BY <1>1, <1>2, <1>3

\* The executor and the destructor take requests off the queue only.
LEMMA ExecutorQueue ==
    ASSUME Types, QueueInv, Executor \/ Stop \/ StopNotify
    PROVE  QueueInv' /\ \A r \in Req : InQueue(r)' => InQueue(r)
<1>t. queue \in Seq(Req) /\ Len(queue) \in Nat
    BY DEF Types, PipeType
<1>s. servable' = servable
    BY DEF Executor, Stop, StopNotify, Run, WaitForRequests, Step, ProcessRequest, Generate,
       Callback, Push, ReadySignal, SignalComplete, Pop, LegacyCtx
<1>1. CASE Pop
    <2>1. queue' = Tail(queue) /\ ex' = "top" /\ queue # <<>>
        BY <1>1 DEF Pop, QueueInv, Works
    <2>2. Len(queue') = Len(queue) - 1 /\ \A i \in 1..Len(queue') : queue'[i] = queue[i + 1]
        BY <1>t, <2>1
    <2>3. \A i \in 1..Len(queue') : i + 1 \in 1..Len(queue)
        BY <1>t, <2>2
    <2>4. \A i, j \in 1..Len(queue') : queue'[i] = queue'[j] => i = j
        <3>1. ASSUME NEW i \in 1..Len(queue'), NEW j \in 1..Len(queue'), queue'[i] = queue'[j]
              PROVE  i = j
            <4>1. i + 1 = j + 1
                BY <2>2, <2>3, <3>1 DEF QueueInv
            <4> QED BY <4>1
        <3> QED BY <3>1
    <2> QED BY <1>s, <2>1, <2>2, <2>3, <2>4 DEF QueueInv, InQueue, Works, CB, Legacy
<1>2. CASE ~Pop
    <2>1. queue' = queue
        BY <1>2 DEF Executor, Stop, StopNotify, Run, WaitForRequests, Step, ProcessRequest,
           Generate, Callback, Push, ReadySignal, SignalComplete, LegacyCtx
    <2>2. (ex' \in Works => ex \in Works \/ queue # <<>>) /\ (ex' = "step" => CB)
        BY <1>2 DEF Executor, Stop, StopNotify, Run, WaitForRequests, Step, ProcessRequest,
           Generate, Callback, Push, ReadySignal, SignalComplete, HasRequests, Works, QueueInv
    <2> QED BY <1>s, <2>1, <2>2 DEF QueueInv, InQueue, CB, Legacy
<1> QED BY <1>1, <1>2

\* Neither the executor nor the destructor touches what all servables share.
LEMMA ExecutorCommon ==
    ASSUME Types, QueueInv, Executor \/ Stop \/ StopNotify, NEW r \in Req
    PROVE  CommonInv(r) => CommonInv(r)'
<1>1. UNCHANGED <<servable, ask, pc, status, conn, hook, gone, sent, taken>>
    BY DEF Executor, Stop, StopNotify, Run, WaitForRequests, Step, ProcessRequest, Generate,
       Callback, Push, ReadySignal, SignalComplete, Pop, LegacyCtx, client, ctxVars
<1>2. InQueue(r)' => InQueue(r)
    BY ExecutorQueue
<1>3. ClientInv(r) => ClientInv(r)'
    BY <1>1, <1>2 DEF ClientInv, CB, Legacy
<1>4. StageInv(r) => StageInv(r)'
    BY <1>1 DEF StageInv, CB, Legacy
<1>5. SentInv(r) => SentInv(r)'
    BY <1>1 DEF SentInv, CB
<1> QED BY <1>3, <1>4, <1>5 DEF CommonInv

\* A stream that begins has no finish reason.
LEMMA ConstantsUnfinished ==
    /\ Unfinished(<<>>) /\ Unfinished(<<Created>>)
    /\ \A s \in Seq(ChunkType) : s \o <<>> = s
BY DEF Unfinished, Created, Chunk

\* Nor has one midstream.
LEMMA MidstreamUnfinished ==
    ASSUME Types, NEW r \in Req, NEW ds \in Seq(Nat), Unfinished(sent[r])
    PROVE  Unfinished(sent[r] \o Midstream(r, ds))
BY TypesAt, ChunksTyped, UnfinishedConcat, MidstreamCarries

\* A calculator sends chunks without a finish reason until its request is over.
LEMMA SentKept ==
    ASSUME Types, QueueInv, NEW r \in Req, CommonInv(r),
           Submit(r) \/ Calculator(r) \/ Disconnect(r) \/ OnDisconnected(r)
    PROVE  SentInv(r)'
<1>c. SentInv(r) /\ StageInv(r)
    BY DEF CommonInv
<1>0. SUFFICES ASSUME pc'[r] # "over" PROVE SentInv(r)'
    BY DEF SentInv
<1>s. servable' = servable
    BY DEF Submit, Calculator, Disconnect, OnDisconnected, ProcessTokenizeRequest, Load,
       ScheduleCheck, AddRequestToPipeline, RegisterDisconnectionCallback, ScheduleExecution,
       NotifyExecutorThread, NotifyUnlocked, ReadCompleteExecutionResults,
       PrepareCompleteResponse, ReadPartialExecutionResults, Read, PreparePartialResponse,
       LegacyReadComplete, FinishedWait, LegacyPrepareComplete, WaitForData, Drain,
       LegacyPartial, LegacyFinish
<1>1. CASE Submit(r)
    <2>1. /\ sent'[r] = sent[r] /\ taken'[r] = taken[r] /\ pc[r] = "idle" /\ pc'[r] = "load"
        BY <1>1, Domains DEF Submit, ctxVars
    <2> QED BY <1>c, <2>1 DEF SentInv, Before
<1>2. CASE Disconnect(r) \/ OnDisconnected(r)
    <2>1. UNCHANGED <<sent, taken, pc, ask>>
        BY <1>2 DEF Disconnect, OnDisconnected, ctxVars
    <2> QED BY <1>c, <1>s, <2>1 DEF SentInv, CB
<1>3. CASE ScheduleExecution(r) \/ NotifyExecutorThread(r)
    <2>1. /\ sent'[r] = (IF ask[r].stream /\ ask[r].uri = "responses" THEN <<Created>> ELSE <<>>)
          /\ pc'[r] = "read" /\ taken'[r] = taken[r] /\ ask'[r] = ask[r]
          /\ pc[r] \in {"add", "notify"}
        BY <1>0, <1>3, Domains DEF ScheduleExecution, NotifyExecutorThread, NotifyUnlocked,
           Scheduled, Over, ctxVars
    <2> QED BY <1>c, <2>1, ConstantsUnfinished DEF SentInv, Before
<1>4. CASE PreparePartialResponse(r)
    <2> DEFINE new == IF last[r].tok > 0 THEN Append(held[r], last[r].tok) ELSE held[r]
    <2>1. new \in Seq(Nat) /\ <<>> \in Seq(Nat)
        BY TypesAt
    <2>2. /\ ask'[r] = ask[r] /\ CB /\ ask[r].stream /\ pc[r] = "prepare" /\ pc'[r] = "read"
          /\ taken'[r] = taken[r]
          /\ \E flush \in BOOLEAN :
                sent'[r] = sent[r] \o Midstream(r, IF flush THEN new ELSE <<>>)
        BY <1>0, <1>4, Domains DEF PreparePartialResponse, Over, HandleGenerationError
    <2> HIDE DEF new
    <2>3. PICK ds \in Seq(Nat) : sent'[r] = sent[r] \o Midstream(r, ds)
        BY <2>1, <2>2
    <2>4. Unfinished(sent'[r])
        BY <1>c, <2>2, <2>3, MidstreamUnfinished DEF SentInv
    <2> QED BY <1>c, <2>2, <2>4 DEF SentInv, Before
<1>5. CASE LegacyPartial(r)
    <2>1. /\ ask'[r] = ask[r] /\ pc[r] = "drained" /\ ask[r].stream /\ Legacy
          /\ \/ pc'[r] = "finishing" /\ sent'[r] = sent[r]
             \/ pc'[r] = "read" /\ taken'[r] = <<>> /\ sent'[r] = sent[r] \o Midstream(r, taken[r])
        BY <1>c, <1>5, Domains DEF LegacyPartial, StageInv
    <2>2. Unfinished(sent[r]) /\ Unfinished(sent[r] \o Midstream(r, taken[r]))
        BY <1>c, <2>1, TypesAt, MidstreamUnfinished DEF SentInv
    <2> QED BY <1>c, <1>s, <2>1, <2>2 DEF SentInv, Before, CB, Legacy
<1>6. CASE ReadCompleteExecutionResults(r) \/ Drain(r)
    <2>1. /\ ask'[r] = ask[r] /\ sent'[r] = sent[r] /\ pc[r] \in {"read", "prepare"}
          /\ ~(CB /\ ask[r].stream)
          /\ pc'[r] = "drained" \/ (pc'[r] = "prepare" /\ CB /\ ~ask[r].stream)
        BY <1>0, <1>6, Domains DEF ReadCompleteExecutionResults, Drain, Over, Legacy
    <2> QED BY <1>c, <1>s, <2>1 DEF SentInv, Before, CB
<1>7. CASE ~ \/ Submit(r) \/ Disconnect(r) \/ OnDisconnected(r)
             \/ ScheduleExecution(r) \/ NotifyExecutorThread(r)
             \/ PreparePartialResponse(r) \/ LegacyPartial(r)
             \/ ReadCompleteExecutionResults(r) \/ Drain(r)
    <2>1. /\ ask'[r] = ask[r] /\ sent'[r] = sent[r] /\ taken'[r] = taken[r]
          /\ pc'[r] \in Before \cup {"notify"} => pc[r] \in Before \cup {"notify"}
          /\ pc[r] \in {"drained", "finishing", "prepare"} => FALSE
        BY <1>0, <1>7, Domains DEF Calculator, ProcessTokenizeRequest, Load, ScheduleCheck,
           AddRequestToPipeline, RegisterDisconnectionCallback, PrepareCompleteResponse,
           ReadPartialExecutionResults, Read, LegacyReadComplete, FinishedWait,
           LegacyPrepareComplete, WaitForData, LegacyFinish, Over, HandleGenerationError,
           Before, client, ctxVars
    <2>2. pc[r] # "over"
        BY <1>7 DEF Calculator, ProcessTokenizeRequest, Load, ScheduleCheck,
           AddRequestToPipeline, RegisterDisconnectionCallback, PrepareCompleteResponse,
           ReadPartialExecutionResults, Read, LegacyReadComplete, FinishedWait,
           LegacyPrepareComplete, WaitForData, LegacyFinish
    <2> QED BY <1>c, <1>s, <2>1, <2>2 DEF SentInv, CB
<1> QED BY <1>1, <1>2, <1>3, <1>4, <1>5, <1>6, <1>7

\* What a step of r leaves to r of its generation.
LEMMA LegacyEffects ==
    ASSUME Types, QueueInv, NEW r \in Req, CommonInv(r), OneInv(r), Legacy,
           Submit(r) \/ Calculator(r) \/ Disconnect(r) \/ OnDisconnected(r)
    PROVE  /\ gen'[r] = gen[r] /\ held'[r] = held[r] /\ ready'[r] = ready[r]
           /\ success'[r] = success[r] /\ servable' = servable
           /\ gone[r] => gone'[r]
           /\ \/ ask'[r] = ask[r]
              \/ pc[r] = "idle" /\ pc'[r] = "load" /\ chan'[r] = chan[r] /\ ask'[r] \in ProfileType
           /\ chan'[r].d \in {chan[r].d, <<>>}
           /\ pc'[r] \in Before => pc[r] \in Before
           /\ ~ask'[r].stream /\ pc'[r] = "prepare" => ready[r] /\ success[r]
<1>c. StageInv(r) /\ LegacyInv(r)
    BY DEF CommonInv, OneInv
<1>1. CASE Submit(r)
    <2>1. UNCHANGED <<gen, held, ready, success, servable, gone, chan>> /\ pc[r] = "idle" /\ pc'[r] = "load"
        BY <1>1, Domains DEF Submit, pipeVars, ctxVars
    <2>2. ask'[r] \in ProfileType
        BY <1>1, Domains, ProfilesAssumption DEF Submit
    <2> QED BY <2>1, <2>2 DEF Before
<1>2. CASE Disconnect(r)
    BY <1>2, <1>c DEF Disconnect, pipeVars, ctxVars, LegacyInv
<1>3. CASE OnDisconnected(r)
    BY <1>3, <1>c, Domains, TypesAt DEF OnDisconnected, Legacy, LegacyInv, ChannelType
<1>4. CASE ScheduleExecution(r)
    BY <1>4, Domains, TypesAt DEF ScheduleExecution, Over, Scheduled, client, pipeVars,
       ChannelType, Before
<1>5. CASE LegacyPrepareComplete(r) \/ Drain(r) \/ LegacyFinish(r)
    <2>1. UNCHANGED <<gen, held, ready, success, servable, gone, ask>>
        BY <1>5 DEF LegacyPrepareComplete, Drain, LegacyFinish, pipeVars
    <2>2. chan'[r].d \in {chan[r].d, <<>>}
        <3>1. chan' = chan \/ chan' = [chan EXCEPT ![r].d = <<>>]
            BY <1>5 DEF LegacyPrepareComplete, Drain, LegacyFinish
        <3> QED BY <3>1, Domains, TypesAt DEF ChannelType
    <2>3. pc' = [pc EXCEPT ![r] = "over"] \/ pc' = [pc EXCEPT ![r] = "drained"]
        BY <1>5 DEF LegacyPrepareComplete, Drain, LegacyFinish, Over
    <2>4. pc'[r] \in {"over", "drained"}
        BY <2>3, Domains
    <2> QED BY <2>1, <2>2, <2>4 DEF Before
<1>6. CASE FinishedWait(r)
    BY <1>6, Domains DEF FinishedWait, Over, pipeVars, ctxVars, Before
<1>7. CASE \/ ProcessTokenizeRequest(r) \/ Load(r) \/ RegisterDisconnectionCallback(r)
           \/ LegacyReadComplete(r) \/ WaitForData(r) \/ LegacyPartial(r)
    <2>1. UNCHANGED <<gen, held, ready, success, servable, gone, ask, chan>>
        BY <1>7 DEF ProcessTokenizeRequest, Load, RegisterDisconnectionCallback,
           LegacyReadComplete, WaitForData, LegacyPartial, pipeVars, ctxVars
    <2>2. pc'[r] \in Before => pc[r] \in Before
        BY <1>7, Domains DEF ProcessTokenizeRequest, Load, RegisterDisconnectionCallback,
           LegacyReadComplete, WaitForData, LegacyPartial, Before, Over
    <2>3. ~(~ask'[r].stream /\ pc'[r] = "prepare")
        BY <1>7, <2>1, Domains DEF ProcessTokenizeRequest, Load, RegisterDisconnectionCallback,
           LegacyReadComplete, WaitForData, LegacyPartial, Over
    <2> QED BY <2>1, <2>2, <2>3
<1>8. ~ \/ ScheduleCheck(r) \/ AddRequestToPipeline(r) \/ NotifyExecutorThread(r)
        \/ ReadCompleteExecutionResults(r) \/ PrepareCompleteResponse(r)
        \/ ReadPartialExecutionResults(r) \/ Read(r) \/ PreparePartialResponse(r)
    BY <1>c DEF ScheduleCheck, AddRequestToPipeline, NotifyExecutorThread, NotifyUnlocked,
       ReadCompleteExecutionResults, PrepareCompleteResponse, ReadPartialExecutionResults,
       Read, PreparePartialResponse, StageInv, Legacy
<1> QED BY <1>1, <1>2, <1>3, <1>4, <1>5, <1>6, <1>7, <1>8 DEF Calculator

\* Lengths of generations.
LEMMA TotalTyped ==
    ASSUME Types, NEW r \in Req
    PROVE  Total(r) \in Nat /\ ask[r].len \in Nat
<1>1. ask[r] \in ProfileType
    BY DEF Types, ClientType
<1> QED BY <1>1 DEF Total, ProfileType

\* The calculator and the client keep the invariant of a request in the queue,
LEMMA LegacyKept ==
    ASSUME Types, Types', QueueInv, NEW r \in Req, CommonInv(r), OneInv(r), Legacy,
           Submit(r) \/ Calculator(r) \/ Disconnect(r) \/ OnDisconnected(r)
    PROVE  LegacyInv(r)' /\ WorkInv(r)'
<1>c. ClientInv(r) /\ LegacyInv(r) /\ WorkInv(r)
    BY DEF CommonInv, OneInv
<1>e. /\ gen'[r] = gen[r] /\ held'[r] = held[r] /\ ready'[r] = ready[r]
      /\ success'[r] = success[r] /\ servable' = servable /\ (gone[r] => gone'[r])
      /\ chan'[r].d \in {chan[r].d, <<>>} /\ (pc'[r] \in Before => pc[r] \in Before)
      /\ ~ask'[r].stream /\ pc'[r] = "prepare" => ready[r] /\ success[r]
    BY LegacyEffects
<1>q. \/ Still(r)
      \/ ~WorksOn(r) /\ ~WorksOn(r)' /\ pc[r] \in Before
    <2>1. CASE ScheduleExecution(r) /\ conn[r]
        BY <1>c, <2>1, QueueAfter DEF ScheduleExecution, Before
    <2>2. CASE ~(ScheduleExecution(r) /\ conn[r])
        BY <1>c, <2>2, QueueAfter
    <2> QED BY <2>1, <2>2
<1>i. ASSUME ~InQueue(r) PROVE ~WorksOn(r)
    <2>1. queue \in Seq(Req)
        BY DEF Types, PipeType
    <2>2. queue # <<>> => 1 \in 1..Len(queue) /\ Head(queue) = queue[1]
        BY <2>1
    <2> QED BY <1>i, <2>2 DEF InQueue, WorksOn, Front
<1>f. Fresh(r) => Fresh(r)'
    BY <1>e DEF Fresh
<1>1. CASE ask'[r] = ask[r]
    <2>1. Total(r)' = Total(r) /\ (Ended(r) => Ended(r)')
        BY <1>e, <1>1 DEF Total, Ended
    <2>2. LegacyInv(r)'
        <3>1. gen'[r].made <= Total(r)'
            BY <1>c, <1>e, <2>1 DEF LegacyInv
        <3>2. \A i \in 1..Len(chan'[r].d) : chan'[r].d[i] <= gen'[r].made
            BY <1>c, <1>e DEF LegacyInv
        <3>3. \A i \in 1..Len(held'[r]) : held'[r][i] <= gen'[r].made
            BY <1>c, <1>e DEF LegacyInv
        <3>4. pc'[r] \in Before => ~ready'[r]
            BY <1>c, <1>e DEF LegacyInv
        <3>5. ~ready'[r] /\ ~WorksOn(r)' => Fresh(r)'
            BY <1>c, <1>e, <1>q, <1>f DEF LegacyInv, Still
        <3>6. ready'[r] => Ended(r)' /\ (InQueue(r)' => WorksOn(r)' /\ ex' \in {"complete", "pop"})
            BY <1>c, <1>e, <1>q, <2>1 DEF LegacyInv, Still
        <3>7. ~ask'[r].stream /\ pc'[r] = "prepare" => ready'[r] /\ success'[r]
            BY <1>e
        <3> QED BY <3>1, <3>2, <3>3, <3>4, <3>5, <3>6, <3>7 DEF LegacyInv
    <2>3. WorkInv(r)'
        BY <1>c, <1>e, <1>q, <2>1 DEF WorkInv, Still
    <2> QED BY <2>2, <2>3
<1>2. CASE ask'[r] # ask[r]
    <2>1. /\ pc[r] = "idle" /\ pc'[r] = "load" /\ chan'[r].d = chan[r].d
        BY <1>2, LegacyEffects
    <2>2. ~ready[r] /\ ~InQueue(r) /\ ~WorksOn(r) /\ Fresh(r)
        BY <1>c, <1>i, <2>1 DEF LegacyInv, ClientInv, Before
    <2>3. Fresh(r)' /\ ~WorksOn(r)' /\ ~ready'[r]
        BY <1>e, <1>f, <1>q, <2>2 DEF Still
    <2>4. Total(r)' \in Nat
        <3>1. ask'[r] \in ProfileType
            BY <1>2, LegacyEffects
        <3> QED BY <3>1 DEF Total, ProfileType
    <2>5. LegacyInv(r)'
        BY <1>e, <2>1, <2>3, <2>4 DEF LegacyInv, Fresh, Idle
    <2> QED BY <2>3, <2>5 DEF WorkInv
<1> QED BY <1>1, <1>2

\* Nothing is carried by no chunk, and by the one that begins a stream.
LEMMA EmptyCarries ==
    ASSUME NEW a \in Nat
    PROVE  /\ Carries(<<>>, a, a)
           /\ Carries(Deltas(<<>>), a, a) /\ Carries(Deltas(<<Created>>), a, a)
           /\ Carries(Deltas(<<Failed, Done>>), a, a)
<1>1. Created.d <= 0 /\ Failed.d <= 0 /\ Done.d <= 0
    BY DEF Created, Failed, Done, Chunk
<1>2. /\ \A i \in 1..Len(<<>>) : <<>>[i] <= 0
      /\ \A i \in 1..Len(<<Created>>) : <<Created>>[i].d <= 0
      /\ \A i \in 1..Len(<<Failed, Done>>) : <<Failed, Done>>[i].d <= 0
    BY <1>1
<1>3. <<>> \in Seq(Int) /\ Len(Deltas(<<>>)) = 0
    BY DEF Deltas
<1>4. ASSUME NEW s \in Seq(ChunkType), \A i \in 1..Len(s) : s[i].d <= 0
      PROVE  Carries(Deltas(s), a, a)
    BY <1>4, DeltasTyped, CarriesNothing
<1>5. Carries(<<>>, a, a)
    BY <1>2, <1>3, CarriesNothing
<1>6. \A i \in 1..Len(<<>>) : <<>>[i].d <= 0
    OBVIOUS
<1> QED BY <1>2, <1>4, <1>5, <1>6, ChunkConstants

\* What no chunk has carried is nothing.
LEMMA NoneSent ==
    ASSUME NEW a \in Nat, NEW b \in Nat, a <= b, Carries(Deltas(<<>>), a, b)
    PROVE  a = b
<1>1. Deltas(<<>>) = <<>>
    BY DEF Deltas
<1> QED BY <1>1, NoneCarried

\* that of its tokens,
LEMMA ChainKept ==
    ASSUME Types, QueueInv, NEW r \in Req, CommonInv(r), OneInv(r), Legacy,
           Submit(r) \/ Calculator(r) \/ Disconnect(r) \/ OnDisconnected(r)
    PROVE  ChainInv(r)'
<1>c. StageInv(r) /\ SentInv(r) /\ ChainInv(r)
    BY DEF CommonInv, OneInv
<1>0. SUFFICES ASSUME pc'[r] # "over" PROVE ChainInv(r)'
    BY DEF ChainInv
<1>e. gen'[r] = gen[r] /\ held'[r] = held[r]
    BY LegacyEffects
<1>n. pc[r] # "over"
    <2>1. CASE Calculator(r)
        BY <2>1 DEF Calculator, ProcessTokenizeRequest, Load, ScheduleCheck,
           AddRequestToPipeline, RegisterDisconnectionCallback, ScheduleExecution,
           NotifyExecutorThread, NotifyUnlocked, ReadCompleteExecutionResults,
           PrepareCompleteResponse, ReadPartialExecutionResults, Read, PreparePartialResponse,
           LegacyReadComplete, FinishedWait, LegacyPrepareComplete, WaitForData, Drain,
           LegacyPartial, LegacyFinish
    <2>2. CASE Submit(r) \/ Disconnect(r) \/ OnDisconnected(r)
        BY <1>0, <2>2 DEF Submit, Disconnect, OnDisconnected
    <2> QED BY <2>1, <2>2
<1> DEFINE n == gen[r].made
<1>t. n \in Nat
    BY TypesAt
<1>a. PICK a \in 0..n, b \in 0..n, c \in 0..n :
          /\ a <= b /\ b <= c
          /\ Carries(Deltas(sent[r]), 0, a) /\ Carries(taken[r], a, b)
          /\ Carries(chan[r].d, b, c) /\ Carries(held[r], c, n)
    BY <1>c, <1>n DEF ChainInv
<1>h. n' = n
    BY <1>e
<1> HIDE DEF n
<1>w. ASSUME NEW x \in 0..n, NEW y \in 0..n, NEW z \in 0..n, x <= y, y <= z,
             Carries(Deltas(sent'[r]), 0, x), Carries(taken'[r], x, y),
             Carries(chan'[r].d, y, z), Carries(held'[r], z, n)
      PROVE  ChainInv(r)'
    BY <1>w, <1>h DEF ChainInv, n
<1>1. CASE ScheduleExecution(r)
    <2>1. /\ sent[r] = <<>> /\ sent'[r] \in {<<>>, <<Created>>}
          /\ taken'[r] = taken[r] /\ chan'[r] = chan[r]
        BY <1>0, <1>1, <1>c, Domains DEF ScheduleExecution, Scheduled, Over, SentInv, Before
    <2>2. a = 0
        BY <1>a, <1>t, <2>1, NoneSent
    <2> QED BY <1>a, <1>e, <1>w, <2>1, <2>2, EmptyCarries
<1>2. CASE Drain(r)
    <2>1. /\ taken[r] = <<>> /\ taken'[r] = chan[r].d /\ chan'[r].d = <<>>
          /\ sent'[r] = sent[r]
        BY <1>0, <1>2, <1>c, Domains, TypesAt DEF Drain, Over, SentInv, Legacy, ChannelType
    <2>2. a = b
        BY <1>a, <1>t, <2>1, NoneCarried
    <2>3. c \in Nat
        BY <1>t
    <2> QED BY <1>a, <1>e, <1>w, <2>1, <2>2, <2>3, EmptyCarries
<1>3. CASE LegacyPartial(r) /\ ~chan[r].c
    <2>1. /\ sent'[r] = sent[r] \o Midstream(r, taken[r]) /\ taken'[r] = <<>>
          /\ chan'[r] = chan[r]
        BY <1>3, Domains DEF LegacyPartial
    <2>2. a \in Nat /\ b \in Nat /\ 0 <= a
        BY <1>t
    <2>3. Carries(Deltas(Midstream(r, taken[r])), a, b)
        BY <1>a, <2>2, TypesAt, MidstreamCarries
    <2>4. Carries(Deltas(sent'[r]), 0, b)
        BY <1>a, <2>1, <2>2, <2>3, TypesAt, ChunksTyped, SentConcat
    <2> QED BY <1>a, <1>e, <1>w, <2>1, <2>2, <2>4, EmptyCarries
<1>4. CASE ~ \/ ScheduleExecution(r) \/ Drain(r) \/ (LegacyPartial(r) /\ ~chan[r].c)
    <2>1. sent'[r] = sent[r] /\ taken'[r] = taken[r] /\ chan'[r].d = chan[r].d
        <3>1. CASE Submit(r) \/ Disconnect(r)
            BY <3>1 DEF Submit, Disconnect, ctxVars
        <3>2. CASE OnDisconnected(r)
            <4>1. chan' = chan \/ chan' = [chan EXCEPT ![r].c = TRUE]
                BY <3>2 DEF OnDisconnected
            <4> QED BY <3>2, <4>1, Domains, TypesAt DEF OnDisconnected, ChannelType
        <3>3. CASE Calculator(r)
            BY <1>0, <1>4, <1>c, <3>3, Domains DEF Calculator, ProcessTokenizeRequest, Load,
               ScheduleCheck, AddRequestToPipeline, RegisterDisconnectionCallback,
               NotifyExecutorThread, NotifyUnlocked, ReadCompleteExecutionResults,
               PrepareCompleteResponse, ReadPartialExecutionResults, Read,
               PreparePartialResponse, LegacyReadComplete, FinishedWait,
               LegacyPrepareComplete, WaitForData, LegacyPartial, LegacyFinish, Over,
               StageInv, Legacy, ctxVars
        <3> QED BY <3>1, <3>2, <3>3
    <2> QED BY <1>a, <1>e, <1>w, <2>1
<1> QED BY <1>1, <1>2, <1>3, <1>4

\* An answer in one piece.
LEMMA WholeCarried ==
    ASSUME NEW ds \in Seq(Nat), NEW a, NEW b, Carries(ds, a, b),
           NEW s, s = [i \in 1..Len(ds) |-> Chunk(ds[i], FALSE)]
    PROVE  Carries(Deltas(s), a, b)
<1>1. Len(ds) \in Nat /\ ds \in Seq(Int)
    OBVIOUS
<1>2. s \in Seq(ChunkType)
    BY ChunksOf
<1>3. Len(s) = Len(ds)
    BY <1>1
<1>4. \A i \in 1..Len(s) : s[i].d = ds[i]
    BY <1>1, <1>3 DEF Chunk
<1> QED BY <1>1, <1>2, <1>3, <1>4, CarriesSame

\* A request that fails to load ends with an error.
LEMMA LoadFails ==
    ASSUME Types, NEW r \in Req, Load(r), pc'[r] = "over"
    PROVE  status'[r] # "ok"
<1> DEFINE bad == {i \in 1..4 : Verdicts(r)[i] # "ok"}
           first == CHOOSE i \in bad : \A j \in bad : i <= j
<1>1. CASE bad = {}
    BY <1>1, Domains DEF Load
<1>2. CASE bad # {}
    <2>1. first \in bad
        <3>1. \E i \in bad : \A j \in bad : i <= j
            <4>1. CASE 1 \in bad BY <4>1
            <4>2. CASE 1 \notin bad /\ 2 \in bad BY <4>2
            <4>3. CASE 1 \notin bad /\ 2 \notin bad /\ 3 \in bad BY <4>3
            <4>4. CASE 1 \notin bad /\ 2 \notin bad /\ 3 \notin bad /\ 4 \in bad BY <4>4
            <4> QED BY <1>2, <4>1, <4>2, <4>3, <4>4
        <3> QED BY <3>1
    <2>2. status' = [status EXCEPT ![r] = Verdicts(r)[first]]
        BY <1>2 DEF Load, Over
    <2>3. Verdicts(r)[first] # "ok"
        BY <2>1
    <2> HIDE DEF first
    <2> QED BY <2>2, <2>3, Domains
<1> QED BY <1>1, <1>2

\* How a request of the generation servables ends.
LEMMA OverKept ==
    ASSUME Types, QueueInv, NEW r \in Req, CommonInv(r), OneInv(r), Legacy,
           Submit(r) \/ Calculator(r) \/ Disconnect(r) \/ OnDisconnected(r)
    PROVE  OverInv(r)'
<1>c. ClientInv(r) /\ StageInv(r) /\ SentInv(r) /\ LegacyInv(r) /\ ChainInv(r) /\ OverInv(r)
    BY DEF CommonInv, OneInv
<1>0. SUFFICES ASSUME pc'[r] = "over" PROVE OverInv(r)'
    BY DEF OverInv
<1>e. gen'[r] = gen[r] /\ held'[r] = held[r] /\ ready'[r] = ready[r]
      /\ success'[r] = success[r] /\ servable' = servable
    BY LegacyEffects
<1>1. CASE Submit(r) \/ Disconnect(r)
    BY <1>0, <1>1, Domains DEF Submit, Disconnect
<1>2. CASE OnDisconnected(r)
    <2>1. UNCHANGED <<ask, pc, status, conn, sent>>
        BY <1>2 DEF OnDisconnected
    <2> QED BY <1>c, <1>e, <2>1 DEF OverInv, Total
<1>3. CASE Calculator(r)
    <2> DEFINE n == gen[r].made
    <2>n. /\ pc[r] # "over" /\ ask'[r] = ask[r] /\ Total(r)' = Total(r) /\ conn'[r] = conn[r]
        BY <1>3, <1>e DEF Calculator, ProcessTokenizeRequest, Load, ScheduleCheck,
           AddRequestToPipeline, RegisterDisconnectionCallback, ScheduleExecution,
           NotifyExecutorThread, NotifyUnlocked, ReadCompleteExecutionResults,
           PrepareCompleteResponse, ReadPartialExecutionResults, Read, PreparePartialResponse,
           LegacyReadComplete, FinishedWait, LegacyPrepareComplete, WaitForData, Drain,
           LegacyPartial, LegacyFinish, Total, client
    <2>t. n \in Nat
        BY TypesAt
    <2>a. PICK a \in 0..n, b \in 0..n, c \in 0..n :
              /\ a <= b /\ b <= c
              /\ Carries(Deltas(sent[r]), 0, a) /\ Carries(taken[r], a, b)
              /\ Carries(chan[r].d, b, c) /\ Carries(held[r], c, n)
        BY <1>c, <2>n DEF ChainInv
    <2> HIDE DEF n
    <2>u. a \in Nat /\ b \in Nat /\ c \in Nat /\ 0 <= a
        BY <2>t
    <2>f. ready[r] /\ success[r] /\ conn[r] =>
              gen[r].st = "FINISHED" /\ n = Total(r) /\ c = n
        <3>1. ready[r] /\ success[r] /\ conn[r] =>
                  gen[r].st = "FINISHED" /\ n = Total(r) /\ held[r] = <<>>
            BY <1>c DEF LegacyInv, Ended, ClientInv, n
        <3>2. ASSUME held[r] = <<>> PROVE c = n
            <4>1. Carries(<<>>, c, n) /\ c \in Nat /\ c <= n
                BY <2>a, <2>t, <3>2
            <4> QED BY <2>t, <4>1, NoneCarried
        <3> QED BY <3>1, <3>2
    <2>1. CASE LegacyPrepareComplete(r) /\ conn[r]
        <3>1. /\ sent'[r] = [i \in 1..Len(chan[r].d) |-> Chunk(chan[r].d[i], FALSE)]
              /\ ~ask[r].stream /\ pc[r] = "prepare"
            BY <2>1, Domains DEF LegacyPrepareComplete
        <3>2. sent[r] = <<>> /\ taken[r] = <<>> /\ ready[r] /\ success[r]
            BY <1>c, <3>1 DEF SentInv, LegacyInv, Legacy
        <3>3. a = 0 /\ b = 0
            BY <2>a, <2>u, <3>2, NoneSent, NoneCarried
        <3>4. gen[r].st = "FINISHED" /\ n = Total(r) /\ c = n
            BY <2>1, <2>f, <3>2
        <3>5. Carries(Deltas(sent'[r]), 0, n)
            <4>1. chan[r].d \in Seq(Nat) /\ Carries(chan[r].d, 0, n)
                BY <2>a, <3>3, <3>4, TypesAt
            <4> QED BY <3>1, <4>1, WholeCarried
        <3>6. n \in 0..n
            BY <2>t
        <3> QED BY <1>e, <2>n, <3>1, <3>2, <3>4, <3>5, <3>6 DEF OverInv, n
    <2>2. CASE LegacyFinish(r) /\ success[r]
        <3> DEFINE ds == taken[r] \o chan[r].d
        <3>1. sent'[r] = sent[r] \o LastChunks(r, ds) /\ ready[r] /\ pc[r] = "finishing"
            BY <2>2, Domains DEF LegacyFinish
        <3>2. ask[r].stream /\ Unfinished(sent[r])
            BY <1>c, <3>1 DEF StageInv, SentInv
        <3>3. ds \in Seq(Nat) /\ Carries(ds, a, c)
            BY <2>a, <2>u, TypesAt, CarriesConcat
        <3> HIDE DEF ds
        <3>4. /\ Carries(Deltas(LastChunks(r, ds)), a, c) /\ a <= c
              /\ EndsWell(LastChunks(r, ds), ask[r].usage)
            BY <2>a, <2>u, <3>3, LastChunksCarry
        <3>5. Carries(Deltas(sent'[r]), 0, c)
            BY <2>a, <2>u, <3>1, <3>3, <3>4, TypesAt, ChunksTyped, SentConcat
        <3>6. EndsWell(sent'[r], ask[r].usage)
            <4>1. ask[r].usage \in BOOLEAN
                BY DEF Types, ClientType, ProfileType
            <4> QED BY <3>1, <3>2, <3>3, <3>4, <4>1, TypesAt, ChunksTyped, EndsAfter
        <3>7. conn[r] => gen[r].st = "FINISHED" /\ n = Total(r) /\ c = n
            BY <2>2, <2>f, <3>1
        <3> QED BY <1>e, <2>2, <2>n, <3>1, <3>2, <3>5, <3>6, <3>7 DEF OverInv, n
    <2>3. CASE ~ (LegacyPrepareComplete(r) /\ conn[r]) /\ ~(LegacyFinish(r) /\ success[r])
        <3>1. sent'[r] = sent[r]
            BY <1>0, <2>3, <1>3, <1>c, Domains DEF Calculator, ProcessTokenizeRequest, Load,
               ScheduleCheck, AddRequestToPipeline, RegisterDisconnectionCallback,
               ScheduleExecution, NotifyExecutorThread, NotifyUnlocked,
               ReadCompleteExecutionResults, PrepareCompleteResponse,
               ReadPartialExecutionResults, Read, PreparePartialResponse, LegacyReadComplete,
               FinishedWait, LegacyPrepareComplete, WaitForData, Drain, LegacyPartial,
               LegacyFinish, Over, Scheduled, StageInv, Legacy, ctxVars
        <3>2. status'[r] = "ok" => ask[r].uri = "tokenize"
            <4>1. CASE Load(r)
                BY <1>0, <4>1, LoadFails
            <4>2. CASE ~Load(r)
                BY <1>0, <2>3, <1>3, <1>c, <4>2, Domains DEF Calculator, ProcessTokenizeRequest,
                   ScheduleCheck, AddRequestToPipeline, RegisterDisconnectionCallback,
                   ScheduleExecution, NotifyExecutorThread, NotifyUnlocked,
                   ReadCompleteExecutionResults, PrepareCompleteResponse,
                   ReadPartialExecutionResults, Read, PreparePartialResponse,
                   LegacyReadComplete, FinishedWait, LegacyPrepareComplete, WaitForData,
                   Drain, LegacyPartial, LegacyFinish, Over, Scheduled, StageInv, Legacy
            <4> QED BY <4>1, <4>2
        <3> QED BY <1>e, <2>a, <2>n, <3>1, <3>2 DEF OverInv, n
    <2> QED BY <2>1, <2>2, <2>3
<1> QED BY <1>1, <1>2, <1>3

Serves ==
    ProcessRequest \/ Generate \/ Callback \/ Push \/ ReadySignal \/ SignalComplete \/ Pop

\* The executor of the generation servables works on the front of its queue.
LEMMA ServesFront ==
    ASSUME Types, QueueInv, Serves
    PROVE  Front \in Req /\ Front = queue[1] /\ queue # <<>> /\ Len(queue) \in Nat /\ Len(queue) >= 1
<1>1. queue \in Seq(Req)
    BY DEF Types, PipeType
<1>2. ex \in Works
    BY DEF Serves, ProcessRequest, Generate, Callback, Push, ReadySignal, SignalComplete, Pop,
       Works
<1>3. queue # <<>>
    BY <1>2 DEF QueueInv
<1> QED BY <1>1, <1>3 DEF Front

\* It touches no other request, and pops this one at the end.
LEMMA ServesOthers ==
    ASSUME Types, QueueInv, Serves, NEW f \in Req, f = Front
    PROVE  /\ InQueue(f) /\ Legacy /\ servable' = servable
           /\ ex = "front" \/ WorksOn(f)
           /\ \A q \in Req \ {f} : Same(q) /\ Still(q)
           /\ ~Pop => queue' = queue /\ InQueue(f)' /\ (ex' \in Works \ {"front"} => WorksOn(f)')
           /\ Pop => ~InQueue(f)' /\ ~WorksOn(f)'
<1>t. queue \in Seq(Req)
    BY DEF Types, PipeType
<1>1. ex \in Works /\ servable' = servable /\ (ex = "pop" <=> Pop)
    BY DEF Serves, ProcessRequest, Generate, Callback, Push, ReadySignal, SignalComplete, Pop,
       LegacyCtx, Works
<1>2. queue # <<>> /\ Legacy
    BY <1>1 DEF QueueInv
<1>3. /\ Len(queue) \in Nat /\ Len(queue) >= 1 /\ f = queue[1]
    BY ServesFront
<1>4. InQueue(f) /\ (ex = "front" \/ WorksOn(f))
    BY <1>1, <1>2, <1>3 DEF InQueue, WorksOn
<1>5. ~Pop => queue' = queue
    BY DEF Serves, ProcessRequest, Generate, Callback, Push, ReadySignal, SignalComplete,
       LegacyCtx
<1>6. ~Pop => InQueue(f)' /\ (ex' \in Works \ {"front"} => WorksOn(f)')
    BY <1>2, <1>4, <1>5 DEF InQueue, WorksOn, Front
<1>7. ASSUME Pop
      PROVE  ~InQueue(f)' /\ ~WorksOn(f)' /\ \A q \in Req \ {f} : InQueue(q)' = InQueue(q)
    <2>1. queue' = Tail(queue) /\ ex' = "top"
        BY <1>7 DEF Pop
    <2>2. Len(queue') = Len(queue) - 1 /\ \A i \in 1..Len(queue') : queue'[i] = queue[i + 1]
        BY <1>t, <1>2, <2>1
    <2>3. ~InQueue(f)'
        <3>1. ASSUME NEW i \in 1..Len(queue'), queue'[i] = f PROVE FALSE
            <4>1. i + 1 \in 1..Len(queue) /\ queue[i + 1] = queue[1] /\ 1 \in 1..Len(queue)
                BY <1>3, <2>2, <3>1
            <4>2. i + 1 = 1
                BY <4>1 DEF QueueInv
            <4> QED BY <2>2, <4>2
        <3> QED BY <3>1 DEF InQueue
    <2>4. ASSUME NEW q \in Req \ {f} PROVE InQueue(q)' <=> InQueue(q)
        <3>1. ASSUME NEW i \in 1..Len(queue), queue[i] = q
              PROVE  i - 1 \in 1..Len(queue') /\ queue'[i - 1] = q
            <4>1. i # 1
                BY <1>3, <3>1
            <4>2. i - 1 \in 1..Len(queue') /\ (i - 1) + 1 = i
                BY <1>3, <2>2, <4>1
            <4> QED BY <2>2, <3>1, <4>2
        <3>2. ASSUME NEW i \in 1..Len(queue'), queue'[i] = q
              PROVE  i + 1 \in 1..Len(queue) /\ queue[i + 1] = q
            BY <1>3, <2>2, <3>2
        <3> QED BY <3>1, <3>2 DEF InQueue
    <2> QED BY <2>1, <2>3, <2>4 DEF WorksOn, Works, InQueue
<1>8. ASSUME NEW q \in Req \ {f} PROVE Same(q) /\ Still(q)
    <2>0. q # f
        OBVIOUS
    <2>1. Same(q)
        <3>1. UNCHANGED <<ask, pc, status, conn, hook, out, last, taken, sent, gone>>
            BY DEF Serves, ProcessRequest, Generate, Callback, Push, ReadySignal,
               SignalComplete, Pop, LegacyCtx, client, pipeVars, ctxVars
        <3>2. /\ gen'[q] = gen[q] /\ held'[q] = held[q] /\ chan'[q] = chan[q]
              /\ ready'[q] = ready[q] /\ success'[q] = success[q]
            BY <2>0, Domains DEF Serves, ProcessRequest, Generate, Callback, Push,
               ReadySignal, SignalComplete, Pop, pipeVars, ctxVars
        <3> QED BY <3>1, <3>2 DEF Same
    <2>2. ~WorksOn(q) /\ ~WorksOn(q)'
        <3>1. CASE Pop
            BY <2>0, <3>1 DEF Pop, WorksOn, Works
        <3>2. CASE ~Pop
            BY <2>0, <1>5, <3>2 DEF WorksOn, Front
        <3> QED BY <3>1, <3>2
    <2>3. InQueue(q)' = InQueue(q)
        BY <1>5, <1>7 DEF InQueue
    <2> QED BY <1>1, <2>1, <2>2, <2>3 DEF Still, WorksOn
<1> QED BY <1>1, <1>2, <1>3, <1>4, <1>5, <1>6, <1>7, <1>8

\* What the executor does to the request it works on.
LEMMA ServesEffects ==
    ASSUME Types, QueueInv, Serves, NEW f \in Req, f = Front
    PROVE  /\ UNCHANGED <<servable, ask, pc, status, conn, gone, taken, sent>>
           /\ Total(f)' = Total(f)
           /\ ~Push => chan'[f].d = chan[f].d
           /\ Generate \/ Push \/ held'[f] = held[f]
           /\ ReadySignal \/ ready'[f] = ready[f]
<1>1. UNCHANGED <<servable, ask, pc, status, conn, gone, taken, sent>>
    BY DEF Serves, ProcessRequest, Generate, Callback, Push, ReadySignal, SignalComplete, Pop,
       LegacyCtx, client, ctxVars
<1>2. Total(f)' = Total(f)
    BY <1>1 DEF Total
<1>3. ASSUME ~Push PROVE chan'[f].d = chan[f].d
    <2>1. chan' = chan \/ chan' = [chan EXCEPT ![f].c = TRUE]
        BY <1>3 DEF Serves, ProcessRequest, Generate, Callback, ReadySignal, SignalComplete,
           Pop, ctxVars
    <2> QED BY <2>1, Domains, TypesAt DEF ChannelType
<1>4. Generate \/ Push \/ held' = held
    BY DEF Serves, ProcessRequest, Callback, ReadySignal, SignalComplete, Pop, ctxVars
<1>5. ReadySignal \/ ready' = ready
    BY DEF Serves, ProcessRequest, Generate, Callback, Push, SignalComplete, Pop, ctxVars
<1> QED BY <1>1, <1>2, <1>3, <1>4, <1>5

\* The executor keeps the invariant of the request it works on.
LEMMA ServesKept ==
    ASSUME Types, Types', QueueInv, Serves, NEW f \in Req, f = Front, CommonInv(f), OneInv(f)
    PROVE  OneInv(f)'
<1>c. ClientInv(f) /\ LegacyInv(f) /\ WorkInv(f) /\ ChainInv(f) /\ OverInv(f)
    BY DEF CommonInv, OneInv
<1>e. /\ UNCHANGED <<servable, ask, pc, status, conn, gone, taken, sent>>
      /\ Total(f)' = Total(f) /\ (~Push => chan'[f].d = chan[f].d)
      /\ (Generate \/ Push \/ held'[f] = held[f]) /\ (ReadySignal \/ ready'[f] = ready[f])
    BY ServesEffects
<1>q. /\ InQueue(f) /\ (ex = "front" \/ WorksOn(f))
      /\ ~Pop => InQueue(f)' /\ (ex' \in Works \ {"front"} => WorksOn(f)')
      /\ Pop => ~InQueue(f)' /\ ~WorksOn(f)'
    BY ServesOthers
<1>t. gen[f].made \in Nat /\ Total(f) \in Nat
    BY TypesAt, TotalTyped
<1>n. pc[f] \notin Before
    BY <1>c, <1>q DEF ClientInv
<1> DEFINE n == gen[f].made
\* An invariant of a request that is not ready, and stays so.
<1>o. ASSUME ~ready[f], gen'[f].made = n \/ gen'[f].made = n + 1
      PROVE  OverInv(f)'
    <2>1. 0..n \subseteq 0..gen'[f].made
        BY <1>t, <1>o
    <2> QED BY <1>c, <1>e, <1>o, <2>1 DEF OverInv
<1>h. ASSUME gen'[f].made = n, held'[f] = held[f], ~Push PROVE ChainInv(f)'
    BY <1>c, <1>e, <1>h DEF ChainInv
<1>1. CASE ProcessRequest
    <2>1. /\ ex = "front" /\ ~Push /\ ~Pop
          /\ \/ /\ success'[f] = FALSE /\ ex' = "signal" /\ gen'[f] = gen[f]
             \/ /\ gen'[f].st = "RUNNING" /\ gen'[f].made = 0
                /\ ex' = "generate" /\ success'[f] = success[f]
          /\ ready'[f] = ready[f] /\ held'[f] = held[f]
        BY <1>1, Domains DEF ProcessRequest, Push, Pop
    <2>2. ~WorksOn(f) /\ WorksOn(f)'
        BY <1>q, <2>1 DEF WorksOn, Works
    <2>3. ~ready[f] /\ gen[f].made = 0 /\ held[f] = <<>> /\ chan[f].d = <<>> /\ success[f]
        BY <1>c, <1>q, <2>2 DEF LegacyInv, Fresh, Idle
    <2>4. gen'[f].made = n
        BY <2>1, <2>3
    <2>5. LegacyInv(f)'
        BY <1>c, <1>e, <1>t, <2>1, <2>2, <2>3, <2>4 DEF LegacyInv
    <2>6. WorkInv(f)'
        BY <2>1, <2>3 DEF WorkInv, Ended
    <2> QED BY <1>h, <1>o, <2>1, <2>3, <2>4, <2>5, <2>6 DEF OneInv
<1>2. CASE Generate
    <2>0. /\ ex = "generate" /\ ~Push /\ ~Pop /\ ~ReadySignal /\ ex' \in {"generate", "callback", "signal"}
          /\ ready'[f] = ready[f]
        BY <1>2, Domains DEF Generate, Push, Pop, ReadySignal
    <2>1. WorksOn(f) /\ WorksOn(f)'
        BY <1>q, <2>0 DEF WorksOn, Works
    <2>2. gen[f].st = "RUNNING" /\ success[f] /\ ~ready[f]
        BY <1>c, <2>0, <2>1 DEF WorkInv
    <2>3. \/ /\ n + 1 <= Total(f) /\ gen'[f].made = n + 1 /\ gen'[f].st = gen[f].st
             /\ held'[f] = Append(held[f], n + 1) /\ ex' \in {"generate", "callback"}
             /\ success'[f] = success[f]
          \/ /\ n = Total(f) /\ gen'[f].made = n /\ gen'[f].st = "FINISHED"
             /\ held'[f] = held[f] /\ ex' = "callback" /\ success'[f] = success[f]
          \/ /\ gen'[f].made = n /\ held'[f] = held[f] /\ ex' = "signal" /\ ~success'[f]
        BY <1>2, Domains, TypesAt DEF Generate, GenType
    <2>4. LegacyInv(f)'
        <3>1. gen'[f].made <= Total(f)'
            BY <1>c, <1>e, <1>t, <2>3 DEF LegacyInv
        <3>2. \A i \in 1..Len(chan'[f].d) : chan'[f].d[i] <= gen'[f].made
            <4>1. \A i \in 1..Len(chan[f].d) : chan[f].d[i] \in Nat /\ chan[f].d[i] <= n
                BY <1>c, TypesAt DEF LegacyInv
            <4> QED BY <1>e, <1>t, <2>0, <2>3, <4>1
        <3>3. \A i \in 1..Len(held'[f]) : held'[f][i] <= gen'[f].made
            <4>1. held[f] \in Seq(Nat) /\ \A i \in 1..Len(held[f]) : held[f][i] <= n
                BY <1>c, TypesAt DEF LegacyInv
            <4>2. ASSUME held'[f] = Append(held[f], n + 1), NEW i \in 1..Len(held'[f])
                  PROVE  held'[f][i] <= n + 1
                <5>1. (i \in 1..Len(held[f]) /\ held'[f][i] = held[f][i]) \/ held'[f][i] = n + 1
                    BY <4>1, <4>2
                <5> QED BY <1>t, <4>1, <5>1, TypesAt
            <4> QED BY <2>3, <4>1, <4>2
        <3> QED BY <1>c, <1>e, <1>n, <2>0, <2>1, <2>2, <3>1, <3>2, <3>3 DEF LegacyInv
    <2>5. WorkInv(f)'
        BY <1>e, <2>0, <2>2, <2>3 DEF WorkInv, Ended
    <2>6. ChainInv(f)'
        <3>1. CASE held'[f] = held[f] /\ gen'[f].made = n
            BY <1>h, <2>0, <3>1
        <3>2. CASE held'[f] = Append(held[f], n + 1) /\ gen'[f].made = n + 1
            <4>1. ASSUME NEW c \in 0..n, Carries(held[f], c, n)
                  PROVE  Carries(held'[f], c, n + 1)
                BY <1>t, <3>2, <4>1, TypesAt, CarriesNext
            <4>2. 0..n \subseteq 0..(n + 1)
                BY <1>t
            <4> QED BY <1>c, <1>e, <2>0, <3>2, <4>1, <4>2 DEF ChainInv
        <3> QED BY <2>3, <3>1, <3>2
    <2>7. OverInv(f)'
        BY <1>o, <2>2, <2>3, <2>0
    <2> QED BY <2>4, <2>5, <2>6, <2>7 DEF OneInv
<1>3. CASE Callback
    <2>1. /\ ex = "callback" /\ ~Push /\ ~Pop /\ ~ReadySignal /\ ~Generate
          /\ \/ gone[f] /\ gen'[f].st = "CANCELLED" /\ gen'[f].made = n /\ ex' = "signal"
             \/ gen'[f] = gen[f] /\ ex' = "push"
          /\ success'[f] = success[f] /\ held'[f] = held[f] /\ ready'[f] = ready[f]
        BY <1>3, Domains, TypesAt DEF Callback, Push, Pop, ReadySignal, Generate, GenType
    <2>2. WorksOn(f) /\ WorksOn(f)' /\ success[f] /\ ~ready[f]
        BY <1>c, <1>q, <2>1 DEF WorksOn, Works, WorkInv
    <2>3. gen'[f].made = n
        BY <2>1
    <2>4. LegacyInv(f)'
        BY <1>c, <1>e, <1>n, <2>1, <2>2, <2>3 DEF LegacyInv
    <2>5. WorkInv(f)'
        BY <1>c, <1>e, <2>1, <2>2 DEF WorkInv, Ended
    <2> QED BY <1>h, <1>o, <2>1, <2>2, <2>3, <2>4, <2>5 DEF OneInv
<1>5. CASE ReadySignal
    <2>1. /\ ex = "signal" /\ ~Push /\ ~Pop /\ ~Generate /\ ex' = "complete"
          /\ UNCHANGED <<gen, success, held>> /\ ready'[f]
        BY <1>5, Domains DEF ReadySignal, Push, Pop, Generate
    <2>2. WorksOn(f) /\ WorksOn(f)' /\ Ended(f) /\ ~ready[f]
        BY <1>c, <1>q, <2>1 DEF WorksOn, Works, WorkInv
    <2>3. Ended(f)'
        BY <1>e, <2>1, <2>2 DEF Ended
    <2>4. LegacyInv(f)'
        BY <1>c, <1>e, <1>n, <2>1, <2>2, <2>3 DEF LegacyInv
    <2>5. WorkInv(f)'
        BY <2>1 DEF WorkInv
    <2>6. OverInv(f)'
        BY <1>c, <1>e, <2>1, <2>2 DEF OverInv
    <2> QED BY <1>h, <2>1, <2>4, <2>5, <2>6 DEF OneInv
<1>6. CASE SignalComplete \/ Pop
    <2>1. /\ ex \in {"complete", "pop"} /\ ~Push /\ ~ReadySignal /\ ~Generate
          /\ UNCHANGED <<gen, success, held, ready>>
          /\ \/ SignalComplete /\ ~Pop /\ ex' = "pop"
             \/ Pop
        BY <1>6 DEF SignalComplete, Pop, Push, ReadySignal, Generate, pipeVars, ctxVars
    <2>2. WorksOn(f) /\ ready[f]
        BY <1>c, <1>q, <2>1 DEF WorksOn, Works, WorkInv
    <2>3. Ended(f)'
        BY <1>c, <1>e, <2>1, <2>2 DEF Ended, LegacyInv
    <2>4. InQueue(f)' => WorksOn(f)' /\ ex' = "pop"
        BY <1>q, <2>1 DEF Works
    <2>5. LegacyInv(f)'
        BY <1>c, <1>e, <2>1, <2>2, <2>3, <2>4 DEF LegacyInv
    <2>6. WorkInv(f)'
        BY <1>q, <2>1, <2>2 DEF WorkInv
    <2>7. OverInv(f)'
        BY <1>c, <1>e, <2>1 DEF OverInv
    <2> QED BY <1>h, <2>1, <2>5, <2>6, <2>7 DEF OneInv
<1>4. CASE Push
    <2>1. /\ ex = "push" /\ ~Pop /\ ~ReadySignal /\ ~Generate
          /\ ex' = (IF gen[f].st = "FINISHED" THEN "signal" ELSE "generate")
          /\ chan'[f].d = chan[f].d \o held[f] \o (IF gen[f].st = "FINISHED" THEN <<FinishDelta>> ELSE <<>>)
          /\ UNCHANGED <<gen, success, ready>> /\ held'[f] = <<>>
        BY <1>4, Domains DEF Push, Pop, ReadySignal, Generate
    <2>2. WorksOn(f) /\ WorksOn(f)' /\ success[f] /\ ~ready[f]
        BY <1>c, <1>q, <2>1 DEF WorksOn, Works, WorkInv
    <2>3. PICK e \in Seq(Nat) : /\ chan'[f].d = chan[f].d \o held[f] \o e
                                /\ e = <<>> \/ (Len(e) = 1 /\ e[1] = 0)
        <3>1. <<FinishDelta>> \in Seq(Nat) /\ Len(<<FinishDelta>>) = 1 /\ <<FinishDelta>>[1] = 0
            BY DEF FinishDelta
        <3>2. <<>> \in Seq(Nat)
            OBVIOUS
        <3> QED BY <2>1, <3>1, <3>2
    <2>4. LegacyInv(f)'
        <3>1. ASSUME NEW s \in Seq(Nat), NEW t \in Seq(Nat), NEW m \in Nat,
                     \A i \in 1..Len(s) : s[i] <= m, \A i \in 1..Len(t) : t[i] <= m
              PROVE  \A i \in 1..Len(s \o t) : (s \o t)[i] <= m
            <4>1. ASSUME NEW i \in 1..Len(s \o t) PROVE (s \o t)[i] <= m
                <5>1. CASE i <= Len(s)
                    BY <3>1, <5>1
                <5>2. CASE i > Len(s)
                    <6>1. i - Len(s) \in 1..Len(t) /\ (s \o t)[i] = t[i - Len(s)]
                        BY <5>2
                    <6> QED BY <3>1, <6>1
                <5> QED BY <5>1, <5>2
            <4> QED BY <4>1
        <3>2. \A i \in 1..Len(e) : e[i] <= n
            BY <1>t, <2>3
        <3>3. \A i \in 1..Len(chan[f].d \o held[f]) : (chan[f].d \o held[f])[i] <= n
            BY <1>c, <1>t, <3>1, TypesAt DEF LegacyInv
        <3>4. chan[f].d \o held[f] \in Seq(Nat)
            BY TypesAt
        <3>5. \A i \in 1..Len(chan'[f].d) : chan'[f].d[i] <= n
            BY <1>t, <2>3, <3>1, <3>2, <3>3, <3>4
        <3>6. \A i \in 1..Len(held'[f]) : held'[f][i] <= n
            BY <2>1
        <3> QED BY <1>c, <1>e, <1>n, <2>1, <2>2, <3>5, <3>6 DEF LegacyInv
    <2>5. WorkInv(f)'
        BY <1>c, <1>e, <2>1, <2>2 DEF WorkInv, Ended
    <2>6. ChainInv(f)'
        <3>1. ASSUME pc[f] # "over" PROVE ChainInv(f)'
            <4>1. PICK a \in 0..n, b \in 0..n, c \in 0..n :
                      /\ a <= b /\ b <= c
                      /\ Carries(Deltas(sent[f]), 0, a) /\ Carries(taken[f], a, b)
                      /\ Carries(chan[f].d, b, c) /\ Carries(held[f], c, n)
                BY <1>c, <3>1 DEF ChainInv
            <4>2. b \in Nat /\ c \in Nat /\ n \in 0..n /\ b <= n /\ c <= n
                BY <1>t, <4>1
            <4>3. chan[f].d \o held[f] \in Seq(Nat) /\ Carries(chan[f].d \o held[f], b, n)
                BY <1>t, <4>1, <4>2, TypesAt, CarriesConcat
            <4>4. Carries(e, n, n)
                <5>1. e \in Seq(Int) /\ \A i \in 1..Len(e) : e[i] <= 0
                    BY <2>3
                <5> QED BY <1>t, <5>1, CarriesNothing
            <4>5. Carries(chan'[f].d, b, n)
                <5>0. e \in Seq(Nat) /\ n \in Nat /\ n <= n
                    BY <1>t, <2>3
                <5>1. ASSUME NEW s \in Seq(Nat), Carries(s, b, n)
                      PROVE  Carries(s \o e, b, n)
                    <6> HIDE DEF n
                    <6> QED BY <4>2, <4>4, <5>0, <5>1, CarriesConcat
                <5> QED BY <2>3, <4>3, <5>1
            <4>6. Carries(held'[f], n, n)
                BY <1>t, <2>1, EmptyCarries
            <4> QED BY <1>e, <2>1, <4>1, <4>2, <4>5, <4>6 DEF ChainInv
        <3> QED BY <1>e, <3>1 DEF ChainInv
    <2>7. OverInv(f)'
        BY <1>o, <2>1, <2>2
    <2> QED BY <2>4, <2>5, <2>6, <2>7 DEF OneInv
<1> QED BY <1>1, <1>2, <1>3, <1>4, <1>5, <1>6 DEF Serves

-----------------------------------------------------------------------------
(* Continuous batching.                                                    *)

\* The generation of a request, as the pipeline and the handle have it.
CbInv(r) ==
    /\ chan[r].d = <<>> /\ success[r]
    /\ gen[r].made <= ask[r].len
    /\ pc[r] \in {"idle", "load", "check", "add"} => gen[r] = Idle /\ out[r] = <<>>
    /\ pc[r] \in Before \cup {"notify"} => held[r] = <<>>
    /\ pc[r] \notin {"idle", "load", "check", "add", "over"} => gen[r].st # "none"
    /\ gen[r].st \in {"none", "RUNNING", "FINISHED", "STOP", "IGNORED"}
    /\ gen[r].in => gen[r].st \in {"RUNNING", "STOP"}
    /\ gen[r].st = "RUNNING" => gen[r].in /\ gen[r].made < ask[r].len
    /\ gen[r].st = "FINISHED" => gen[r].made = ask[r].len
    /\ gen[r].st = "IGNORED" => gen[r].made = 0
    /\ gen[r].st = "STOP" /\ pc[r] # "over" => ~conn[r]

\* The outputs o of a handle of which k tokens of the generation g were read.
Outputs(g, o, k) ==
    LET n == g.made - k IN
    /\ n >= 0
    /\ \A i \in 1..n : o[i] = [tok |-> k + i, some |-> TRUE,
                               fin |-> g.st = "FINISHED" /\ k + i = g.made]
    /\ \/ Len(o) = n
       \/ /\ Len(o) = n + 1 /\ o[n + 1] = NoOutput
          /\ ~g.in /\ g.st \notin {"RUNNING", "FINISHED"}

\* A request that is answered in one piece.
CbUnaryInv(r) ==
    ~ask[r].stream =>
        /\ pc[r] \in {"register", "notify", "read"} => Outputs(gen[r], out[r], 0)
        /\ pc[r] = "prepare" => /\ gen[r].st \in {"FINISHED", "IGNORED"}
                                /\ Carries(taken[r], 0, gen[r].made)

\* Tokens up to a are sent, up to b held back, the others still to be read.
Reading(r, a, b) ==
    /\ a <= b /\ Carries(Deltas(sent[r]), 0, a) /\ Carries(held[r], a, b)
    /\ Outputs(gen[r], out[r], b)
    /\ gen[r].st \in {"FINISHED", "IGNORED"} => out[r] # <<>>

\* An output has been read as well.
Preparing(r, a, b) ==
    /\ a <= b /\ Carries(Deltas(sent[r]), 0, a) /\ Carries(held[r], a, b)
    /\ last[r].some
    /\ \/ /\ last[r].tok = b + 1 /\ Outputs(gen[r], out[r], b + 1)
          /\ last[r].fin = (gen[r].st = "FINISHED" /\ b + 1 = gen[r].made)
       \/ /\ last[r].tok = 0 /\ last[r].fin /\ Outputs(gen[r], out[r], b)
          /\ gen[r].st \notin {"RUNNING", "FINISHED"}

CbStreamInv(r) ==
    ask[r].stream =>
        /\ pc[r] \in {"register", "notify", "read", "reading"} =>
              \E a, b \in 0..gen[r].made : Reading(r, a, b)
        /\ pc[r] = "prepare" => \E a, b \in 0..gen[r].made : Preparing(r, a, b)

\* The answer of a request that is over.
CbOverInv(r) ==
    pc[r] = "over" =>
        /\ \E n \in 0..gen[r].made : Carries(Deltas(sent[r]), 0, n)
        /\ status[r] = "ok" /\ ask[r].uri # "tokenize" /\ (ask[r].stream => conn[r]) =>
              \/ ask[r].stream /\ EndsFailed(sent[r])
              \/ /\ gen[r].st \in {"FINISHED", "IGNORED"}
                 /\ Carries(Deltas(sent[r]), 0, gen[r].made)
                 /\ ask[r].stream => EndsWell(sent[r], ask[r].usage)

ManyInv(r) == CbInv(r) /\ CbUnaryInv(r) /\ CbStreamInv(r) /\ CbOverInv(r)

\* A request that a step leaves alone keeps its invariant.
LEMMA SameKeepsMany ==
    ASSUME NEW q \in Req, Same(q), ManyInv(q)
    PROVE  ManyInv(q)'
<1>1. CbInv(q)'
    BY DEF ManyInv, CbInv, Same
<1>2. CbUnaryInv(q)'
    BY DEF ManyInv, CbUnaryInv, Same
<1>3. CbStreamInv(q)'
    BY DEF ManyInv, CbStreamInv, Reading, Preparing, Same
<1>4. CbOverInv(q)'
    BY DEF ManyInv, CbOverInv, Same
<1> QED BY <1>1, <1>2, <1>3, <1>4 DEF ManyInv

(* Outputs of a handle.                                                    *)

\* The pipeline pushes a token.
LEMMA OutputsMore ==
    ASSUME NEW g \in GenType, NEW h \in GenType, NEW o \in Seq(OutputType), NEW k \in Nat,
           Outputs(g, o, k), g.st = "RUNNING", g.in, h.made = g.made + 1,
           NEW e \in BOOLEAN, h.st = (IF e THEN "FINISHED" ELSE "RUNNING")
    PROVE  Outputs(h, Append(o, [tok |-> g.made + 1, fin |-> e, some |-> TRUE]), k)
<1> DEFINE n == g.made - k
           u == Append(o, [tok |-> g.made + 1, fin |-> e, some |-> TRUE])
<1>1. n \in Nat /\ g.made \in Nat /\ n + k = g.made
    BY DEF Outputs, GenType
<1>2. Len(o) = n /\ \A i \in 1..n : o[i] = [tok |-> k + i, some |-> TRUE, fin |-> FALSE]
    BY DEF Outputs
<1>3. h.made - k = n + 1
    BY <1>1
<1>5. /\ Len(u) = n + 1 /\ u[n + 1] = [tok |-> g.made + 1, fin |-> e, some |-> TRUE]
      /\ \A i \in 1..n : u[i] = o[i]
    BY <1>2
<1> HIDE DEF n, u
<1>4. ASSUME NEW i \in 1..(n + 1)
      PROVE  u[i] = [tok |-> k + i, some |-> TRUE,
                     fin |-> h.st = "FINISHED" /\ k + i = h.made]
    <2>1. CASE i \in 1..n
        <3>1. u[i] = o[i] /\ k + i # h.made
            BY <1>1, <1>5, <2>1
        <3> QED BY <1>2, <2>1, <3>1
    <2>2. CASE i = n + 1
        <3>1. u[i] = [tok |-> g.made + 1, fin |-> e, some |-> TRUE]
            BY <1>5, <2>2
        <3>2. k + i = g.made + 1 /\ (e <=> h.st = "FINISHED" /\ k + i = h.made)
            BY <1>1, <2>2
        <3> QED BY <3>1, <3>2
    <2>3. i \in 1..n \/ i = n + 1
        BY <1>1
    <2> QED BY <2>1, <2>2, <2>3
<1>6. Len(u) = n + 1 /\ n + 1 >= 0
    BY <1>1, <1>5
<1>7. Outputs(h, u, k)
    BY <1>3, <1>4, <1>6 DEF Outputs
<1> QED BY <1>7 DEF u

\* The pipeline lets a request go, with an output that is empty.
LEMMA OutputsEnd ==
    ASSUME NEW g \in GenType, NEW h \in GenType, NEW o \in Seq(OutputType), NEW k \in Nat,
           Outputs(g, o, k), g.in, g.st # "FINISHED", h.made = g.made,
           ~h.in, h.st \notin {"RUNNING", "FINISHED"}
    PROVE  Outputs(h, Append(o, NoOutput), k)
<1> DEFINE n == g.made - k
           u == Append(o, NoOutput)
<1>1. n \in Nat
    BY DEF Outputs, GenType
<1>2. Len(o) = n /\ \A i \in 1..n : o[i] = [tok |-> k + i, some |-> TRUE, fin |-> FALSE]
    BY DEF Outputs
<1>3. h.made - k = n
    OBVIOUS
<1>5. Len(u) = n + 1 /\ u[n + 1] = NoOutput /\ \A i \in 1..n : u[i] = o[i]
    BY <1>1, <1>2
<1> HIDE DEF n, u
<1>4. \A i \in 1..n : u[i] = [tok |-> k + i, some |-> TRUE, fin |-> FALSE]
    BY <1>2, <1>5
<1>6. Outputs(h, u, k)
    BY <1>1, <1>3, <1>4, <1>5 DEF Outputs
<1> QED BY <1>6 DEF u

\* The generation is stopped, or is as it was.
LEMMA OutputsStay ==
    ASSUME NEW g \in GenType, NEW h \in GenType, NEW o \in Seq(OutputType), NEW k \in Nat,
           Outputs(g, o, k), h.made = g.made, h.in = g.in \/ ~h.in,
           h.st = g.st \/ (h.st = "STOP" /\ g.st = "RUNNING")
    PROVE  Outputs(h, o, k)
<1>1. h.st = "FINISHED" <=> g.st = "FINISHED"
    OBVIOUS
<1>2. g.st \notin {"RUNNING", "FINISHED"} => h.st \notin {"RUNNING", "FINISHED"}
    OBVIOUS
<1> QED BY <1>1, <1>2 DEF Outputs

\* An output is read.
LEMMA OutputsRead ==
    ASSUME NEW g \in GenType, NEW o \in Seq(OutputType), NEW k \in Nat, o # <<>>,
           Outputs(g, o, k)
    PROVE  \/ /\ Head(o) = NoOutput /\ Outputs(g, Tail(o), k)
              /\ g.st \notin {"RUNNING", "FINISHED"}
           \/ /\ Head(o).some /\ Head(o).tok = k + 1 /\ Outputs(g, Tail(o), k + 1)
              /\ Head(o).fin = (g.st = "FINISHED" /\ k + 1 = g.made)
<1> DEFINE n == g.made - k
           t == Tail(o)
<1>1. n \in Nat /\ n + k = g.made /\ g.made \in Nat
    BY DEF Outputs, GenType
<1>2. Len(t) = Len(o) - 1 /\ Head(o) = o[1] /\ Len(o) \in Nat /\ Len(o) >= 1
      /\ \A i \in 1..Len(t) : t[i] = o[i + 1]
    OBVIOUS
<1>3. /\ \A i \in 1..n : o[i] = [tok |-> k + i, some |-> TRUE,
                                 fin |-> g.st = "FINISHED" /\ k + i = g.made]
      /\ \/ Len(o) = n
         \/ /\ Len(o) = n + 1 /\ o[n + 1] = NoOutput
            /\ ~g.in /\ g.st \notin {"RUNNING", "FINISHED"}
    BY DEF Outputs
<1> HIDE DEF n, t
<1>4. CASE n = 0
    <2>1. Len(o) = 1 /\ o[1] = NoOutput /\ g.st \notin {"RUNNING", "FINISHED"}
        BY <1>2, <1>3, <1>4
    <2>2. Outputs(g, t, k)
        BY <1>1, <1>2, <1>4, <2>1 DEF Outputs
    <2> QED BY <1>2, <2>1, <2>2 DEF t
<1>5. CASE n > 0
    <2>1. o[1] = [tok |-> k + 1, some |-> TRUE, fin |-> g.st = "FINISHED" /\ k + 1 = g.made]
        BY <1>1, <1>3, <1>5
    <2>2. g.made - (k + 1) = n - 1 /\ n - 1 \in Nat
        BY <1>1, <1>5
    <2>3. ASSUME NEW i \in 1..(n - 1)
          PROVE  t[i] = [tok |-> (k + 1) + i, some |-> TRUE,
                         fin |-> g.st = "FINISHED" /\ (k + 1) + i = g.made]
        <3>1. i + 1 \in 1..n /\ i \in 1..Len(t) /\ k + (i + 1) = (k + 1) + i
            BY <1>1, <1>2, <1>3
        <3>2. t[i] = o[i + 1]
            BY <1>2, <3>1
        <3>3. o[i + 1] = [tok |-> k + (i + 1), some |-> TRUE,
                          fin |-> g.st = "FINISHED" /\ k + (i + 1) = g.made]
            BY <1>3, <3>1
        <3> QED BY <3>1, <3>2, <3>3
    <2>4. \/ Len(t) = n - 1
          \/ /\ Len(t) = (n - 1) + 1 /\ t[(n - 1) + 1] = NoOutput
             /\ ~g.in /\ g.st \notin {"RUNNING", "FINISHED"}
        BY <1>1, <1>2, <1>3, <1>5
    <2>5. Outputs(g, t, k + 1)
        BY <2>2, <2>3, <2>4 DEF Outputs
    <2>6. Head(o).some /\ Head(o).tok = k + 1
          /\ Head(o).fin = (g.st = "FINISHED" /\ k + 1 = g.made)
        BY <1>2, <2>1
    <2> QED BY <2>5, <2>6 DEF t
<1> QED BY <1>1, <1>4, <1>5

\* The tokens of all the outputs of a generation that ended.
LEMMA OutputsAll ==
    ASSUME NEW g \in GenType, NEW o \in Seq(OutputType), Outputs(g, o, 0),
           g.st = "FINISHED" \/ g.made = 0,
           NEW s, s = [i \in 1..Len(o) |-> o[i].tok]
    PROVE  Carries(s, 0, g.made)
<1>1. g.made \in Nat /\ g.made - 0 = g.made
    BY DEF GenType
<1>2. \A i \in 1..g.made : o[i].tok = i
    <2>1. ASSUME NEW i \in 1..g.made PROVE o[i].tok = i
        <3>1. o[i] = [tok |-> 0 + i, some |-> TRUE, fin |-> g.st = "FINISHED" /\ 0 + i = g.made]
            BY <1>1 DEF Outputs
        <3> QED BY <3>1
    <2> QED BY <2>1
<1>3. Len(o) = g.made \/ (g.made = 0 /\ Len(o) = 1 /\ o[1] = NoOutput)
    <2>1. \/ Len(o) = g.made - 0
          \/ /\ Len(o) = (g.made - 0) + 1 /\ o[(g.made - 0) + 1] = NoOutput
             /\ g.st # "FINISHED"
        BY DEF Outputs
    <2>2. g.st # "FINISHED" => (g.made - 0) + 1 = 1 /\ g.made = 0
        BY <1>1
    <2>3. CASE Len(o) = g.made - 0
        BY <1>1, <2>3
    <2>4. CASE Len(o) = (g.made - 0) + 1 /\ o[(g.made - 0) + 1] = NoOutput /\ g.st # "FINISHED"
        BY <2>2, <2>4
    <2> QED BY <2>1, <2>3, <2>4
<1>4. Len(s) = Len(o) /\ \A i \in 1..Len(o) : s[i] = o[i].tok
    OBVIOUS
<1>5. CASE Len(o) = g.made
    <2>1. Len(s) = g.made /\ \A i \in 1..g.made : s[i] = i
        BY <1>2, <1>4, <1>5
    <2>2. \A i \in 1..Len(s) : s[i] \in (0 + 1)..g.made
        BY <1>1, <2>1
    <2>3. \A k \in (0 + 1)..g.made : k \in 1..Len(s) /\ s[k] = k
        <3>1. (0 + 1)..g.made = 1..g.made
            OBVIOUS
        <3> QED BY <2>1, <3>1
    <2>4. \A i, j \in 1..Len(s) : i < j => s[i] < s[j]
        BY <1>1, <2>1
    <2> QED BY <2>2, <2>3, <2>4 DEF Carries
<1>6. CASE g.made = 0 /\ Len(o) = 1 /\ o[1] = NoOutput
    <2>1. Len(s) = 1 /\ \A i \in 1..Len(s) : s[i] = 0
        BY <1>4, <1>6 DEF NoOutput
    <2> QED BY <1>6, <2>1 DEF Carries
<1> QED BY <1>3, <1>5, <1>6

Early == {"idle", "load", "check", "add"}
Dropped(g) == [g EXCEPT !.st = IF g.st = "RUNNING" THEN "STOP" ELSE g.st]

\* A handle that is dropped stops a generation that runs.
LEMMA DroppedAt ==
    ASSUME Types, NEW r \in Req
    PROVE  /\ Drop(r) => gen'[r] = Dropped(gen[r])
           /\ Dropped(gen[r]) \in GenType
           /\ Dropped(gen[r]).made = gen[r].made /\ Dropped(gen[r]).in = gen[r].in
           /\ Dropped(gen[r]).st = (IF gen[r].st = "RUNNING" THEN "STOP" ELSE gen[r].st)
BY Domains, TypesAt DEF Drop, Dropped, GenType

\* What the calculator and the client do to a generation and its handle.
LEMMA CbEffects ==
    ASSUME Types, QueueInv, NEW r \in Req, CommonInv(r), CB,
           Submit(r) \/ Calculator(r) \/ Disconnect(r) \/ OnDisconnected(r)
    PROVE  /\ servable' = servable /\ chan'[r] = chan[r] /\ success'[r] = success[r]
           /\ conn'[r] => conn[r]
           /\ \/ ask'[r] = ask[r]
              \/ pc[r] = "idle" /\ pc'[r] = "load" /\ ask'[r] \in ProfileType
           /\ \/ gen'[r] = gen[r]
              \/ /\ pc[r] = "add" /\ pc'[r] = "register"
                 /\ gen'[r] = [st |-> "RUNNING", made |-> 0, in |-> TRUE]
              \/ gen'[r] = Dropped(gen[r]) /\ (pc'[r] = "over" \/ (~conn'[r] /\ pc'[r] = pc[r]))
           /\ pc'[r] \in Early => pc[r] \in Early /\ out'[r] = out[r]
           /\ pc'[r] \in Before \cup {"notify"} => pc[r] \in Before \cup {"notify"} /\ held'[r] = held[r]
           /\ pc[r] \in Early /\ pc'[r] \notin Early =>
                 pc'[r] = "over" \/ gen'[r] = [st |-> "RUNNING", made |-> 0, in |-> TRUE]
           /\ pc[r] = "over" => pc'[r] = "over"
<1>c. StageInv(r) /\ ClientInv(r)
    BY DEF CommonInv
<1>1. CASE Submit(r)
    <2>1. UNCHANGED <<gen, out, held, success, servable, conn, chan>> /\ pc[r] = "idle" /\ pc'[r] = "load"
        BY <1>1, Domains DEF Submit, pipeVars, ctxVars, client
    <2>2. ask'[r] \in ProfileType
        BY <1>1, Domains, ProfilesAssumption DEF Submit
    <2> QED BY <2>1, <2>2 DEF Before, Early
<1>2. CASE Disconnect(r)
    <2>1. UNCHANGED <<servable, ask, pc, gen, out, held, success, chan>> /\ conn[r]
        BY <1>2 DEF Disconnect, pipeVars, ctxVars
    <2> QED BY <2>1
<1>3. CASE OnDisconnected(r)
    <2>1. UNCHANGED <<servable, ask, pc, conn, out, held, success, chan>> /\ Drop(r) /\ ~conn[r]
        BY <1>3, <1>c DEF OnDisconnected, ClientInv
    <2> QED BY <2>1, DroppedAt
<1>4. CASE \/ ProcessTokenizeRequest(r) \/ Load(r) \/ ScheduleCheck(r)
           \/ RegisterDisconnectionCallback(r) \/ NotifyExecutorThread(r)
    <2>1. UNCHANGED <<servable, ask, conn, gen, out, held, success, chan>>
        BY <1>4 DEF ProcessTokenizeRequest, Load, ScheduleCheck, RegisterDisconnectionCallback,
           NotifyExecutorThread, NotifyUnlocked, pipeVars, ctxVars, client
    <2>2. \/ pc[r] = "load" /\ pc'[r] \in {"over", "check"}
          \/ pc[r] = "check" /\ pc'[r] \in {"over", "add"}
          \/ pc[r] = "register" /\ pc'[r] = "notify"
          \/ pc[r] = "notify" /\ pc'[r] = "read"
        BY <1>4, Domains DEF ProcessTokenizeRequest, Load, ScheduleCheck,
           RegisterDisconnectionCallback, NotifyExecutorThread, NotifyUnlocked, Over, Scheduled
    <2> QED BY <2>1, <2>2 DEF Before, Early
<1>5. CASE AddRequestToPipeline(r)
    <2>1. UNCHANGED <<servable, ask, conn, out, held, success, chan>> /\ pc[r] = "add" /\ pc'[r] = "register"
          /\ gen'[r] = [st |-> "RUNNING", made |-> 0, in |-> TRUE]
        BY <1>5, Domains DEF AddRequestToPipeline, client, ctxVars
    <2> QED BY <2>1 DEF Before, Early
<1>6. CASE \/ ReadCompleteExecutionResults(r) \/ ReadPartialExecutionResults(r)
           \/ PreparePartialResponse(r) \/ PrepareCompleteResponse(r) \/ Read(r)
    <2>1. UNCHANGED <<servable, ask, conn, success, chan>>
        BY <1>6 DEF ReadCompleteExecutionResults, ReadPartialExecutionResults,
           PreparePartialResponse, PrepareCompleteResponse, Read, client, ctxVars
    <2>2. /\ pc[r] \in {"read", "prepare", "reading"}
          /\ pc'[r] \in {"over", "prepare", "reading", "read"}
        BY <1>6, Domains DEF ReadCompleteExecutionResults, ReadPartialExecutionResults,
           PreparePartialResponse, PrepareCompleteResponse, Read, Over, HandleGenerationError
    <2>3. gen'[r] = gen[r] \/ (Drop(r) /\ pc'[r] = "over")
        BY <1>6, Domains DEF ReadCompleteExecutionResults, ReadPartialExecutionResults,
           PreparePartialResponse, PrepareCompleteResponse, Read, Over, HandleGenerationError,
           pipeVars
    <2> QED BY <2>1, <2>2, <2>3, DroppedAt DEF Before, Early
<1>8. ~ \/ ScheduleExecution(r) \/ LegacyReadComplete(r) \/ FinishedWait(r)
        \/ LegacyPrepareComplete(r) \/ WaitForData(r) \/ Drain(r) \/ LegacyPartial(r)
        \/ LegacyFinish(r)
    BY <1>c DEF ScheduleExecution, LegacyReadComplete, FinishedWait, LegacyPrepareComplete,
       WaitForData, Drain, LegacyPartial, LegacyFinish, StageInv, Legacy
<1> QED BY <1>1, <1>2, <1>3, <1>4, <1>5, <1>6, <1>8 DEF Calculator

\* They keep the invariant of the generation,
LEMMA CbKept ==
    ASSUME Types, QueueInv, NEW r \in Req, CommonInv(r), ManyInv(r), CB,
           Submit(r) \/ Calculator(r) \/ Disconnect(r) \/ OnDisconnected(r)
    PROVE  CbInv(r)'
<1>c. StageInv(r) /\ CbInv(r)
    BY DEF CommonInv, ManyInv
<1>e. /\ servable' = servable /\ chan'[r] = chan[r] /\ success'[r] = success[r]
      /\ conn'[r] => conn[r]
      /\ \/ ask'[r] = ask[r]
         \/ pc[r] = "idle" /\ pc'[r] = "load" /\ ask'[r] \in ProfileType
      /\ pc'[r] \in Early => pc[r] \in Early /\ out'[r] = out[r]
      /\ pc'[r] \in Before \cup {"notify"} => pc[r] \in Before \cup {"notify"} /\ held'[r] = held[r]
      /\ pc[r] \in Early /\ pc'[r] \notin Early =>
            pc'[r] = "over" \/ gen'[r] = [st |-> "RUNNING", made |-> 0, in |-> TRUE]
      /\ pc[r] = "over" => pc'[r] = "over"
    BY CbEffects
<1>g. \/ gen'[r] = gen[r]
      \/ /\ pc[r] = "add" /\ pc'[r] = "register"
         /\ gen'[r] = [st |-> "RUNNING", made |-> 0, in |-> TRUE]
      \/ gen'[r] = Dropped(gen[r]) /\ (pc'[r] = "over" \/ (~conn'[r] /\ pc'[r] = pc[r]))
    BY CbEffects
<1>t. gen[r] \in GenType /\ ask[r].len \in Nat
    BY TypesAt, TotalTyped
<1>1. chan'[r].d = <<>> /\ success'[r]
      /\ (pc'[r] \in Before \cup {"notify"} => held'[r] = <<>>)
    BY <1>c, <1>e DEF CbInv
<1>2. CASE gen'[r] = gen[r]
    <2>1. CASE ask'[r] = ask[r]
        BY <1>c, <1>e, <1>1, <1>2, <2>1 DEF CbInv, Early, Idle
    <2>2. CASE pc[r] = "idle" /\ pc'[r] = "load" /\ ask'[r] \in ProfileType
        <3>1. gen'[r] = Idle /\ out'[r] = <<>>
            BY <1>c, <1>e, <1>2, <2>2 DEF CbInv, Early
        <3>2. ask'[r].len >= 0
            BY <2>2 DEF ProfileType
        <3> QED BY <1>1, <2>2, <3>1, <3>2 DEF CbInv, Idle
    <2> QED BY <1>e, <2>1, <2>2
<1>3. CASE /\ pc[r] = "add" /\ pc'[r] = "register"
           /\ gen'[r] = [st |-> "RUNNING", made |-> 0, in |-> TRUE]
    <2>1. ask'[r] = ask[r] /\ ask[r].len > 0
        BY <1>c, <1>e, <1>3 DEF StageInv
    <2> QED BY <1>1, <1>3, <1>t, <2>1 DEF CbInv
<1>4. CASE gen'[r] = Dropped(gen[r]) /\ (pc'[r] = "over" \/ (~conn'[r] /\ pc'[r] = pc[r]))
    <2>1. ask'[r] = ask[r]
        BY <1>e, <1>4
    <2>2. /\ gen'[r].made = gen[r].made /\ gen'[r].in = gen[r].in
          /\ gen'[r].st = (IF gen[r].st = "RUNNING" THEN "STOP" ELSE gen[r].st)
        BY <1>4, DroppedAt
    <2>3. gen[r].st # "RUNNING" => gen'[r] = gen[r]
        BY <1>4, <1>t DEF Dropped, GenType
    <2>4. pc'[r] \in Early => gen'[r] = Idle /\ out'[r] = <<>>
        BY <1>c, <1>e, <2>3 DEF CbInv, Early, Idle
    <2> QED BY <1>c, <1>1, <1>4, <2>1, <2>2, <2>4 DEF CbInv, Early
<1> QED BY <1>g, <1>2, <1>3, <1>4

\* Nothing is read of a generation that begins.
LEMMA OutputsFirst ==
    ASSUME NEW g, g.made = 0, g.st = "RUNNING" PROVE Outputs(g, <<>>, 0)
<1>1. g.made - 0 = 0 /\ Len(<<>>) = 0
    OBVIOUS
<1> QED BY <1>1 DEF Outputs

\* Outputs stay when the handle is dropped.
LEMMA OutputsDropped ==
    ASSUME Types, NEW r \in Req, NEW k \in Nat, Outputs(gen[r], out[r], k)
    PROVE  Outputs(Dropped(gen[r]), out[r], k)
BY DroppedAt, TypesAt, OutputsStay

\* that of an answer in one piece,
LEMMA UnaryKept ==
    ASSUME Types, QueueInv, NEW r \in Req, CommonInv(r), ManyInv(r), CB,
           Submit(r) \/ Calculator(r) \/ Disconnect(r) \/ OnDisconnected(r)
    PROVE  CbUnaryInv(r)'
<1>c. StageInv(r) /\ CbInv(r) /\ CbUnaryInv(r)
    BY DEF CommonInv, ManyInv
<1>1. CASE Submit(r)
    BY <1>1, Domains DEF Submit, CbUnaryInv
<1>2. CASE AddRequestToPipeline(r)
    <2>1. /\ pc'[r] = "register" /\ gen'[r].made = 0 /\ gen'[r].st = "RUNNING"
          /\ out'[r] = <<>>
        BY <1>2, <1>c, Domains DEF AddRequestToPipeline, CbInv
    <2> QED BY <2>1, OutputsFirst DEF CbUnaryInv
<1>3. CASE RegisterDisconnectionCallback(r) \/ NotifyExecutorThread(r) \/ Disconnect(r)
    <2>1. /\ UNCHANGED <<gen, out, ask, taken>>
          /\ pc'[r] = pc[r] \/ (pc[r] \in {"register", "notify"} /\ pc'[r] \in {"notify", "read"})
        BY <1>3, Domains DEF RegisterDisconnectionCallback, NotifyExecutorThread, NotifyUnlocked,
           Disconnect, Scheduled, pipeVars, ctxVars
    <2> QED BY <1>c, <2>1 DEF CbUnaryInv
<1>4. CASE OnDisconnected(r)
    <2>1. UNCHANGED <<ask, pc, out, taken>> /\ gen'[r] = Dropped(gen[r])
        BY <1>4, DroppedAt DEF OnDisconnected
    <2>2. gen[r].st # "RUNNING" => gen'[r] = gen[r]
        BY <2>1, TypesAt DEF Dropped, GenType
    <2>3. Outputs(gen[r], out[r], 0) => Outputs(gen'[r], out'[r], 0)
        BY <2>1, OutputsDropped
    <2> QED BY <1>c, <2>1, <2>2, <2>3 DEF CbUnaryInv
<1>5. CASE ReadCompleteExecutionResults(r)
    <2>1. pc[r] = "read" /\ ask'[r] = ask[r] /\ ~ask[r].stream
        BY <1>5 DEF ReadCompleteExecutionResults
    <2>2. CASE pc'[r] = "over"
        BY <2>2 DEF CbUnaryInv
    <2>3. CASE pc'[r] # "over"
        <3>1. /\ pc'[r] = "prepare" /\ gen'[r] = gen[r]
              /\ gen[r].st # "RUNNING" /\ gen[r].st # "STOP"
              /\ taken'[r] = [i \in 1..Len(out[r]) |-> out[r][i].tok]
            BY <1>5, <2>3, Domains DEF ReadCompleteExecutionResults, Over
        <3>2. gen[r].st = "FINISHED" \/ (gen[r].st = "IGNORED" /\ gen[r].made = 0)
            BY <1>c, <2>1, <3>1 DEF CbInv
        <3>3. Outputs(gen[r], out[r], 0)
            BY <1>c, <2>1 DEF CbUnaryInv
        <3>4. Carries(taken'[r], 0, gen[r].made)
            BY <3>1, <3>2, <3>3, TypesAt, OutputsAll
        <3> QED BY <2>1, <3>1, <3>2, <3>4 DEF CbUnaryInv
    <2> QED BY <2>2, <2>3
<1>6. CASE ~ \/ Submit(r) \/ AddRequestToPipeline(r) \/ RegisterDisconnectionCallback(r)
             \/ NotifyExecutorThread(r) \/ Disconnect(r) \/ OnDisconnected(r)
             \/ ReadCompleteExecutionResults(r)
    <2>1. \/ ask'[r].stream
          \/ pc'[r] \notin {"register", "notify", "read", "prepare"}
        BY <1>6, <1>c, Domains DEF Calculator, ProcessTokenizeRequest, Load, ScheduleCheck,
           ScheduleExecution, PrepareCompleteResponse, ReadPartialExecutionResults, Read,
           PreparePartialResponse, LegacyReadComplete, FinishedWait, LegacyPrepareComplete,
           WaitForData, Drain, LegacyPartial, LegacyFinish, Over, HandleGenerationError,
           StageInv, Legacy
    <2> QED BY <2>1 DEF CbUnaryInv
<1> QED BY <1>1, <1>2, <1>3, <1>4, <1>5, <1>6

\* that of a stream,
LEMMA StreamKept ==
    ASSUME Types, QueueInv, NEW r \in Req, CommonInv(r), ManyInv(r), CB,
           Submit(r) \/ Calculator(r) \/ Disconnect(r) \/ OnDisconnected(r)
    PROVE  CbStreamInv(r)'
<1>c. StageInv(r) /\ SentInv(r) /\ CbInv(r) /\ CbStreamInv(r)
    BY DEF CommonInv, ManyInv
<1>t. gen[r].made \in Nat
    BY TypesAt
<1>1. CASE Submit(r)
    BY <1>1, Domains DEF Submit, CbStreamInv
<1>2. CASE AddRequestToPipeline(r)
    <2>1. /\ pc[r] = "add" /\ pc'[r] = "register" /\ gen'[r].made = 0 /\ gen'[r].st = "RUNNING"
          /\ out'[r] = <<>> /\ held'[r] = held[r] /\ sent'[r] = sent[r]
        BY <1>2, <1>c, Domains DEF AddRequestToPipeline, CbInv, ctxVars
    <2>2. held[r] = <<>> /\ sent[r] = <<>>
        BY <1>c, <2>1 DEF CbInv, SentInv, Before
    <2>3. Reading(r, 0, 0)'
        BY <2>1, <2>2, OutputsFirst, EmptyCarries DEF Reading
    <2>4. 0 \in 0..gen'[r].made
        BY <2>1
    <2> QED BY <2>1, <2>3, <2>4 DEF CbStreamInv
<1>3. CASE RegisterDisconnectionCallback(r) \/ Disconnect(r)
    <2>1. /\ UNCHANGED <<gen, out, ask, last, held, sent>>
          /\ pc'[r] = pc[r] \/ (pc[r] = "register" /\ pc'[r] = "notify")
        BY <1>3, Domains DEF RegisterDisconnectionCallback, Disconnect, pipeVars, ctxVars
    <2> QED BY <1>c, <2>1 DEF CbStreamInv, Reading, Preparing
<1>4. CASE NotifyExecutorThread(r)
    <2>1. /\ UNCHANGED <<gen, out, ask, held>> /\ pc[r] = "notify" /\ pc'[r] = "read"
          /\ sent'[r] \in {<<>>, <<Created>>} /\ sent[r] = <<>>
        BY <1>4, <1>c, Domains DEF NotifyExecutorThread, NotifyUnlocked, Scheduled, SentInv,
           pipeVars, ctxVars
    <2>2. ASSUME ask[r].stream PROVE CbStreamInv(r)'
        <3>1. PICK a \in 0..gen[r].made, b \in 0..gen[r].made : Reading(r, a, b)
            BY <1>c, <2>1, <2>2 DEF CbStreamInv
        <3>2. a = 0
            <4>1. Carries(Deltas(<<>>), 0, a) /\ a \in Nat /\ 0 <= a
                BY <1>t, <2>1, <3>1 DEF Reading
            <4> QED BY <4>1, NoneSent
        <3>3. Carries(Deltas(sent'[r]), 0, a)
            BY <2>1, <3>2, EmptyCarries
        <3>4. Reading(r, a, b)'
            BY <2>1, <3>1, <3>3 DEF Reading
        <3> QED BY <2>1, <3>4 DEF CbStreamInv
    <2> QED BY <2>1, <2>2 DEF CbStreamInv
<1>5. CASE OnDisconnected(r)
    <2>1. UNCHANGED <<ask, pc, out, last, held, sent>> /\ gen'[r] = Dropped(gen[r])
        BY <1>5, DroppedAt DEF OnDisconnected
    <2>2. /\ gen'[r].made = gen[r].made
          /\ gen'[r].st = (IF gen[r].st = "RUNNING" THEN "STOP" ELSE gen[r].st)
        BY <2>1, DroppedAt
    <2>3. \A k \in Nat : Outputs(gen[r], out[r], k) => Outputs(gen'[r], out'[r], k)
        BY <2>1, OutputsDropped
    <2>4. ASSUME NEW a \in 0..gen[r].made, NEW b \in 0..gen[r].made
          PROVE  /\ Reading(r, a, b) => Reading(r, a, b)'
                 /\ Preparing(r, a, b) => Preparing(r, a, b)'
        <3>1. b \in Nat /\ b + 1 \in Nat
            BY <1>t
        <3>2. Reading(r, a, b) => Reading(r, a, b)'
            BY <2>1, <2>2, <2>3, <3>1 DEF Reading
        <3>3. Preparing(r, a, b) => Preparing(r, a, b)'
            BY <2>1, <2>2, <2>3, <3>1 DEF Preparing
        <3> QED BY <3>2, <3>3
    <2> QED BY <1>c, <2>1, <2>2, <2>4 DEF CbStreamInv
<1>6. CASE ReadPartialExecutionResults(r)
    <2>1. CASE pc'[r] = "over"
        BY <2>1 DEF CbStreamInv
    <2>2. CASE pc'[r] # "over"
        <3>1. /\ UNCHANGED <<ask, gen, out, held, sent, last>> /\ pc[r] = "read" /\ ask[r].stream
              /\ gen[r].st # "STOP"
              /\ pc'[r] = (IF gen[r].st = "RUNNING" \/ out[r] # <<>> THEN "reading" ELSE "prepare")
            BY <1>6, <2>2, Domains DEF ReadPartialExecutionResults, Over, ctxVars
        <3>2. PICK a \in 0..gen[r].made, b \in 0..gen[r].made : Reading(r, a, b)
            BY <1>c, <3>1 DEF CbStreamInv
        <3>3. pc'[r] = "reading"
            <4>1. gen[r].st \in {"RUNNING", "FINISHED", "IGNORED"}
                BY <1>c, <3>1 DEF CbInv
            <4> QED BY <3>1, <3>2, <4>1 DEF Reading
        <3>4. Reading(r, a, b)'
            BY <3>1, <3>2 DEF Reading
        <3> QED BY <3>1, <3>3, <3>4 DEF CbStreamInv
    <2> QED BY <2>1, <2>2
<1>7. CASE Read(r)
    <2>1. /\ UNCHANGED <<ask, gen, held, sent>> /\ pc[r] = "reading" /\ pc'[r] = "prepare"
          /\ out[r] # <<>> /\ out'[r] = Tail(out[r])
          /\ last'[r] = (IF Head(out[r]).some THEN Head(out[r]) ELSE EmptyStop)
        BY <1>7, Domains DEF Read
    <2>2. ask[r].stream
        BY <1>c, <2>1 DEF StageInv
    <2>3. PICK a \in 0..gen[r].made, b \in 0..gen[r].made : Reading(r, a, b)
        BY <1>c, <2>1, <2>2 DEF CbStreamInv
    <2>4. b \in Nat
        BY <1>t
    <2>5. \/ /\ Head(out[r]) = NoOutput /\ Outputs(gen[r], Tail(out[r]), b)
             /\ gen[r].st \notin {"RUNNING", "FINISHED"}
          \/ /\ Head(out[r]).some /\ Head(out[r]).tok = b + 1
             /\ Outputs(gen[r], Tail(out[r]), b + 1)
             /\ Head(out[r]).fin = (gen[r].st = "FINISHED" /\ b + 1 = gen[r].made)
        BY <2>1, <2>3, <2>4, TypesAt, OutputsRead DEF Reading
    <2>6. \/ /\ last'[r].some /\ last'[r].tok = 0 /\ last'[r].fin
             /\ Outputs(gen'[r], out'[r], b) /\ gen'[r].st \notin {"RUNNING", "FINISHED"}
          \/ /\ last'[r].some /\ last'[r].tok = b + 1 /\ Outputs(gen'[r], out'[r], b + 1)
             /\ last'[r].fin = (gen'[r].st = "FINISHED" /\ b + 1 = gen'[r].made)
        <3>1. CASE Head(out[r]) = NoOutput
            <4>1. ~Head(out[r]).some
                BY <3>1 DEF NoOutput
            <4>2. last'[r].some /\ last'[r].tok = 0 /\ last'[r].fin
                BY <2>1, <4>1 DEF EmptyStop
            <4> QED BY <2>1, <2>5, <4>1, <4>2
        <3>2. CASE Head(out[r]).some
            <4>1. last'[r] = Head(out[r])
                BY <2>1, <3>2
            <4>2. Head(out[r]) # NoOutput
                BY <3>2 DEF NoOutput
            <4> QED BY <2>1, <2>5, <3>2, <4>1, <4>2
        <3> QED BY <2>5, <3>1, <3>2
    <2>7. Preparing(r, a, b)'
        BY <2>1, <2>3, <2>6 DEF Reading, Preparing
    <2> QED BY <2>1, <2>7 DEF CbStreamInv
<1>8. CASE PreparePartialResponse(r)
    <2>1. CASE pc'[r] = "over"
        BY <2>1 DEF CbStreamInv
    <2>2. CASE pc'[r] # "over"
        <3> DEFINE new == IF last[r].tok > 0 THEN Append(held[r], last[r].tok) ELSE held[r]
        <3>1. /\ UNCHANGED <<ask, gen, out>> /\ ~last[r].fin /\ ask[r].stream
              /\ pc[r] = "prepare" /\ pc'[r] = "read"
              /\ \/ held'[r] = new /\ sent'[r] = sent[r] \o Midstream(r, <<>>)
                 \/ held'[r] = <<>> /\ sent'[r] = sent[r] \o Midstream(r, new)
            BY <1>8, <2>2, Domains DEF PreparePartialResponse, Over, HandleGenerationError
        <3>2. PICK a \in 0..gen[r].made, b \in 0..gen[r].made : Preparing(r, a, b)
            BY <1>c, <3>1 DEF CbStreamInv
        <3>3. /\ a <= b /\ Carries(Deltas(sent[r]), 0, a) /\ Carries(held[r], a, b)
              /\ last[r].tok = b + 1 /\ Outputs(gen[r], out[r], b + 1)
              /\ ~(gen[r].st = "FINISHED" /\ b + 1 = gen[r].made)
            BY <3>1, <3>2 DEF Preparing
        <3>4. a \in Nat /\ b \in Nat /\ b + 1 \in Nat /\ 0 <= a /\ a <= b + 1
            BY <1>t, <3>3
        <3>5. new = Append(held[r], b + 1)
            BY <3>3, <3>4
        <3> HIDE DEF new
        <3>6. new \in Seq(Nat) /\ Carries(new, a, b + 1)
            BY <3>3, <3>4, <3>5, TypesAt, CarriesNext
        <3>7. b + 1 \in 0..gen[r].made /\ gen[r].made - (b + 1) >= 0
            BY <1>t, <3>3, <3>4 DEF Outputs
        <3>8. gen[r].st \in {"FINISHED", "IGNORED"} => out[r] # <<>>
            <4>1. ASSUME gen[r].st = "FINISHED", out[r] = <<>> PROVE FALSE
                <5>1. gen[r].made - (b + 1) = 0
                    BY <1>t, <3>3, <3>4, <4>1 DEF Outputs
                <5> QED BY <1>t, <3>3, <3>4, <4>1, <5>1
            <4>2. gen[r].st # "IGNORED"
                BY <1>c, <3>4, <3>7 DEF CbInv
            <4> QED BY <4>1, <4>2
        <3>9. CASE held'[r] = new /\ sent'[r] = sent[r] \o Midstream(r, <<>>)
            <4>a. <<>> \in Seq(Nat)
                OBVIOUS
            <4>b. Carries(<<>>, a, a)
                BY <3>4, EmptyCarries
            <4>1. PICK ds \in Seq(Nat) : ds = <<>> /\ Carries(ds, a, a)
                BY <4>a, <4>b
            <4>2. Carries(Deltas(Midstream(r, ds)), a, a) /\ Midstream(r, ds) \in Seq(ChunkType)
                <5>1. a <= a /\ a \in Nat /\ Carries(ds, a, a)
                    BY <3>4, <4>1
                <5>2. Carries(Deltas(Midstream(r, ds)), a, a)
                    BY <5>1, MidstreamCarries
                <5> QED BY <5>2, ChunksTyped
            <4>3. Carries(Deltas(sent'[r]), 0, a)
                <5>1. sent'[r] = sent[r] \o Midstream(r, ds)
                    BY <3>9, <4>1
                <5> QED BY <3>3, <3>4, <4>2, <5>1, TypesAt, SentConcat
            <4>4. Reading(r, a, b + 1)'
                BY <3>1, <3>3, <3>4, <3>6, <3>8, <3>9, <4>3 DEF Reading
            <4> QED BY <3>1, <3>7, <4>4 DEF CbStreamInv
        <3>10. CASE held'[r] = <<>> /\ sent'[r] = sent[r] \o Midstream(r, new)
            <4>2. Carries(Deltas(Midstream(r, new)), a, b + 1)
                BY <3>4, <3>6, MidstreamCarries
            <4>3. Carries(Deltas(sent'[r]), 0, b + 1)
                BY <3>3, <3>4, <3>6, <3>10, <4>2, TypesAt, ChunksTyped, SentConcat
            <4>4. Carries(held'[r], b + 1, b + 1)
                BY <3>4, <3>10, EmptyCarries
            <4>5. Reading(r, b + 1, b + 1)'
                BY <3>1, <3>3, <3>4, <3>8, <4>3, <4>4 DEF Reading
            <4> QED BY <3>1, <3>7, <4>5 DEF CbStreamInv
        <3> QED BY <3>1, <3>9, <3>10
    <2> QED BY <2>1, <2>2
<1>9. CASE ~ \/ Submit(r) \/ AddRequestToPipeline(r) \/ RegisterDisconnectionCallback(r)
             \/ NotifyExecutorThread(r) \/ Disconnect(r) \/ OnDisconnected(r)
             \/ ReadPartialExecutionResults(r) \/ Read(r) \/ PreparePartialResponse(r)
    <2>1. \/ ~ask'[r].stream
          \/ pc'[r] \notin {"register", "notify", "read", "reading", "prepare"}
        BY <1>9, <1>c, Domains DEF Calculator, ProcessTokenizeRequest, Load, ScheduleCheck,
           ScheduleExecution, ReadCompleteExecutionResults, PrepareCompleteResponse,
           LegacyReadComplete, FinishedWait, LegacyPrepareComplete,
           WaitForData, Drain, LegacyPartial, LegacyFinish, Over, HandleGenerationError,
           StageInv, Legacy
    <2> QED BY <2>1 DEF CbStreamInv
<1> QED BY <1>1, <1>2, <1>3, <1>4, <1>5, <1>6, <1>7, <1>8, <1>9

\* A failure ends a stream that had not ended.
LEMMA FailedAfter ==
    ASSUME NEW s \in Seq(ChunkType), Unfinished(s), NEW a \in Nat, Carries(Deltas(s), 0, a)
    PROVE  EndsFailed(s \o <<Failed, Done>>) /\ Carries(Deltas(s \o <<Failed, Done>>), 0, a)
<1>1. PICK t \in Seq(ChunkType) : t = <<Failed, Done>>
    BY ChunkConstants
<1>2. Len(t) = 2 /\ t[1] = Failed /\ t[2] = Done /\ Unfinished(t)
    BY <1>1 DEF Unfinished, Failed, Done, Chunk
<1>3. Carries(Deltas(t), a, a)
    BY <1>1, EmptyCarries
<1>4. Carries(Deltas(s \o t), 0, a)
    <2>1. 0 \in Nat /\ 0 <= a /\ a <= a
        OBVIOUS
    <2> QED BY <1>3, <2>1, SentConcat
<1>5. Unfinished(s \o t)
    BY <1>2, UnfinishedConcat
<1>6. Len(s \o t) = Len(s) + 2 /\ (s \o t)[Len(s) + 2] = Done /\ (s \o t)[Len(s) + 1] = Failed
      /\ Len(s) \in Nat
    <2>1. Len(s \o t) = Len(s) + Len(t) /\ \A i \in 1..Len(t) : (s \o t)[Len(s) + i] = t[i]
        OBVIOUS
    <2>2. 1 \in 1..2 /\ 2 \in 1..2
        OBVIOUS
    <2> QED BY <1>2, <2>1, <2>2
<1>7. EndsFailed(s \o t)
    <2>1. Len(s \o t) - 1 = Len(s) + 1 /\ Len(s \o t) >= 2
        BY <1>6
    <2> QED BY <1>5, <1>6, <2>1 DEF EndsFailed
<1> QED BY <1>1, <1>4, <1>7

\* and that of the answer of a request that is over.
LEMMA OverKeptMany ==
    ASSUME Types, QueueInv, NEW r \in Req, CommonInv(r), ManyInv(r), CB,
           Submit(r) \/ Calculator(r) \/ Disconnect(r) \/ OnDisconnected(r)
    PROVE  CbOverInv(r)'
<1>c. StageInv(r) /\ SentInv(r) /\ CbInv(r) /\ CbUnaryInv(r) /\ CbStreamInv(r) /\ CbOverInv(r)
    BY DEF CommonInv, ManyInv
<1>0. SUFFICES ASSUME pc'[r] = "over" PROVE CbOverInv(r)'
    BY DEF CbOverInv
<1>t. gen[r].made \in Nat
    BY TypesAt
<1>1. CASE Submit(r) \/ Disconnect(r)
    BY <1>0, <1>1, Domains DEF Submit, Disconnect
<1>2. CASE OnDisconnected(r)
    <2>1. UNCHANGED <<ask, pc, status, conn, sent>> /\ gen'[r] = Dropped(gen[r])
        BY <1>2, DroppedAt DEF OnDisconnected
    <2>2. /\ gen'[r].made = gen[r].made
          /\ gen'[r].st = (IF gen[r].st = "RUNNING" THEN "STOP" ELSE gen[r].st)
        BY <2>1, DroppedAt
    <2> QED BY <1>c, <2>1, <2>2 DEF CbOverInv
\* A request that fails, what was sent before being the beginning of its answer.
<1>f. ASSUME gen'[r].made = gen[r].made, sent'[r] = sent[r],
             status'[r] # "ok" \/ ask'[r].uri = "tokenize",
             NEW a \in 0..gen[r].made, Carries(Deltas(sent[r]), 0, a)
      PROVE  CbOverInv(r)'
    BY <1>f DEF CbOverInv
<1>3. CASE ProcessTokenizeRequest(r) \/ Load(r) \/ ScheduleCheck(r)
    <2>1. /\ UNCHANGED <<gen, sent, ask>> /\ pc[r] \in {"load", "check"}
          /\ ~Load(r) => status'[r] # "ok" \/ ask[r].uri = "tokenize"
        BY <1>0, <1>3, Domains DEF ProcessTokenizeRequest, Load, ScheduleCheck, Over, pipeVars
    <2>2. status'[r] # "ok" \/ ask[r].uri = "tokenize"
        BY <1>0, <2>1, LoadFails
    <2>3. sent[r] = <<>>
        BY <1>c, <2>1 DEF SentInv, Before
    <2>4. Carries(Deltas(sent[r]), 0, 0) /\ 0 \in 0..gen[r].made
        BY <1>t, <2>3, EmptyCarries
    <2> QED BY <1>f, <2>1, <2>2, <2>4
<1>4. CASE ReadCompleteExecutionResults(r)
    <2>1. /\ sent' = sent /\ pc[r] = "read" /\ ~ask[r].stream /\ status'[r] = "cancelled"
          /\ gen' = gen \/ Drop(r)
        BY <1>0, <1>4, Domains DEF ReadCompleteExecutionResults, Over
    <2>2. gen'[r].made = gen[r].made
        BY <2>1, DroppedAt
    <2>3. sent[r] = <<>>
        BY <1>c, <2>1 DEF SentInv
    <2>4. Carries(Deltas(sent[r]), 0, 0) /\ 0 \in 0..gen[r].made
        BY <1>t, <2>3, EmptyCarries
    <2> QED BY <1>f, <2>1, <2>2, <2>4
<1>5. CASE PrepareCompleteResponse(r)
    <2>1. UNCHANGED <<gen, ask>> /\ pc[r] = "prepare" /\ ~ask[r].stream
        BY <1>5 DEF PrepareCompleteResponse, pipeVars
    <2>2. gen[r].st \in {"FINISHED", "IGNORED"} /\ Carries(taken[r], 0, gen[r].made)
        BY <1>c, <2>1 DEF CbUnaryInv
    <2>3. CASE sent'[r] = [i \in 1..Len(taken[r]) |-> Chunk(taken[r][i], FALSE)]
        <3>1. Carries(Deltas(sent'[r]), 0, gen[r].made)
            BY <2>2, <2>3, TypesAt, WholeCarried
        <3>2. gen[r].made \in 0..gen[r].made
            BY <1>t
        <3> QED BY <2>1, <2>2, <3>1, <3>2 DEF CbOverInv
    <2>4. CASE HandleGenerationError(r)
        <3>1. sent'[r] = sent[r] /\ status'[r] = "invalid"
            BY <2>1, <2>4, Domains DEF HandleGenerationError, Over
        <3>2. sent[r] = <<>>
            BY <1>c, <2>1 DEF SentInv
        <3>3. Carries(Deltas(sent[r]), 0, 0) /\ 0 \in 0..gen[r].made
            BY <1>t, <3>2, EmptyCarries
        <3> QED BY <1>f, <2>1, <3>1, <3>3
    <2> QED BY <1>5, <2>3, <2>4, Domains DEF PrepareCompleteResponse
<1>6. CASE ReadPartialExecutionResults(r)
    <2>1. /\ sent' = sent /\ pc[r] = "read" /\ ask[r].stream /\ status'[r] = "cancelled"
          /\ Drop(r)
        BY <1>0, <1>6, Domains DEF ReadPartialExecutionResults, Over
    <2>2. gen'[r].made = gen[r].made
        BY <2>1, DroppedAt
    <2>3. PICK a \in 0..gen[r].made : Carries(Deltas(sent[r]), 0, a)
        BY <1>c, <2>1 DEF CbStreamInv, Reading
    <2> QED BY <1>f, <2>1, <2>2, <2>3
<1>7. CASE PreparePartialResponse(r)
    <2> DEFINE new == IF last[r].tok > 0 THEN Append(held[r], last[r].tok) ELSE held[r]
    <2>1. /\ ask' = ask /\ conn' = conn /\ ask[r].stream /\ pc[r] = "prepare" /\ Drop(r)
          /\ \/ ~last[r].some
             \/ /\ last[r].fin /\ sent'[r] = sent[r] \o LastChunks(r, new)
             \/ HandleGenerationError(r)
        BY <1>0, <1>7, Domains DEF PreparePartialResponse, client
    <2>2. PICK a \in 0..gen[r].made, b \in 0..gen[r].made : Preparing(r, a, b)
        BY <1>c, <2>1 DEF CbStreamInv
    <2>3. a <= b /\ Carries(Deltas(sent[r]), 0, a) /\ Carries(held[r], a, b) /\ last[r].some
        BY <2>2 DEF Preparing
    <2>4. a \in Nat /\ b \in Nat /\ b + 1 \in Nat /\ 0 <= a /\ a <= b + 1
        BY <1>t, <2>3
    <2>5. /\ gen'[r].made = gen[r].made
          /\ gen'[r].st = (IF gen[r].st = "RUNNING" THEN "STOP" ELSE gen[r].st)
        BY <2>1, DroppedAt
    <2>u. Unfinished(sent[r])
        BY <1>c, <2>1 DEF SentInv
    <2>6. CASE last[r].fin /\ sent'[r] = sent[r] \o LastChunks(r, new)
        <3>1. PICK z \in 0..gen[r].made :
                 /\ new \in Seq(Nat) /\ a <= z /\ Carries(new, a, z)
                 /\ conn[r] => z = gen[r].made /\ gen[r].st \in {"FINISHED", "IGNORED"}
            <4>1. CASE /\ last[r].tok = b + 1 /\ Outputs(gen[r], out[r], b + 1)
                       /\ last[r].fin = (gen[r].st = "FINISHED" /\ b + 1 = gen[r].made)
                <5>1. b + 1 = gen[r].made /\ gen[r].st = "FINISHED"
                    BY <2>6, <4>1
                <5>2. new = Append(held[r], b + 1)
                    BY <2>4, <4>1
                <5> HIDE DEF new
                <5>3. new \in Seq(Nat) /\ Carries(new, a, b + 1)
                    BY <2>3, <2>4, <5>2, TypesAt, CarriesNext
                <5>4. b + 1 \in 0..gen[r].made
                    BY <1>t, <2>4, <5>1
                <5> QED BY <2>4, <5>1, <5>3, <5>4
            <4>2. CASE last[r].tok = 0 /\ gen[r].st \notin {"RUNNING", "FINISHED"}
                <5>1. new = held[r]
                    BY <4>2
                <5>2. conn[r] => gen[r].st = "IGNORED" /\ gen[r].made = 0
                    BY <1>c, <2>1, <4>2 DEF CbInv
                <5>3. conn[r] => b = gen[r].made
                    BY <1>t, <2>4, <5>2
                <5> HIDE DEF new
                <5> QED BY <2>3, <5>1, <5>2, <5>3, TypesAt
            <4> QED BY <2>2, <4>1, <4>2 DEF Preparing
        <3> HIDE DEF new
        <3>2. z \in Nat
            BY <1>t
        <3>3. /\ Carries(Deltas(LastChunks(r, new)), a, z)
              /\ EndsWell(LastChunks(r, new), ask[r].usage)
              /\ LastChunks(r, new) \in Seq(ChunkType)
            BY <2>4, <3>1, <3>2, LastChunksCarry, ChunksTyped
        <3>4. Carries(Deltas(sent'[r]), 0, z)
            BY <2>3, <2>4, <2>6, <3>1, <3>2, <3>3, TypesAt, SentConcat
        <3>5. EndsWell(sent'[r], ask[r].usage)
            <4>1. ask[r].usage \in BOOLEAN
                BY DEF Types, ClientType, ProfileType
            <4> QED BY <2>6, <2>u, <3>3, <4>1, TypesAt, EndsAfter
        <3>6. ask'[r] = ask[r] /\ conn'[r] = conn[r]
            BY <2>1
        <3> QED BY <2>1, <2>5, <3>1, <3>4, <3>5, <3>6 DEF CbOverInv
    <2>7. CASE HandleGenerationError(r)
        <3>1. CASE ask[r].uri = "responses"
            <4>1. sent'[r] = sent[r] \o <<Failed, Done>>
                BY <2>1, <2>7, <3>1, Domains DEF HandleGenerationError
            <4>2. EndsFailed(sent'[r]) /\ Carries(Deltas(sent'[r]), 0, a)
                BY <2>3, <2>4, <2>u, <4>1, TypesAt, FailedAfter
            <4> QED BY <2>1, <2>5, <4>2 DEF CbOverInv
        <3>2. CASE ask[r].uri # "responses"
            <4>1. sent'[r] = sent[r] /\ status'[r] = "invalid"
                BY <2>1, <2>7, <3>2, Domains DEF HandleGenerationError, Over
            <4> QED BY <1>f, <2>3, <2>5, <4>1
        <3> QED BY <3>1, <3>2
    <2> HIDE DEF new
    <2> QED BY <2>1, <2>3, <2>6, <2>7
<1>8. CASE ~ \/ Submit(r) \/ Disconnect(r) \/ OnDisconnected(r)
             \/ ProcessTokenizeRequest(r) \/ Load(r) \/ ScheduleCheck(r)
             \/ ReadCompleteExecutionResults(r) \/ PrepareCompleteResponse(r)
             \/ ReadPartialExecutionResults(r) \/ PreparePartialResponse(r)
    BY <1>0, <1>8, <1>c, Domains DEF Calculator, AddRequestToPipeline,
       RegisterDisconnectionCallback, ScheduleExecution, NotifyExecutorThread, NotifyUnlocked,
       Read, LegacyReadComplete, FinishedWait, LegacyPrepareComplete, WaitForData, Drain,
       LegacyPartial, LegacyFinish, Scheduled, StageInv, Legacy
<1> QED BY <1>1, <1>2, <1>3, <1>4, <1>5, <1>6, <1>7, <1>8

\* What a step of the pipeline is for one request: a token is made for it, it
\* leaves with an output that is empty, or it was not in the pipeline.
Stepped(q) ==
    \/ /\ gen[q].in /\ gen[q].st = "RUNNING"
       /\ gen'[q].made = gen[q].made + 1
       /\ gen'[q].in = ~(gen[q].made + 1 >= ask[q].len)
       /\ gen'[q].st = (IF gen[q].made + 1 >= ask[q].len THEN "FINISHED" ELSE "RUNNING")
       /\ pc[q] # "over" => out'[q] = Append(out[q], [tok |-> gen[q].made + 1,
             fin |-> gen[q].made + 1 >= ask[q].len, some |-> TRUE])
    \/ /\ gen[q].in
       /\ gen'[q].made = gen[q].made /\ gen'[q].in = FALSE
       /\ \/ gen[q].st = "RUNNING" /\ gen[q].made = 0 /\ gen'[q].st = "IGNORED"
          \/ gen[q].st # "RUNNING" /\ gen'[q].st = gen[q].st
       /\ pc[q] # "over" => out'[q] = Append(out[q], NoOutput)
    \/ /\ ~gen[q].in /\ gen'[q] = gen[q]
       /\ pc[q] # "over" => out'[q] = out[q]

\* The step of the pipeline, request by request.
LEMMA StepEffects ==
    ASSUME Types, Step, NEW q \in Req
    PROVE  /\ UNCHANGED <<servable, ask, pc, status, client, ctxVars, sent, queue>>
           /\ Stepped(q)
<1> DEFINE ends(r) == gen[r].made + 1 >= ask[r].len
<1>0. UNCHANGED <<servable, ask, pc, status, client, ctxVars, sent, queue>>
    BY DEF Step
<1>1. PICK ignored \in SUBSET {r \in InPipe : gen[r].st = "RUNNING" /\ gen[r].made = 0} :
         LET runs(r) == gen[r].in /\ gen[r].st = "RUNNING" /\ r \notin ignored
         IN /\ gen' = [r \in Req |->
                  IF runs(r) THEN [st |-> IF ends(r) THEN "FINISHED" ELSE "RUNNING",
                                   made |-> gen[r].made + 1, in |-> ~ends(r)]
                  ELSE IF r \in ignored THEN [gen[r] EXCEPT !.st = "IGNORED", !.in = FALSE]
                  ELSE [gen[r] EXCEPT !.in = FALSE]]
            /\ out' = [r \in Req |->
                  IF pc[r] = "over" THEN <<>>
                  ELSE IF runs(r) THEN Append(out[r], [tok |-> gen[r].made + 1, fin |-> ends(r), some |-> TRUE])
                  ELSE IF gen[r].in THEN Append(out[r], NoOutput) ELSE out[r]]
    BY DEF Step
<1>t. gen[q] \in GenType
    BY TypesAt
<1>i. q \in ignored => gen[q].in /\ gen[q].st = "RUNNING" /\ gen[q].made = 0
    BY DEF InPipe
<1>2. CASE gen[q].in /\ gen[q].st = "RUNNING" /\ q \notin ignored
    <2>1. gen'[q] = [st |-> IF ends(q) THEN "FINISHED" ELSE "RUNNING",
                     made |-> gen[q].made + 1, in |-> ~ends(q)]
        BY <1>1, <1>2
    <2>2. pc[q] # "over" =>
             out'[q] = Append(out[q], [tok |-> gen[q].made + 1, fin |-> ends(q), some |-> TRUE])
        BY <1>1, <1>2
    <2> QED BY <1>0, <1>2, <2>1, <2>2 DEF Stepped
<1>3. CASE q \in ignored
    <2>1. gen'[q] = [gen[q] EXCEPT !.st = "IGNORED", !.in = FALSE]
        BY <1>1, <1>3
    <2>2. gen'[q].st = "IGNORED" /\ gen'[q].made = gen[q].made /\ gen'[q].in = FALSE
        BY <1>t, <2>1 DEF GenType
    <2>3. pc[q] # "over" => out'[q] = Append(out[q], NoOutput)
        BY <1>1, <1>3, <1>i
    <2> QED BY <1>0, <1>i, <1>3, <2>2, <2>3 DEF Stepped
<1>4. CASE q \notin ignored /\ ~(gen[q].in /\ gen[q].st = "RUNNING")
    <2>1. gen'[q] = [gen[q] EXCEPT !.in = FALSE]
        BY <1>1, <1>4
    <2>2. gen'[q].st = gen[q].st /\ gen'[q].made = gen[q].made /\ gen'[q].in = FALSE
        BY <1>t, <2>1 DEF GenType
    <2>3. ~gen[q].in => gen'[q] = gen[q]
        BY <1>t, <2>1 DEF GenType
    <2>4. pc[q] # "over" => out'[q] = IF gen[q].in THEN Append(out[q], NoOutput) ELSE out[q]
        BY <1>1, <1>4
    <2> QED BY <1>0, <1>4, <2>2, <2>3, <2>4 DEF Stepped
<1> QED BY <1>2, <1>3, <1>4

\* Outputs join those that are unread.
LEMMA SteppedOutputs ==
    ASSUME Types, Types', NEW q \in Req, Stepped(q), pc[q] # "over",
           gen[q].in => gen[q].st \in {"RUNNING", "STOP"},
           NEW k \in Nat, Outputs(gen[q], out[q], k)
    PROVE  Outputs(gen'[q], out'[q], k)
<1>t. gen[q] \in GenType /\ gen'[q] \in GenType /\ out[q] \in Seq(OutputType)
    BY TypesAt DEF Types, PipeType
<1>1. CASE gen[q].in /\ gen[q].st = "RUNNING" /\ gen'[q].made = gen[q].made + 1
    <2> DEFINE e == gen[q].made + 1 >= ask[q].len
    <2>1. e \in BOOLEAN
        OBVIOUS
    <2>2. /\ gen'[q].st = (IF e THEN "FINISHED" ELSE "RUNNING")
          /\ out'[q] = Append(out[q], [tok |-> gen[q].made + 1, fin |-> e, some |-> TRUE])
        BY <1>1, <1>t DEF Stepped, GenType
    <2> HIDE DEF e
    <2> QED BY <1>t, <1>1, <2>1, <2>2, OutputsMore
<1>2. CASE gen[q].in /\ gen'[q].made = gen[q].made
    <2>1. /\ ~gen'[q].in /\ gen'[q].st \in {"IGNORED", "STOP"}
          /\ out'[q] = Append(out[q], NoOutput) /\ gen[q].st # "FINISHED"
        BY <1>2, <1>t DEF Stepped, GenType
    <2> QED BY <1>t, <1>2, <2>1, OutputsEnd
<1>3. CASE ~gen[q].in
    BY <1>3 DEF Stepped
<1> QED BY <1>1, <1>2, <1>3 DEF Stepped

\* A step of the pipeline keeps the invariant of every request.
LEMMA StepMany ==
    ASSUME Types, Types', Step, NEW q \in Req, CommonInv(q), ManyInv(q)
    PROVE  ManyInv(q)'
<1>c. StageInv(q) /\ CbInv(q) /\ CbUnaryInv(q) /\ CbStreamInv(q) /\ CbOverInv(q)
    BY DEF CommonInv, ManyInv
<1>e. UNCHANGED <<ask, pc, status, conn, last, held, chan, taken, success, sent>> /\ Stepped(q)
    BY StepEffects DEF client, ctxVars
<1>t. gen[q].made \in Nat /\ ask[q].len \in Nat
    BY TypesAt, TotalTyped
<1>s. gen[q].in => gen[q].st \in {"RUNNING", "STOP"}
    BY <1>c DEF CbInv
<1>m. gen'[q].made \in {gen[q].made, gen[q].made + 1}
    BY <1>e DEF Stepped
<1>r. gen[q].st \in {"FINISHED", "IGNORED", "none"} => gen'[q] = gen[q]
    BY <1>e, <1>s DEF Stepped
<1>o. \A k \in Nat : pc[q] # "over" /\ Outputs(gen[q], out[q], k) => Outputs(gen'[q], out'[q], k)
    BY <1>e, <1>s, SteppedOutputs
<1>1. CbInv(q)'
    <2>1. CASE gen'[q] = gen[q]
        <3>1. pc[q] \in {"idle", "load", "check", "add"} => out'[q] = out[q]
            <4>1. pc[q] \in {"idle", "load", "check", "add"} => ~gen[q].in
                BY <1>c DEF CbInv, Idle
            <4> QED BY <1>e, <4>1 DEF Stepped
        <3> QED BY <1>c, <1>e, <2>1, <3>1 DEF CbInv
    <2>2. CASE gen[q].in
        <3>1. pc[q] \notin {"idle", "load", "check", "add"}
            BY <1>c, <2>2 DEF CbInv, Idle
        <3>2. CASE gen[q].st = "RUNNING" /\ gen'[q].made = gen[q].made + 1
            <4>1. /\ gen[q].made < ask[q].len
                  /\ gen'[q].in = ~(gen[q].made + 1 >= ask[q].len)
                  /\ gen'[q].st = (IF gen[q].made + 1 >= ask[q].len THEN "FINISHED" ELSE "RUNNING")
                BY <1>c, <1>e, <1>t, <2>2, <3>2 DEF CbInv, Stepped
            <4>2. /\ gen'[q].made <= ask[q].len
                  /\ \/ gen'[q].st = "FINISHED" /\ ~gen'[q].in /\ gen'[q].made = ask[q].len
                     \/ gen'[q].st = "RUNNING" /\ gen'[q].in /\ gen'[q].made < ask[q].len
                <5>1. CASE gen[q].made + 1 >= ask[q].len
                    <6>1. gen[q].made + 1 = ask[q].len
                        BY <1>t, <4>1, <5>1
                    <6> QED BY <1>t, <3>2, <4>1, <5>1, <6>1
                <5>2. CASE ~(gen[q].made + 1 >= ask[q].len)
                    <6>1. gen'[q].made < ask[q].len /\ gen'[q].made <= ask[q].len
                        BY <1>t, <3>2, <5>2
                    <6>2. gen'[q].st = "RUNNING"
                        BY <4>1, <5>2
                    <6>3. gen'[q].in
                        BY <4>1, <5>2
                    <6> QED BY <6>1, <6>2, <6>3
                <5> QED BY <5>1, <5>2
            <4> QED BY <1>c, <1>e, <3>1, <4>2 DEF CbInv
        <3>3. CASE gen'[q].made = gen[q].made
            <4>1. /\ gen'[q].in = FALSE
                  /\ \/ gen[q].made = 0 /\ gen'[q].st = "IGNORED"
                     \/ gen[q].st = "STOP" /\ gen'[q].st = "STOP"
                BY <1>e, <1>s, <1>t, <2>2, <3>3 DEF Stepped
            <4> QED BY <1>c, <1>e, <3>1, <3>3, <4>1 DEF CbInv
        <3> QED BY <1>e, <2>2, <3>2, <3>3 DEF Stepped
    <2> QED BY <1>e, <2>1, <2>2 DEF Stepped
<1>2. CbUnaryInv(q)'
    BY <1>c, <1>e, <1>o, <1>r DEF CbUnaryInv
<1>3. CbStreamInv(q)'
    <2>1. SUFFICES ASSUME ask[q].stream PROVE CbStreamInv(q)'
        BY <1>e DEF CbStreamInv
    <2>r. \A a \in 0..gen[q].made : a \in 0..gen'[q].made /\ a \in Nat /\ a + 1 \in Nat
        BY <1>t, <1>m
    <2>2. ASSUME pc[q] \in {"register", "notify", "read", "reading"}
          PROVE  \E a, b \in 0..gen'[q].made : Reading(q, a, b)'
        <3>1. PICK a \in 0..gen[q].made, b \in 0..gen[q].made : Reading(q, a, b)
            BY <1>c, <2>1, <2>2 DEF CbStreamInv
        <3>2. Outputs(gen'[q], out'[q], b)
            BY <1>o, <2>2, <2>r, <3>1 DEF Reading
        <3>3. gen'[q].st \in {"FINISHED", "IGNORED"} => out'[q] # <<>>
            <4>1. CASE gen[q].in
                <5>1. \A o \in Seq(OutputType) : \A e : Append(o, e) # <<>>
                    OBVIOUS
                <5>2. out[q] \in Seq(OutputType)
                    BY TypesAt
                <5>3. \E e : out'[q] = Append(out[q], e)
                    BY <1>e, <2>2, <4>1 DEF Stepped
                <5> QED BY <5>1, <5>2, <5>3
            <4>2. CASE ~gen[q].in
                BY <1>e, <2>2, <3>1, <4>2 DEF Stepped, Reading
            <4> QED BY <4>1, <4>2
        <3> QED BY <1>e, <2>r, <3>1, <3>2, <3>3 DEF Reading
    <2>3. ASSUME pc[q] = "prepare"
          PROVE  \E a, b \in 0..gen'[q].made : Preparing(q, a, b)'
        <3>1. PICK a \in 0..gen[q].made, b \in 0..gen[q].made : Preparing(q, a, b)
            BY <1>c, <2>1, <2>3 DEF CbStreamInv
        <3>2. CASE /\ last[q].tok = b + 1 /\ Outputs(gen[q], out[q], b + 1)
                   /\ last[q].fin = (gen[q].st = "FINISHED" /\ b + 1 = gen[q].made)
            <4>1. Outputs(gen'[q], out'[q], b + 1)
                BY <1>o, <2>3, <2>r, <3>2
            <4>2. b + 1 <= gen[q].made
                <5>1. gen[q].made - (b + 1) >= 0
                    BY <3>2 DEF Outputs
                <5> QED BY <1>t, <2>r, <5>1
            <4>3. (gen[q].st = "FINISHED" /\ b + 1 = gen[q].made)
                     = (gen'[q].st = "FINISHED" /\ b + 1 = gen'[q].made)
                <5>1. CASE gen'[q] = gen[q]
                    BY <5>1
                <5>2. CASE gen[q].in
                    <6>1. gen[q].st # "FINISHED"
                        BY <1>s, <5>2
                    <6>2. \/ gen'[q].made = gen[q].made + 1
                          \/ gen'[q].st # "FINISHED"
                        BY <1>e, <1>s, <5>2 DEF Stepped
                    <6> QED BY <1>t, <4>2, <6>1, <6>2
                <5> QED BY <1>e, <5>1, <5>2 DEF Stepped
            <4> QED BY <1>e, <2>r, <3>1, <3>2, <4>1, <4>3 DEF Preparing
        <3>3. CASE /\ last[q].tok = 0 /\ last[q].fin /\ Outputs(gen[q], out[q], b)
                   /\ gen[q].st \notin {"RUNNING", "FINISHED"}
            <4>1. Outputs(gen'[q], out'[q], b)
                BY <1>o, <2>3, <2>r, <3>3
            <4>2. gen'[q].st \notin {"RUNNING", "FINISHED"}
                BY <1>e, <3>3 DEF Stepped
            <4> QED BY <1>e, <2>r, <3>1, <3>3, <4>1, <4>2 DEF Preparing
        <3> QED BY <3>1, <3>2, <3>3 DEF Preparing
    <2> QED BY <1>e, <2>2, <2>3 DEF CbStreamInv
<1>4. CbOverInv(q)'
    <2>1. 0..gen[q].made \subseteq 0..gen'[q].made
        BY <1>t, <1>m
    <2> QED BY <1>c, <1>e, <1>r, <2>1 DEF CbOverInv
<1> QED BY <1>1, <1>2, <1>3, <1>4 DEF ManyInv

-----------------------------------------------------------------------------
(* The theorems.                                                           *)

LlmInv ==
    /\ Types /\ QueueInv
    /\ \A r \in Req : CommonInv(r) /\ (Legacy => OneInv(r)) /\ (CB => ManyInv(r))

\* The invariant of every state.
LEMMA LlmInit == Init => LlmInv
<1> SUFFICES ASSUME Init PROVE LlmInv
    OBVIOUS
<1>t. Types
    <2>1. NoAsk \in ProfileType
        BY DEF NoAsk, ProfileType
    <2>2. ClientType
        BY <2>1 DEF Init, ClientType, Pcs, Statuses
    <2>3. Idle \in GenType /\ NoOutput \in OutputType /\ [d |-> <<>>, c |-> FALSE] \in ChannelType
        BY DEF Idle, GenType, NoOutput, OutputType, ChannelType
    <2>4. PipeType
        BY <2>3 DEF Init, PipeType, Works, Rests
    <2>5. ContextType
        BY <2>3 DEF Init, ContextType
    <2> QED BY <2>2, <2>4, <2>5 DEF Types
<1>q. QueueInv
    BY DEF Init, QueueInv, Works
<1>1. ASSUME NEW r \in Req PROVE CommonInv(r) /\ OneInv(r) /\ ManyInv(r)
    <2>1. /\ ask[r] = NoAsk /\ pc[r] = "idle" /\ status[r] = "none" /\ conn[r] /\ hook[r] = "none"
          /\ ~gone[r] /\ gen[r] = Idle /\ out[r] = <<>> /\ held[r] = <<>>
          /\ chan[r].d = <<>> /\ taken[r] = <<>> /\ ~ready[r] /\ success[r] /\ sent[r] = <<>>
        BY DEF Init
    <2>2. ~InQueue(r) /\ ~WorksOn(r)
        BY DEF Init, InQueue, WorksOn, Works
    <2>3. gen[r].made = 0 /\ gen[r].st = "none" /\ ~gen[r].in /\ Total(r) = 0 /\ ask[r].len = 0
          /\ ~ask[r].stream
        BY <2>1 DEF Idle, NoAsk, Total
    <2>4. CommonInv(r)
        BY <2>1, <2>2, ConstantsUnfinished
           DEF CommonInv, ClientInv, StageInv, SentInv, Before
    <2>5. 0 \in 0..gen[r].made /\ Carries(<<>>, 0, 0) /\ Carries(Deltas(<<>>), 0, 0)
        BY <2>3, EmptyCarries
    <2>6. LegacyInv(r)
        BY <2>1, <2>2, <2>3 DEF LegacyInv, Fresh
    <2>7. WorkInv(r) /\ OverInv(r)
        BY <2>1, <2>2 DEF WorkInv, OverInv
    <2>8. ChainInv(r)
        BY <2>1, <2>3, <2>5 DEF ChainInv
    <2>9. CbInv(r)
        BY <2>1, <2>3 DEF CbInv
    <2>10. CbUnaryInv(r) /\ CbStreamInv(r) /\ CbOverInv(r)
        BY <2>1 DEF CbUnaryInv, CbStreamInv, CbOverInv
    <2> QED BY <2>4, <2>6, <2>7, <2>8, <2>9, <2>10 DEF OneInv, ManyInv
<1> QED BY <1>t, <1>q, <1>1 DEF LlmInv

\* The executor between two requests, and the destructor, touch no request.
LEMMA Rested ==
    ASSUME Types, Run \/ WaitForRequests \/ Stop \/ StopNotify, NEW q \in Req
    PROVE  Same(q) /\ Still(q)
<1>1. UNCHANGED <<ask, pc, status, client, pipeVars, ctxVars, sent>>
    BY DEF Run, WaitForRequests, Stop, StopNotify
<1>2. /\ queue' = queue /\ servable' = servable
      /\ ex' = ex \/ (ex \in Rests /\ ex' \in Rests \cup {"front"})
    BY DEF Run, WaitForRequests, Stop, StopNotify, Rests
<1> QED BY <1>1, <1>2, QueueKept DEF Same, client, pipeVars, ctxVars

\* Every step keeps the types
LEMMA TypesKept ==
    ASSUME Types, QueueInv, Next
    PROVE  Types'
<1>1. ASSUME NEW r \in Req, Submit(r) \/ Calculator(r) PROVE Types'
    <2>1. ClientType'
        BY <1>1, ControlTyped, SentTyped DEF ClientType
    <2>2. PipeType'
        BY <1>1, ControlTyped, PipeTyped DEF PipeType, Types
    <2>3. ContextType'
        BY <1>1, ControlTyped, PipeTyped, ContextTyped DEF ContextType, Types
    <2> QED BY <2>1, <2>2, <2>3 DEF Types
<1>2. CASE (\E r \in Req : Disconnect(r) \/ OnDisconnected(r)) \/ Executor \/ Stop \/ StopNotify
    BY <1>2, OthersTyped DEF QueueInv
<1> QED BY <1>1, <1>2 DEF Next

\* and the whole invariant.
LEMMA LlmNext == LlmInv /\ [Next]_vars => LlmInv'
<1> SUFFICES ASSUME LlmInv, [Next]_vars PROVE LlmInv'
    OBVIOUS
<1>i. Types /\ QueueInv
    BY DEF LlmInv
<1>r. \A r \in Req : CommonInv(r) /\ (Legacy => OneInv(r)) /\ (CB => ManyInv(r))
    BY DEF LlmInv
\* Requests that a step leaves alone.
<1>s. ASSUME NEW q \in Req, Same(q), Still(q)
      PROVE  CommonInv(q)' /\ (Legacy' => OneInv(q)') /\ (CB' => ManyInv(q)')
    <2>1. (CB' <=> CB) /\ (Legacy' <=> Legacy)
        BY <1>s DEF Still, CB, Legacy
    <2> QED BY <1>r, <1>s, <2>1, SameKeeps, SameKeepsMany
<1>1. ASSUME NEW r \in Req, Submit(r) \/ Calculator(r) \/ Disconnect(r) \/ OnDisconnected(r)
      PROVE  LlmInv'
    <2>0. Next
        BY <1>1 DEF Next
    <2>t. Types'
        BY <1>i, <2>0, TypesKept
    <2>c. CommonInv(r)
        BY <1>r
    <2>q. QueueInv' /\ \A q \in Req \ {r} : Still(q)
        BY <1>i, <1>1, <2>c, QueueAfter DEF CommonInv
    <2>v. servable' = servable
        BY <1>1, <1>i, <2>c, <1>r, LegacyEffects, CbEffects DEF Legacy
    <2>1. CommonInv(r)'
        BY <1>i, <1>1, <2>c, ClientKept, StageKept, SentKept DEF CommonInv
    <2>2. Legacy => OneInv(r)'
        <3> SUFFICES ASSUME Legacy PROVE OneInv(r)'
            OBVIOUS
        <3>1. OneInv(r)
            BY <1>r
        <3> QED BY <1>i, <1>1, <2>t, <2>c, <3>1, LegacyKept, ChainKept, OverKept DEF OneInv
    <2>3. CB => ManyInv(r)'
        <3> SUFFICES ASSUME CB PROVE ManyInv(r)'
            OBVIOUS
        <3>1. ManyInv(r)
            BY <1>r
        <3> QED BY <1>i, <1>1, <2>c, <3>1, CbKept, UnaryKept, StreamKept, OverKeptMany
               DEF ManyInv
    <2>4. ASSUME NEW q \in Req \ {r}
          PROVE  CommonInv(q)' /\ (Legacy' => OneInv(q)') /\ (CB' => ManyInv(q)')
        BY <1>i, <1>1, <1>s, <2>q, OthersSame
    <2>5. (CB' <=> CB) /\ (Legacy' <=> Legacy)
        BY <2>v DEF CB, Legacy
    <2> QED BY <2>t, <2>q, <2>1, <2>2, <2>3, <2>4, <2>5 DEF LlmInv
<1>2. CASE Run \/ WaitForRequests \/ Stop \/ StopNotify
    <2>1. Executor \/ Stop \/ StopNotify
        BY <1>2 DEF Executor
    <2>2. Types' /\ QueueInv'
        BY <1>i, <2>1, TypesKept, ExecutorQueue DEF Next
    <2>3. \A q \in Req : Same(q) /\ Still(q)
        BY <1>i, <1>2, Rested
    <2> QED BY <1>s, <2>2, <2>3 DEF LlmInv
<1>3. CASE Step
    <2>1. Executor /\ CB /\ servable' = servable
        BY <1>i, <1>3 DEF Executor, QueueInv, Step
    <2>2. Types' /\ QueueInv'
        BY <1>i, <2>1, TypesKept, ExecutorQueue DEF Next
    <2>3. CB' /\ ~Legacy'
        BY <2>1 DEF CB, Legacy
    <2>4. ASSUME NEW q \in Req PROVE CommonInv(q)' /\ ManyInv(q)'
        <3>1. CommonInv(q) /\ ManyInv(q)
            BY <1>r, <2>1
        <3> QED BY <1>i, <1>3, <2>1, <2>2, <3>1, ExecutorCommon, StepMany
    <2> QED BY <2>2, <2>3, <2>4 DEF LlmInv
<1>4. CASE Serves
    <2>1. Executor
        BY <1>4 DEF Executor, Serves
    <2>2. Types' /\ QueueInv'
        BY <1>i, <2>1, TypesKept, ExecutorQueue DEF Next
    <2>3. PICK f \in Req : f = Front
        BY <1>i, <1>4, ServesFront
    <2>4. /\ Legacy /\ servable' = servable
          /\ \A q \in Req \ {f} : Same(q) /\ Still(q)
        BY <1>i, <1>4, <2>3, ServesOthers
    <2>5. CommonInv(f)' /\ OneInv(f)'
        <3>1. CommonInv(f) /\ OneInv(f)
            BY <1>r, <2>4
        <3> QED BY <1>i, <1>4, <2>1, <2>2, <2>3, <3>1, ExecutorCommon, ServesKept
    <2>6. ~CB'
        BY <2>4 DEF CB, Legacy
    <2>7. \A q \in Req \ {f} : CommonInv(q)' /\ (Legacy' => OneInv(q)') /\ (CB' => ManyInv(q)')
        BY <1>s, <2>4
    <2> QED BY <2>2, <2>5, <2>6, <2>7 DEF LlmInv
<1>5. CASE UNCHANGED vars
    <2>1. UNCHANGED <<ask, pc, status, conn, hook, gone, gen, out, last, held, chan, taken,
                      ready, success, sent, servable, queue, ex, finish>>
        BY <1>5 DEF vars
    <2>2. Types' /\ QueueInv'
        <3>1. ClientType' /\ PipeType' /\ ContextType'
            BY <1>i, <2>1 DEF Types, ClientType, PipeType, ContextType
        <3>2. QueueInv'
            BY <1>i, <2>1 DEF QueueInv, CB, Legacy
        <3> QED BY <3>1, <3>2 DEF Types
    <2>3. \A q \in Req : Same(q) /\ Still(q)
        BY <2>1, QueueKept DEF Same
    <2> QED BY <1>s, <2>2, <2>3 DEF LlmInv
<1> QED BY <1>1, <1>2, <1>3, <1>4, <1>5 DEF Next, Executor, Serves

\* It holds in every state of every behaviour.
LEMMA LlmAlways == Spec => []LlmInv
BY LlmInit, LlmNext, PTL DEF Spec

\* A request that waits in the queue of the executor of an LM or OMNI servable
\* is marked once its client has gone and the callbacks have run: by the callback
\* that RegisterDisconnectionCallback set, or by the look at the connection that
\* ScheduleExecution takes after it.
THEOREM DisconnectionIsSeen == Spec => []DisconnectionSeen
<1>1. ASSUME LlmInv PROVE DisconnectionSeen
    BY <1>1 DEF LlmInv, CommonInv, ClientInv, DisconnectionSeen, InQueue
<1> QED BY <1>1, LlmAlways, PTL

\* The invariant has the three parts of AnswersFaithful: the types,
LEMMA TypeHolds == LlmInv => TypeOK
<1> SUFFICES ASSUME LlmInv PROVE TypeOK
    OBVIOUS
<1>i. Types /\ QueueInv
    BY DEF LlmInv
<1>1. ASSUME NEW r \in Req
      PROVE  /\ pc[r] \in Pcs /\ status[r] \in Statuses /\ hook[r] \in {"none", "set", "due"}
             /\ gen[r].st \in {"none", "RUNNING", "FINISHED", "STOP", "IGNORED", "FAILED", "CANCELLED"}
    <2>1. gen[r] \in GenType
        BY <1>i, TypesAt
    <2>2. gen[r].st \in {"none", "RUNNING", "FINISHED", "STOP", "IGNORED", "FAILED", "CANCELLED"}
        BY <2>1 DEF GenType
    <2> QED BY <1>i, <2>2 DEF Types, ClientType
<1>2. ASSUME NEW r \in Req
      PROVE  /\ gen[r].made \in 0..Total(r)
             /\ \A i \in 1..Len(chan[r].d) : chan[r].d[i] \in 0..Total(r)
    <2>t. /\ gen[r].made \in Nat /\ Total(r) \in Nat /\ ask[r].len \in Nat
          /\ \A i \in 1..Len(chan[r].d) : chan[r].d[i] \in Nat
        <3>1. chan[r].d \in Seq(Nat)
            BY <1>i, TypesAt
        <3>2. \A i \in 1..Len(chan[r].d) : chan[r].d[i] \in Nat
            BY <3>1
        <3> QED BY <1>i, <3>2, TypesAt, TotalTyped
    <2>1. CASE Legacy
        <3>1. /\ gen[r].made <= Total(r)
              /\ \A i \in 1..Len(chan[r].d) : chan[r].d[i] <= gen[r].made
            BY <2>1 DEF LlmInv, OneInv, LegacyInv
        <3> QED BY <2>t, <3>1
    <2>2. CASE CB
        <3>1. gen[r].made <= ask[r].len /\ chan[r].d = <<>>
            BY <2>2 DEF LlmInv, ManyInv, CbInv
        <3>2. Total(r) = ask[r].len
            BY <2>t, <2>2 DEF Total, CB
        <3> QED BY <2>t, <3>1, <3>2
    <2> QED BY <2>1, <2>2 DEF Legacy
<1>3. /\ servable \in {"CB", "LM", "OMNI"} /\ finish \in {"no", "set", "notified"}
      /\ \A i, j \in 1..Len(queue) : queue[i] \in Req /\ (queue[i] = queue[j] => i = j)
      /\ ex \in Works => queue # <<>>
    BY <1>i DEF Types, PipeType, QueueInv
<1> QED BY <1>1, <1>2, <1>3 DEF TypeOK, Pcs, Statuses, Works

\* the chunks sent as the first tokens of the generation,
LEMMA PrefixHolds ==
    ASSUME LlmInv, NEW r \in Req, ask[r].stream
    PROVE  \E n \in 0..gen[r].made : Carries(Deltas(sent[r]), 0, n)
<1>i. Types /\ StageInv(r) /\ SentInv(r) /\ (Legacy => OneInv(r)) /\ (CB => ManyInv(r))
    BY DEF LlmInv, CommonInv
<1>1. CASE Legacy
    BY <1>i, <1>1 DEF OneInv, OverInv, ChainInv
<1>2. CASE CB /\ pc[r] \in {"idle", "load", "check", "add"}
    <2>1. sent[r] = <<>>
        BY <1>i, <1>2 DEF SentInv, Before
    <2>2. 0 \in 0..gen[r].made
        BY <1>i, TypesAt
    <2> QED BY <2>1, <2>2, EmptyCarries
<1>3. CASE CB /\ pc[r] \in {"register", "notify", "read", "reading", "prepare", "over"}
    BY <1>i, <1>3 DEF ManyInv, CbStreamInv, Reading, Preparing, CbOverInv
<1>4. CB => pc[r] \notin {"waiting", "drained", "finishing"}
    BY <1>i DEF StageInv, Legacy
<1>5. pc[r] \in Pcs
    BY <1>i DEF Types, ClientType
<1> QED BY <1>1, <1>2, <1>3, <1>4, <1>5 DEF Legacy, Pcs

\* streams that end well,
LEMMA StreamHolds == LlmInv => StreamFaithful
<1> SUFFICES ASSUME LlmInv, NEW r \in Req, ask[r].stream
    PROVE  /\ \E n \in 0..gen[r].made : Carries(Deltas(sent[r]), 0, n)
           /\ status[r] = "ok" /\ ask[r].uri # "tokenize" /\ conn[r] =>
              LET n == Len(sent[r])
                  fins == {i \in 1..n : sent[r][i].fin} IN
              /\ sent[r][n] = Done
              /\ \/ sent[r][n - 1] = Failed /\ fins = {}
                 \/ /\ fins = {n - 1 - (IF ask[r].usage THEN 1 ELSE 0)}
                    /\ Carries(Deltas(sent[r]), 0, gen[r].made)
                    /\ Legacy => gen[r].st = "FINISHED" /\ success[r]
    BY DEF StreamFaithful
<1>1. \E n \in 0..gen[r].made : Carries(Deltas(sent[r]), 0, n)
    BY PrefixHolds
<1>2. ASSUME status[r] = "ok", ask[r].uri # "tokenize", conn[r]
      PROVE  \/ EndsFailed(sent[r])
             \/ /\ EndsWell(sent[r], ask[r].usage)
                /\ Carries(Deltas(sent[r]), 0, gen[r].made)
                /\ Legacy => gen[r].st = "FINISHED" /\ success[r]
    <2>1. pc[r] = "over"
        BY <1>2 DEF LlmInv, CommonInv, StageInv
    <2>2. Legacy \/ CB
        BY DEF Legacy
    <2>3. CASE Legacy
        BY <1>2, <2>1, <2>3 DEF LlmInv, OneInv, OverInv
    <2>4. CASE CB
        BY <1>2, <2>1, <2>4 DEF LlmInv, ManyInv, CbOverInv, Legacy
    <2> QED BY <2>2, <2>3, <2>4
<1>3. ASSUME EndsFailed(sent[r])
      PROVE  /\ sent[r][Len(sent[r])] = Done /\ sent[r][Len(sent[r]) - 1] = Failed
             /\ {i \in 1..Len(sent[r]) : sent[r][i].fin} = {}
    BY <1>3 DEF EndsFailed, Unfinished
<1> QED BY <1>1, <1>2, <1>3 DEF EndsWell

\* and whole answers in one piece.
LEMMA UnaryHolds == LlmInv => UnaryWhole
<1> SUFFICES ASSUME LlmInv, NEW r \in Req, status[r] = "ok", ~ask[r].stream,
                    ask[r].uri # "tokenize"
    PROVE  /\ gen[r].st \in {"FINISHED", "IGNORED"} /\ success[r]
           /\ Carries(Deltas(sent[r]), 0, gen[r].made)
           /\ gen[r].st = "FINISHED" => gen[r].made = Total(r)
    BY DEF UnaryWhole
<1>1. pc[r] = "over"
    BY DEF LlmInv, CommonInv, StageInv
<1>2. CASE Legacy
    BY <1>1, <1>2 DEF LlmInv, OneInv, OverInv
<1>3. CASE CB
    <2>1. CbInv(r) /\ CbOverInv(r)
        BY <1>3 DEF LlmInv, ManyInv
    <2>2. ask[r].len \in Nat
        BY TotalTyped DEF LlmInv
    <2>3. Total(r) = ask[r].len
        BY <1>3, <2>2 DEF Total, CB
    <2> QED BY <1>1, <2>1, <2>3 DEF CbInv, CbOverInv
<1> QED BY <1>2, <1>3 DEF Legacy

\* What a client is sent is the generation: in a stream the tokens in order, one
\* finish reason after all of them and [DONE] last, in one piece the whole of it;
\* for any number of requests, whatever they ask for, whenever their clients
\* leave and however steps of the calculators, the callbacks and the executor
\* alternate.
THEOREM AnswersAreFaithful == Spec => []AnswersFaithful
<1>1. LlmInv => AnswersFaithful
    BY TypeHolds, StreamHolds, UnaryHolds DEF AnswersFaithful
<1> QED BY <1>1, LlmAlways, PTL
=============================================================================

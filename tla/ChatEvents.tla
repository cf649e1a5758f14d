----------------------------- MODULE ChatEvents -----------------------------
(* What a client of the chat endpoints is told of a generation: the events   *)
(* of the Responses API (src/llm/apis/openai_responses.cpp), the chunks of   *)
(* chat completions (openai_completions.cpp) and the unary answers of both,  *)
(* made of the deltas that TextStreaming publishes. The serializers keep     *)
(* their own state over a stream; each operator takes it and gives it back.  *)
(*                                                                           *)
(* An event has its type, the item it is about, the output_index it gives    *)
(* for it, and the text it carries. The JSON, the ids, the status of items   *)
(* and the usage are left out; sequence_number is the place of an event, and *)
(* the id of a tool call its index.                                          *)
EXTENDS TextStreaming

ResponseId == <<"resp", 0>>
ReasoningId == <<"rs", 0>>
MessageId == <<"msg", 0>>
CallId(i) == <<"call", i>>
Event(type, item, at, body) == [type |-> type, item |-> item, at |-> at, text |-> body]
OutputItem(item, name, body) == [item |-> item, name |-> name, text |-> body]

ResponsesStreamingState ==
    [createdSent |-> FALSE, inProgressSent |-> FALSE,
     reasoningInitialized |-> FALSE, reasoningCompleted |-> FALSE,
     messageInitialized |-> FALSE,
     outputText |-> <<>>, reasoningText |-> <<>>, toolCalls |-> <<>>,
     events |-> <<>>]
Emit(s, es) == [s EXCEPT !.events = @ \o es]
BaseIdx(s) == IF s.reasoningInitialized THEN 1 ELSE 0

(***************************************************************************)
(* The items of an answer: reasoning, tool calls, and the message if it    *)
(* has text. serializeResponseObject and serializeUnaryResponseImpl list   *)
(* them alike.                                                             *)
(***************************************************************************)
OutputItems(thought, calls, said) ==
    (IF thought = <<>> THEN <<>> ELSE <<OutputItem(ReasoningId, <<>>, thought)>>)
    \o [i \in 1..Len(calls) |-> OutputItem(CallId(i - 1), calls[i].name, calls[i].arguments)]
    \o (IF said = <<>> THEN <<>> ELSE <<OutputItem(MessageId, <<>>, said)>>)
SerializeResponseObject(s, includesText) ==
    OutputItems(s.reasoningText, s.toolCalls, IF includesText THEN s.outputText ELSE <<>>)

SerializeStreamingCreatedEvent(s) ==
    IF s.createdSent THEN s
    ELSE [Emit(s, <<Event("created", ResponseId, 0, SerializeResponseObject(s, FALSE))>>)
             EXCEPT !.createdSent = TRUE]
SerializeStreamingInProgressEvent(s) ==
    IF s.inProgressSent THEN s
    ELSE [Emit(s, <<Event("in_progress", ResponseId, 0, SerializeResponseObject(s, FALSE))>>)
             EXCEPT !.inProgressSent = TRUE]
LifecycleEvents(s) == SerializeStreamingInProgressEvent(SerializeStreamingCreatedEvent(s))

(***************************************************************************)
(* The events of a delta.                                                  *)
(***************************************************************************)
AppendReasoningDeltaEvents(s, d) ==
    LET begun == IF s.reasoningInitialized THEN s
                 ELSE [Emit(s, <<Event("added", ReasoningId, 0, <<>>),
                                 Event("part_added", ReasoningId, 0, <<>>)>>)
                          EXCEPT !.reasoningInitialized = TRUE]
    IN [Emit(begun, <<Event("delta", ReasoningId, 0, d.text)>>)
           EXCEPT !.reasoningText = @ \o d.text]

ReasoningDone(s) ==
    Emit(s, <<Event("text_done", ReasoningId, 0, s.reasoningText),
              Event("part_done", ReasoningId, 0, s.reasoningText),
              Event("done", ReasoningId, 0, s.reasoningText)>>)
\* Mutant: the flag is not set, and the reasoning is closed again at the end.
CloseReasoningUnmarked(s) ==
    IF s.reasoningInitialized /\ ~s.reasoningCompleted THEN ReasoningDone(s) ELSE s
CloseReasoning(s) ==
    IF s.reasoningInitialized /\ ~s.reasoningCompleted
    THEN [ReasoningDone(s) EXCEPT !.reasoningCompleted = TRUE] ELSE s

WithMessage(s, at) ==
    IF s.messageInitialized THEN s
    ELSE [Emit(s, <<Event("added", MessageId, at, <<>>), Event("part_added", MessageId, at, <<>>)>>)
             EXCEPT !.messageInitialized = TRUE]
AppendContentDeltaEvents(s, d) ==
    IF d.text = <<>> THEN s
    ELSE LET open == WithMessage(CloseReasoning(s), BaseIdx(s))
         IN [Emit(open, <<Event("delta", MessageId, BaseIdx(s), d.text)>>)
                EXCEPT !.outputText = @ \o d.text]

(* The first delta of a call names it; the list grows up to its index.       *)
NoCall == [name |-> <<>>, arguments |-> <<>>]
Padded(calls, size) ==
    [i \in 1..(IF Len(calls) > size THEN Len(calls) ELSE size) |->
        IF i =< Len(calls) THEN calls[i] ELSE NoCall]
NamedCall(s, d) ==
    [Emit(s, <<Event("added", CallId(d.index), BaseIdx(s) + d.index, <<>>)>>)
        EXCEPT !.toolCalls = [Padded(@, d.index + 1)
                                 EXCEPT ![d.index + 1] = [name |-> d.text, arguments |-> <<>>]]]
CallWithArguments(s, d) ==
    IF d.text = <<>> \/ Len(s.toolCalls) =< d.index THEN s
    ELSE [Emit(s, <<Event("delta", CallId(d.index), BaseIdx(s) + d.index, d.text)>>)
             EXCEPT !.toolCalls[d.index + 1].arguments = @ \o d.text]
AppendToolCallDeltaEvents(s, d) ==
    IF d.kind = "name" THEN NamedCall(CloseReasoning(s), d)
    ELSE CallWithArguments(CloseReasoning(s), d)

AppendDeltaEvents(s, d) ==
    CASE d.kind = "reasoning" -> AppendReasoningDeltaEvents(s, d)
      [] d.kind = "content" -> AppendContentDeltaEvents(s, d)
      [] d.kind \in {"name", "args"} -> AppendToolCallDeltaEvents(s, d)
      [] OTHER -> s

(***************************************************************************)
(* The events of the end.                                                  *)
(***************************************************************************)
CallsDone(s) ==
    Emit(s, FlattenSeq([i \in 1..Len(s.toolCalls) |->
                <<Event("text_done", CallId(i - 1), BaseIdx(s) + i - 1, s.toolCalls[i].arguments),
                  Event("done", CallId(i - 1), BaseIdx(s) + i - 1, s.toolCalls[i].arguments)>>]))
MessageDone(s, at) ==
    Emit(WithMessage(s, at), <<Event("text_done", MessageId, at, s.outputText),
                               Event("part_done", MessageId, at, s.outputText),
                               Event("done", MessageId, at, s.outputText)>>)
DoneEvents(s) ==
    IF s.outputText # <<>> \/ s.toolCalls = <<>>
    THEN MessageDone(CallsDone(s), BaseIdx(s) + Len(s.toolCalls))
    ELSE CallsDone(s)
CompletedEvent(s, reason) ==
    Emit(s, <<Event(IF reason = "length" THEN "incomplete" ELSE "completed",
                    ResponseId, 0, SerializeResponseObject(s, TRUE))>>)
SerializeStreamingChunk(s, d, reason) ==
    LET said == AppendDeltaEvents(LifecycleEvents(s), d)
    IN IF reason = "none" THEN said
       ELSE CompletedEvent(DoneEvents(CloseReasoning(said)), reason)
SerializeFailedEvent(s) ==
    LET begun == LifecycleEvents(s)
    IN Emit(begun, <<Event("failed", ResponseId, 0, SerializeResponseObject(begun, TRUE))>>)

(***************************************************************************)
(* Chat completions, and the unary answers.                                *)
(***************************************************************************)
MapFinishReason(reason, hasToolCalls) ==
    IF hasToolCalls /\ reason = "stop" THEN "tool_calls" ELSE reason
ChatStreamStart == [detected |-> FALSE, chunks |-> <<>>]
ChatChunk(s, d, reason, hasToolCalls) ==
    [detected |-> s.detected \/ hasToolCalls,
     chunks |-> Append(s.chunks,
                       [delta |-> d, finish_reason |->
                           MapFinishReason(reason, hasToolCalls \/ s.detected)])]
SerializeChatChunk(s, d, reason) == ChatChunk(s, d, reason, d.kind \in {"name", "args"})

ParsedStart == [content |-> <<>>, reasoning |-> <<>>, toolCalls |-> <<>>]
ParsedWith(p, d) ==
    CASE d.kind = "content" -> [p EXCEPT !.content = @ \o d.text]
      [] d.kind = "reasoning" -> [p EXCEPT !.reasoning = @ \o d.text]
      [] d.kind = "name" ->
           [p EXCEPT !.toolCalls = [Padded(@, d.index + 1) EXCEPT ![d.index + 1].name = d.text]]
      [] d.kind = "args" ->
           [p EXCEPT !.toolCalls =
               [Padded(@, d.index + 1) EXCEPT ![d.index + 1].arguments = @ \o d.text]]
      [] OTHER -> p
ParsedOutputFromDeltas(deltas) == FoldLeft(ParsedWith, ParsedStart, deltas)
UnaryItems(p) == OutputItems(p.reasoning, p.toolCalls, p.content)
UnaryFinishReason(p, reason) == MapFinishReason(reason, p.toolCalls # <<>>)

(***************************************************************************)
(* The stream of a generation: the calculator sends response.created when  *)
(* the request is scheduled, and every delta in a chunk of its own, the    *)
(* last one with the reason of the end.                                    *)
(***************************************************************************)
Deltas == [i \in 1..Len(st.out) |-> st.out[i].delta]
ReasonAt(i, reason) == IF st.out[i].last THEN reason ELSE "none"
ResponsesStream(reason) ==
    FoldLeft(LAMBDA s, i : SerializeStreamingChunk(s, st.out[i].delta, ReasonAt(i, reason)),
             SerializeStreamingCreatedEvent(ResponsesStreamingState),
             [i \in 1..Len(st.out) |-> i])
ChatStream(reason) ==
    FoldLeft(LAMBDA s, i : SerializeChatChunk(s, st.out[i].delta, ReasonAt(i, reason)),
             ChatStreamStart, [i \in 1..Len(st.out) |-> i]).chunks
-----------------------------------------------------------------------------
IsCall(item) == item[1] = "call"
Opening(item) == IF IsCall(item) THEN <<"added">> ELSE <<"added", "part_added">>
Closing(item) ==
    IF IsCall(item) THEN <<"text_done", "done">> ELSE <<"text_done", "part_done", "done">>
Said(es) ==
    FlattenSeq([i \in 1..Len(es) |-> IF es[i].type = "delta" THEN es[i].text ELSE <<>>])
(* An item is announced, told in deltas and closed with all it was told; a   *)
(* stream that fails may stop in between.                                    *)
WholeItem(es, item, finished) ==
    LET mine == SelectSeq(es, LAMBDA e : e.item = item)
        types == [i \in 1..Len(mine) |-> mine[i].type]
        deltas == Cardinality({i \in 1..Len(mine) : types[i] = "delta"})
        life == Opening(item) \o [i \in 1..deltas |-> "delta"] \o Closing(item)
    IN /\ IF finished THEN types = life ELSE IsPrefix(types, life)
       /\ \A i \in 1..Len(mine) :
             mine[i].type \in {"text_done", "part_done", "done"} => mine[i].text = Said(mine)
(* An item is at one output_index, which is its own and its place in the     *)
(* output of the response.                                                   *)
OwnIndex(es, output) ==
    /\ \A i, j \in 3..(Len(es) - 1) : es[i].item = es[j].item <=> es[i].at = es[j].at
    /\ \A i \in 3..(Len(es) - 1) : \A k \in 1..Len(output) :
          es[i].item = output[k].item => es[i].at = k - 1
WholeStream(es, ends) ==
    LET items == {es[i].item : i \in 3..(Len(es) - 1)}
        output == es[Len(es)].text
    IN /\ es[1].type = "created" /\ es[2].type = "in_progress" /\ es[Len(es)].type \in ends
       /\ ResponseId \notin items
       /\ \A item \in items : WholeItem(es, item, "failed" \notin ends)
       /\ ~(MessageId \in items /\ CallId(0) \in items) => OwnIndex(es, output)

(* The events of a response, wherever it is cut and whether it ends or       *)
(* fails: it is created, in progress and ended once; each of its items is    *)
(* added before and closed after all that is said of it, once, though only   *)
(* the deltas of other items tell that it is over, and its closing text is   *)
(* what was streamed. Items keep apart by output_index unless text and tool  *)
(* calls are in one response.                                                *)
EventsWellFormed ==
    /\ st.completion = "Finished" =>
          WholeStream(ResponsesStream("length").events, {"incomplete"})
    /\ st.completion = "Open" =>
          WholeStream(SerializeFailedEvent(ResponsesStream("stop")).events, {"failed"})

(* A client gets the same answer whichever way it asks: in the output of     *)
(* the completed response, by adding up the chunks of chat completions, and  *)
(* in the unary answers; the reason of the end is told once, in the last     *)
(* chunk, and is the unary one.                                              *)
AddedUp(chunks, kind) ==
    FlattenSeq([i \in 1..Len(chunks) |->
                   IF chunks[i].delta.kind = kind THEN chunks[i].delta.text ELSE <<>>])
CallsAddedUp(chunks) ==
    LET ofCall(n) == SelectSeq(chunks, LAMBDA c : c.delta.index = n)
        indices == {chunks[i].delta.index : i \in 1..Len(chunks)} \ {-1}
    IN [n \in 1..Cardinality(indices) |->
           [name |-> AddedUp(ofCall(n - 1), "name"), arguments |-> AddedUp(ofCall(n - 1), "args")]]
AnswersAgree ==
    st.completion = "Finished" =>
        \A reason \in {"stop", "length"} :
            LET unary == ParsedOutputFromDeltas(Deltas)
                chunks == ChatStream(reason)
                events == ResponsesStream(reason).events
            IN /\ events[Len(events)].type = (IF reason = "stop" THEN "completed" ELSE "incomplete")
               /\ events[Len(events)].text = UnaryItems(unary)
               /\ AddedUp(chunks, "content") = unary.content
               /\ AddedUp(chunks, "reasoning") = unary.reasoning
               /\ CallsAddedUp(chunks) = unary.toolCalls
               /\ \A i \in 1..Len(chunks) :
                     chunks[i].finish_reason =
                         (IF i < Len(chunks) THEN "none" ELSE UnaryFinishReason(unary, reason))

(* What a client of either API is told.                                      *)
AnswersSound == EventsWellFormed /\ AnswersAgree
=============================================================================

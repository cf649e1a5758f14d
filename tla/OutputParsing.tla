--------------------------- MODULE OutputParsing ---------------------------
(* src/llm/io_processing: OutputParser, which routes the decoded text of a   *)
(* generation to the parser of the current phase, with the parsers of LFM2:  *)
(* Qwen3ReasoningParser (Lfm25ReasoningParser is one), DefaultContentParser  *)
(* and Lfm2ToolParser.                                                       *)
(*                                                                           *)
(* Text is a sequence of numbers. A number up to PLAIN is one character of   *)
(* ordinary text (each occurrence has its own, so that a lost, repeated or   *)
(* misrouted one shows); the larger ones are the characters that parsers     *)
(* look for. A tag is LT and one more character: all the tags of the code    *)
(* begin alike, and half of one may be all that has arrived. Arguments hold  *)
(* no quotes or brackets of their own, which                                 *)
(* findInStringRespectingSpecialChars would skip; their conversion to JSON   *)
(* is left out.                                                              *)
EXTENDS Integers, Sequences, SequencesExt

PLAIN == 99
LT == 101                                                      \* '<'
NL == 102                                                      \* newline
LIST == 103                                                    \* '['
OPEN == 104                                                    \* '('
CLOSE == 105                                                   \* ')'
SEPARATOR == 106                                               \* ", "
UNLIST == 107                                                  \* ']'
REPLACEMENT == 108                                             \* U+FFFD
THINK == <<LT, 111>>                                           \* <think>
UNTHINK == <<LT, 112>>                                         \* </think>
CALL == <<LT, 113>>                                            \* <|tool_call_start|>
UNCALL == <<LT, 114>>                                          \* <|tool_call_end|>
EOS == <<LT, 115>>                                             \* <|im_end|>

NoDelta == [kind |-> "none", text |-> <<>>, index |-> -1]
ContentDelta(t) == [kind |-> "content", text |-> t, index |-> -1]
ReasoningDelta(t) == [kind |-> "reasoning", text |-> t, index |-> -1]
NameDelta(i, t) == [kind |-> "name", text |-> t, index |-> i]
ArgsDelta(i, t) == [kind |-> "args", text |-> t, index |-> i]

(* buffer.find(tag, from): 0 stands for npos.                                *)
Find(s, t, from) ==
    LET at == {i \in from..(Len(s) - Len(t) + 1) : SubSeq(s, i, i + Len(t) - 1) = t}
    IN IF at = {} THEN 0 ELSE CHOOSE i \in at : \A j \in at : i =< j
From(s, i) == SubSeq(s, i, Len(s))
StringsOverlap(s, t) ==
    \E n \in 1..(IF Len(s) < Len(t) THEN Len(s) ELSE Len(t)) :
        SubSeq(s, Len(s) - n + 1, Len(s)) = SubSeq(t, 1, n)
RECURSIVE Erase(_, _)
Erase(s, t) ==
    LET at == Find(s, t, 1)
    IN IF at = 0 THEN s
       ELSE Erase(SubSeq(s, 1, at - 1) \o From(s, at + Len(t)), t)

LookupTag(buffer, tag) ==
    CASE Find(buffer, tag, 1) # 0 -> "complete"
      [] Find(buffer, tag, 1) = 0 /\ StringsOverlap(buffer, tag) -> "incomplete"
      [] OTHER -> "not_found"

(* What the parsers of a generation are: a reasoning parser whose tags are   *)
(* text (Qwen3ReasoningParser) or special tokens (Lfm25ReasoningParser), or  *)
(* none; the tool parser or none; whether the request has tools; whether the *)
(* prompt ends inside the reasoning.                                         *)
Configs == [reasoning : {"none", "text", "special"}, tool : BOOLEAN,
            tools : BOOLEAN, implicit : BOOLEAN]
DefaultDecodingWithSpecialTokens(c) == c.reasoning = "special"
NeedSpecialTokensForCurrentDecode(c, phase) ==
    CASE phase \in {"CONTENT", "UNKNOWN"} -> DefaultDecodingWithSpecialTokens(c)
      [] phase = "REASONING" -> c.reasoning = "special"
      [] OTHER -> TRUE

ToolParserStart ==
    [content |-> <<>>, position |-> 0, state |-> "Content", args |-> <<>>,
     index |-> -1]
(* resetStreamingState and detectAndSetImplicitReasoningStart.               *)
ResetStreamingState(c) ==
    [phase |-> IF c.implicit /\ c.reasoning # "none" THEN "REASONING" ELSE "UNKNOWN",
     cache |-> <<>>, terminal |-> FALSE, entered |-> FALSE,
     tool |-> ToolParserStart]

(***************************************************************************)
(* Lfm2ToolParser: a call of parseChunk takes at most one step of it.      *)
(* Each step gives the parser after it and whether it made progress.       *)
(***************************************************************************)
ParseInContentState(t) ==
    LET s == Find(t.content, CALL, t.position + 1)
        e == Find(t.content, UNCALL, t.position + 1)
    IN CASE e # 0 /\ s = 0 -> [t |-> [t EXCEPT !.position = e + 1], ok |-> FALSE]
         [] s > t.position + 1 -> [t |-> t, ok |-> TRUE]
         [] s = t.position + 1 ->
              [t |-> [t EXCEPT !.state = "ToolCallStarted", !.position = s + 1],
               ok |-> FALSE]
         [] OTHER -> [t |-> t, ok |-> TRUE]
ParseInToolCallState(t) ==
    LET list == Find(t.content, <<LIST>>, t.position + 1)
        args == Find(t.content, <<OPEN>>, t.position + 1)
        any == Find(t.content, <<LIST>>, 1)
        begin == IF list # 0 THEN list ELSE t.position
    IN IF args = 0 \/ (list = 0 /\ (any = 0 \/ any >= args))
       THEN [t |-> [t EXCEPT !.position = begin], ok |-> FALSE, name |-> <<>>]
       ELSE [t |-> [t EXCEPT !.position = args, !.args = <<>>, !.index = @ + 1,
                             !.state = "ToolCallParameters"],
             ok |-> TRUE,
             name |-> IF args < begin THEN From(t.content, begin + 1)
                      ELSE SubSeq(t.content, begin + 1, args - 1)]
ParseInToolCallParametersState(t) ==
    LET end == Find(t.content, <<CLOSE>>, t.position + 1)
    IN IF end = 0 THEN [t |-> t, ok |-> FALSE]
       ELSE [t |-> [t EXCEPT !.args = SubSeq(t.content, t.position + 1, end - 1),
                             !.position = end, !.state = "ToolCallEnded"],
             ok |-> TRUE]
\* Mutant: a missing "]" is position 0, before every separator.
ParseInToolCallEndedNoNpos(t) ==
    LET unlist == Find(t.content, <<UNLIST>>, t.position + 1)
        separator == Find(t.content, <<SEPARATOR>>, t.position + 1)
        end == Find(t.content, UNCALL, t.position + 1)
    IN CASE unlist = 0 /\ separator = 0 /\ end = 0 -> [t |-> t, ok |-> FALSE]
         [] separator # 0 /\ separator < unlist ->
              [t |-> [t EXCEPT !.position = separator, !.state = "ToolCallStarted"],
               ok |-> TRUE]
         [] OTHER -> [t |-> [t EXCEPT !.position = IF end # 0 THEN end + 1 ELSE unlist,
                                      !.state = "AfterToolCall"], ok |-> TRUE]
(* A missing "]" is npos, larger than every position.                        *)
ParseInToolCallEndedState(t) ==
    LET unlist == Find(t.content, <<UNLIST>>, t.position + 1)
        separator == Find(t.content, <<SEPARATOR>>, t.position + 1)
        end == Find(t.content, UNCALL, t.position + 1)
    IN CASE unlist = 0 /\ separator = 0 /\ end = 0 -> [t |-> t, ok |-> FALSE]
         [] separator # 0 /\ (unlist = 0 \/ separator < unlist) ->
              [t |-> [t EXCEPT !.position = separator, !.state = "ToolCallStarted"],
               ok |-> TRUE]
         [] (separator = 0 \/ (unlist # 0 /\ unlist < separator)) /\ end # 0 ->
              [t |-> [t EXCEPT !.position = end + 1, !.state = "AfterToolCall"],
               ok |-> TRUE]
         [] OTHER ->
              [t |-> [t EXCEPT !.position = unlist, !.state = "AfterToolCall"],
               ok |-> TRUE]

CutEOSFromContent(s) ==
    LET at == Find(s, EOS, 1) IN IF at = 0 THEN s ELSE SubSeq(s, 1, at - 1)
(* The content up to the next start tag, published; t if there is none.      *)
PublishContent(t) ==
    LET s == Find(t.content, CALL, t.position + 1)
        end == IF s # 0 THEN s - 1 ELSE Len(t.content)
        text == CutEOSFromContent(SubSeq(t.content, t.position + 1, end))
    IN [t |-> [t EXCEPT !.position = end],
        d |-> IF text = <<>> THEN NoDelta ELSE ContentDelta(text)]

(* After a step that published nothing a final call flushes what is left.    *)
Flush(t, fin) ==
    CASE fin /\ t.state \in {"ToolCallParameters", "ToolCallEnded"} /\ t.args # <<>> ->
           [t |-> t, d |-> ArgsDelta(t.index, t.args)]
      [] fin /\ t.state = "Content" /\ t.position < Len(t.content) ->
           LET text == CutEOSFromContent(From(t.content, t.position + 1))
           IN [t |-> [t EXCEPT !.position = Len(t.content)],
               d |-> IF text = <<>> THEN NoDelta ELSE ContentDelta(text)]
      [] OTHER -> [t |-> t, d |-> NoDelta]

PublishedOr(p, fin) == IF p.d # NoDelta THEN p ELSE Flush(p.t, fin)
ContentStep(r, fin) == PublishedOr(IF r.ok THEN PublishContent(r.t)
                                   ELSE [t |-> r.t, d |-> NoDelta], fin)
NameStep(r, fin) ==
    PublishedOr([t |-> r.t, d |-> IF r.ok THEN NameDelta(r.t.index, r.name) ELSE NoDelta],
                fin)
ArgsStep(r, fin) ==
    IF r.ok THEN [t |-> [r.t EXCEPT !.args = <<>>], d |-> ArgsDelta(r.t.index, r.t.args)]
    ELSE Flush(r.t, fin)
EndStep(r, fin) ==
    Flush(IF r.t.state = "AfterToolCall" THEN [r.t EXCEPT !.state = "Content"] ELSE r.t,
          fin)
Lfm2ParseChunk(t0, chunk, fin) ==
    LET t == [t0 EXCEPT !.content = @ \o chunk]
    IN CASE chunk = <<>> /\ t0.state \notin {"ToolCallParameters", "ToolCallEnded"} ->
              [t |-> t0, d |-> NoDelta]
         [] chunk # <<>> /\ t0.state = "Content" ->
              ContentStep(ParseInContentState(t), fin)
         [] chunk # <<>> /\ t0.state = "ToolCallStarted" ->
              NameStep(ParseInToolCallState(t), fin)
         [] t0.state = "ToolCallParameters" ->
              ArgsStep(ParseInToolCallParametersState(t), fin)
         [] t0.state = "ToolCallEnded" ->
              EndStep(ParseInToolCallEndedState(t), fin)

(***************************************************************************)
(* Qwen3ReasoningParser and DefaultContentParser.                          *)
(***************************************************************************)
Held(p) == [p |-> p, d |-> NoDelta]
Qwen3ParseChunk(p, chunk) ==
    LET end == Find(chunk, UNTHINK, 1)
        body == IF end = 0 THEN chunk ELSE SubSeq(chunk, 1, end - 1)
        start == IF p.entered THEN 0 ELSE Find(body, THINK, 1)
        text == IF start = 0 THEN body ELSE From(body, start + Len(THINK))
    IN IF chunk = <<>> THEN Held(p)
       ELSE [p |-> [p EXCEPT !.entered = TRUE],
             d |-> IF text = <<>> THEN NoDelta ELSE ReasoningDelta(text)]

(* stringsToErase is <|im_end|> when the tool parser is lfm2.                *)
DefaultContentHolds(c, buffer, fin) ==
    c.tool /\ ~fin /\ Find(buffer, EOS, 1) = 0 /\ StringsOverlap(buffer, EOS)
DefaultContentText(c, buffer) == IF c.tool THEN Erase(buffer, EOS) ELSE buffer

(***************************************************************************)
(* OutputParser.                                                           *)
(***************************************************************************)
ParseContentChunk(c, p, fin) ==
    LET text == DefaultContentText(c, p.cache)
    IN IF DefaultContentHolds(c, p.cache, fin \/ p.terminal) THEN [p |-> p, d |-> NoDelta]
       ELSE [p |-> [p EXCEPT !.cache = <<>>, !.phase = "CONTENT"],
             d |-> IF text = <<>> THEN NoDelta ELSE ContentDelta(text)]

AfterTool(p, r) == [p |-> [p EXCEPT !.tool = r.t], d |-> r.d]
ParseToolCallChunk(p, fin, newPhase) ==
    LET end == Find(p.cache, UNCALL, 1)
        owned == IF end = 0 THEN p.cache ELSE SubSeq(p.cache, 1, end + 1)
    IN AfterTool([p EXCEPT !.cache = IF end = 0 THEN <<>> ELSE From(@, end + 2),
                           !.phase = newPhase],
                 Lfm2ParseChunk(p.tool, owned, fin))

\* Mutant: what follows the end tag in the cache is dropped with it.
ParseReasoningChunkOnly(p, newPhase) ==
    LET r == Qwen3ParseChunk(p, p.cache)
    IN [p |-> [r.p EXCEPT !.cache = <<>>, !.phase = newPhase], d |-> r.d]
ParseReasoningChunk(p, newPhase) ==
    LET end == Find(p.cache, UNTHINK, 1)
        owned == IF end = 0 THEN p.cache ELSE SubSeq(p.cache, 1, end + 1)
        r == Qwen3ParseChunk(p, owned)
    IN [p |-> [r.p EXCEPT !.cache = IF end = 0 THEN <<>> ELSE From(p.cache, end + 2),
                          !.phase = newPhase],
        d |-> r.d]

(* The parser that gets the cache in a phase, and the phase after it.        *)
To(parser, phase) == [parser |-> parser, phase |-> phase]
Wait == To("nobody", "unchanged")

InUnknown(c, p, fin) ==
    LET think == IF c.reasoning = "none" THEN "not_found" ELSE LookupTag(p.cache, THINK)
        unthink == LookupTag(p.cache, UNTHINK)
        call == IF c.tool /\ c.tools THEN LookupTag(p.cache, CALL) ELSE "not_found"
    IN CASE think = "complete" /\ unthink = "complete" -> To("reasoning", "UNKNOWN")
         [] think = "complete" /\ unthink = "incomplete" /\ ~fin -> Wait
         [] think = "complete" /\ ~(unthink = "complete" \/ (unthink = "incomplete" /\ ~fin)) ->
              To("reasoning", "REASONING")
         [] think # "complete" /\ call = "complete" -> To("tool", "PROCESSING")
         [] think # "complete" /\ call # "complete"
              /\ (p.terminal \/ (think = "not_found" /\ call = "not_found")) ->
              To("content", "CONTENT")
         [] OTHER -> Wait

InReasoning(p, fin) ==
    LET unthink == LookupTag(p.cache, UNTHINK)
    IN CASE unthink = "complete" -> To("reasoning", "UNKNOWN")
         [] unthink = "incomplete" /\ ~fin -> Wait
         [] OTHER -> To("reasoning", "REASONING")

InContent(c, p, fin) ==
    LET call == IF c.tool /\ c.tools THEN LookupTag(p.cache, CALL) ELSE "not_found"
    IN CASE call = "complete" -> To("tool", "PROCESSING")
         [] call = "incomplete" /\ ~fin -> Wait
         [] OTHER -> To("content", "CONTENT")

InProcessingTool(p, fin) ==
    LET uncall == LookupTag(p.cache, UNCALL)
    IN CASE uncall = "incomplete" /\ ~fin -> Wait
         [] uncall = "complete" -> To("tool", "WAITING")
         [] OTHER -> To("tool", "PROCESSING")

InWaitingForTool(p, fin) ==
    LET call == LookupTag(p.cache, CALL)
    IN CASE call = "complete" -> To("tool", "PROCESSING")
         [] call = "incomplete" /\ ~fin -> Wait
         [] OTHER -> To("tool", "WAITING")

Route(c, p, fin) ==
    CASE p.phase = "UNKNOWN" -> InUnknown(c, p, fin)
      [] p.phase = "REASONING" -> InReasoning(p, fin)
      [] p.phase = "CONTENT" -> InContent(c, p, fin)
      [] p.phase = "PROCESSING" -> InProcessingTool(p, fin)
      [] p.phase = "WAITING" -> InWaitingForTool(p, fin)
Follow(c, p, fin, route) ==
    CASE route.parser = "nobody" -> Held(p)
      [] route.parser = "reasoning" -> ParseReasoningChunk(p, route.phase)
      [] route.parser = "content" -> ParseContentChunk(c, p, fin)
      [] route.parser = "tool" -> ParseToolCallChunk(p, fin, route.phase)
Routed(c, p, fin) == Follow(c, p, fin, Route(c, p, fin))
ParseChunk(c, p, chunk, fin) ==
    Routed(c, [p EXCEPT !.cache = @ \o chunk, !.terminal = @ \/ fin], fin)

(* Lfm2ToolParser has no deltas of its own to drain.                         *)
DrainPendingDelta(c, p) ==
    IF p.cache = <<>> THEN Held(p) ELSE ParseChunk(c, p, <<>>, FALSE)
=============================================================================

--------------------------- MODULE TextStreaming ---------------------------
(* OVMSTextStreamer (src/llm/ovms_text_streamer.cpp) over OutputParser: the  *)
(* tokens of a generation are decoded together, held back until their text   *)
(* cannot change, cut into chunks, parsed, and published as deltas through   *)
(* a callback that may refuse to go on.                                      *)
(*                                                                           *)
(* A generation is one of Generations, a text whose tokens are its           *)
(* characters, pairs of them and the special tokens, in every division; it   *)
(* may stop after any token.                                                 *)
EXTENDS OutputParsing

CONSTANTS
    Generations,    \* sequences of characters the model may generate
    ParserConfigs,  \* the parsers a generation may have, of Configs
    MaxTokenLength  \* characters of a token that is not special

DELAY_N_TOKENS == 3
SpecialTags(c) == {CALL, UNCALL, EOS}
                  \cup (IF c.reasoning = "special" THEN {THINK, UNTHINK} ELSE {})

VARIABLES
    config,    \* the parsers
    text,      \* what the model generates
    read,      \* characters of it that are in tokens already
    st         \* the streamer, with its parser and what it published

vars == <<config, text, read, st>>

(* A token is its characters; a special token is decoded to nothing unless   *)
(* special tokens are wanted. A character of two tokens is REPLACEMENT while *)
(* only the first is there: <<-n>> and <<n>> are such a pair.                *)
IsSpecial(token) == token \in SpecialTags(config)
Piece(tokens, i, special) ==
    LET token == tokens[i]
    IN CASE IsSpecial(token) /\ ~special -> <<>>
         [] ~IsSpecial(token) /\ token[1] < 0 ->
              IF i = Len(tokens) THEN <<REPLACEMENT>> ELSE <<>>
         [] OTHER -> token
Decode(tokens, special) ==
    FlattenSeq([i \in 1..Len(tokens) |-> Piece(tokens, i, special)])

Start(c) ==
    [tokens |-> <<>>, lengths |-> <<>>, printed |-> 0,
     special |-> NeedSpecialTokensForCurrentDecode(c, ResetStreamingState(c).phase),
     completion |-> "Open", status |-> "RUNNING", answer |-> "RUNNING",
     parser |-> ResetStreamingState(c), out |-> <<>>]

Init ==
    /\ config \in ParserConfigs
    /\ text \in Generations
    /\ read = 0
    /\ st = Start(config)

Cleared(s) == [s EXCEPT !.tokens = <<>>, !.lengths = <<>>, !.printed = 0]

(* The callback gets a delta; observe latches an answer other than RUNNING.  *)
Observe(s) ==
    IF s.completion = "Aborted" \/ s.answer = "RUNNING" THEN s
    ELSE [Cleared(s) EXCEPT !.completion = "Aborted", !.status = s.answer]
Callback(s, d, last) == Observe([s EXCEPT !.out = Append(@, [delta |-> d, last |-> last])])

(* The loop over drainPendingDelta: a delta is published when the next one   *)
(* is known, the last of them by the caller.                                 *)
RECURSIVE Drained(_, _, _)
Drained(s0, d, r) ==
    LET s == [s0 EXCEPT !.parser = r.p]
        published == IF d = NoDelta THEN s ELSE Callback(s, d, FALSE)
    IN IF r.d = NoDelta THEN [s |-> s, d |-> d]
       ELSE IF published.completion = "Aborted" THEN [s |-> published, d |-> NoDelta]
       ELSE Drained(published, r.d, DrainPendingDelta(config, r.p))
Drain(s, r) == Drained(s, r.d, DrainPendingDelta(config, r.p))

PublishLast(drained, fin) ==
    IF drained.s.completion # "Aborted" /\ (drained.d # NoDelta \/ fin)
    THEN Callback(drained.s, drained.d, fin)
    ELSE drained.s
FlushChunk(s, decoded, until, fin) ==
    PublishLast(Drain([s EXCEPT !.printed = until],
                      ParseChunk(config, s.parser,
                                 SubSeq(decoded, s.printed + 1, until), fin)),
                fin)

(* Pending text is flushed before the way of decoding changes.               *)
FlushPending(s) ==
    LET decoded == Decode(s.tokens, s.special)
    IN IF Len(decoded) > s.printed THEN FlushChunk(s, decoded, Len(decoded), FALSE) ELSE s
ApplyDecodeParams(s) ==
    [s EXCEPT !.special = NeedSpecialTokensForCurrentDecode(config, s.parser.phase)]
IsPhaseStartToken(s, token) ==
    \/ token = CALL /\ config.tool /\ config.tools
                    /\ s.parser.phase \notin {"PROCESSING", "WAITING"}
    \/ token = THINK /\ config.reasoning = "special" /\ s.parser.phase # "REASONING"
FlushTag(s, token) ==
    IF s.completion = "Aborted" THEN s
    ELSE ApplyDecodeParams(Cleared(
             FlushChunk([Cleared(s) EXCEPT !.tokens = <<token>>, !.lengths = <<Len(token)>>],
                        token, Len(token), FALSE)))
ChangeDecoding(s) ==
    IF s.completion = "Aborted" THEN s ELSE ApplyDecodeParams(Cleared(s))

(* The token's text with what precedes it, published up to the token before  *)
(* the last two, or all of it at the end of a line.                          *)
Release(s, decoded, immediate) ==
    LET size == Len(decoded)
        n == Len(s.lengths)
        until == IF immediate THEN size
                 ELSE IF n < DELAY_N_TOKENS THEN 0
                 ELSE s.lengths[n - DELAY_N_TOKENS + 1]
        line == size > s.printed /\ decoded[size] = NL
        ready == s.lengths[n] # -1 /\ until > s.printed
        flushed == FlushChunk(s, decoded, IF line THEN size ELSE until, FALSE)
    IN IF ~(line \/ ready) THEN s ELSE IF line THEN Cleared(flushed) ELSE flushed
Appended(s, token, immediate) ==
    LET decoded == Decode(Append(s.tokens, token), s.special)
        size == Len(decoded)
    IN Release([s EXCEPT !.tokens = Append(@, token),
                         !.lengths = Append(@, IF size > 0 /\ decoded[size] = REPLACEMENT
                                               THEN -1 ELSE size)],
               decoded, immediate)
(* A token that opens a phase with other decoding is dealt with at once;     *)
(* otherwise it is appended, unless the pending text was refused.            *)
AppendedUnlessAborted(s, token, immediate) ==
    IF s.completion = "Aborted" THEN s ELSE Appended(s, token, immediate)
WriteToken(s, token, immediate) ==
    IF ~s.special /\ IsPhaseStartToken(s, token) THEN FlushTag(FlushPending(s), token)
    ELSE IF NeedSpecialTokensForCurrentDecode(config, s.parser.phase) # s.special
    THEN AppendedUnlessAborted(ChangeDecoding(FlushPending(s)), token, immediate)
    ELSE Appended(s, token, immediate)

(* Tokens whose text is published stay as context; the rest is written       *)
(* again, without delay.                                                     *)
RECURSIVE WriteAll(_, _)
WriteAll(s, tokens) ==
    IF tokens = <<>> \/ s.completion = "Aborted" THEN s
    ELSE WriteAll(WriteToken(s, Head(tokens), TRUE), Tail(tokens))
ClearedUnlessAborted(s) == IF s.completion = "Aborted" THEN s ELSE Cleared(s)
LastFlush(s) ==
    IF s.completion = "Aborted" THEN s
    ELSE ClearedUnlessAborted(
             FlushChunk(s, Decode(s.tokens, s.special), s.printed, TRUE))
DrainTerminal(s) ==
    LET printed == {i \in 0..Len(s.lengths) :
                       \A j \in 1..i : s.lengths[j] > 0 /\ s.lengths[j] =< s.printed}
        kept == CHOOSE i \in printed : \A j \in printed : j =< i
    IN LastFlush(WriteAll([s EXCEPT !.tokens = SubSeq(@, 1, kept),
                                    !.lengths = SubSeq(@, 1, kept)],
                          From(s.tokens, kept + 1)))

(***************************************************************************)
(* What the servable does with it.                                         *)
(***************************************************************************)
(* The tag at a place of the text, if one can begin there.                   *)
Tag(i) == IF i < Len(text) THEN SubSeq(text, i, i + 1) ELSE <<>>
NextTokens ==
    IF Tag(read + 1) \in SpecialTags(config) THEN {Tag(read + 1)}
    ELSE {SubSeq(text, read + 1, read + n) :
                n \in {k \in 1..MaxTokenLength :
                         /\ read + k =< Len(text)
                         /\ \A i \in 1..(k - 1) :
                               /\ Tag(read + i + 1) \notin SpecialTags(config)
                               /\ text[read + i] > 0 /\ text[read + i + 1] > 0}}

Write ==
    /\ read < Len(text)
    /\ st.completion = "Open"
    /\ \E token \in NextTokens, answer \in {"RUNNING", "STOP"} :
        /\ read' = read + Len(token)
        /\ st' = [WriteToken([st EXCEPT !.answer = answer], token, FALSE)
                     EXCEPT !.answer = "RUNNING"]
    /\ UNCHANGED <<config, text>>

(* finish(reason), after the last token or where the generation is cut.      *)
Finish ==
    /\ st.completion = "Open"
    /\ \E answer \in {"RUNNING", "STOP"} :
        LET s == DrainTerminal([st EXCEPT !.answer = answer])
        IN st' = [s EXCEPT !.answer = "RUNNING",
                           !.completion = IF @ = "Aborted" THEN @ ELSE "Finished"]
    /\ UNCHANGED <<config, text, read>>

Next == Write \/ Finish
Spec == Init /\ [][Next]_vars
-----------------------------------------------------------------------------
IsPlain(x) == x > 0 /\ x =< PLAIN
(* The ordinary characters published as deltas of a kind, in order.          *)
Published(kind) ==
    SelectSeq(FlattenSeq([i \in 1..Len(st.out) |->
                 IF st.out[i].delta.kind = kind THEN st.out[i].delta.text ELSE <<>>]),
              IsPlain)

(* A reading of the generation without tokens, chunks or caches: the phase   *)
(* in which each character stands.                                           *)
HasTools == config.tool /\ config.tools
Opens(i) ==
    \/ config.reasoning # "none" /\ Tag(i) = THINK
    \/ HasTools /\ Tag(i) = CALL
Invisible(i) == config.reasoning # "special" /\ Tag(i) \in SpecialTags(config)
NextPhase(phase, i) ==
    CASE phase = "unknown" /\ Opens(i) -> IF Tag(i) = THINK THEN "reasoning" ELSE "list"
      [] phase \in {"content", "after"} /\ HasTools /\ Tag(i) = CALL -> "list"
      [] phase = "reasoning" /\ i > 1 /\ Tag(i - 1) = UNTHINK -> "unknown"
      [] phase \in {"list", "args"} /\ Tag(i) = UNCALL -> "after"
      [] phase = "list" /\ text[i] = OPEN -> "args"
      [] phase = "args" /\ text[i] = CLOSE -> "list"
      [] phase = "unknown" /\ ~Opens(i) /\ ~Invisible(i) /\ ~(i > 1 /\ Invisible(i - 1)) ->
           "content"
      [] OTHER -> phase
FirstPhase ==
    IF config.implicit /\ config.reasoning # "none" THEN "reasoning" ELSE "unknown"
Phases ==
    FoldLeft(LAMBDA ps, i : Append(ps, NextPhase(ps[i], i)), <<FirstPhase>>,
             [i \in 1..read |-> i])
Reading(phases) ==
    LET ps == Phases
    IN SelectSeq([i \in 1..read |-> IF ps[i + 1] \in phases THEN text[i] ELSE 0], IsPlain)

(* The tokens in the cache and the lengths of their text correspond: the     *)
(* slices of flush_chunk and drain_terminal index one by the other.          *)
TypeOK ==
    /\ config \in Configs /\ text \in Generations /\ read \in 0..Len(text)
    /\ st.completion \in {"Open", "Aborted", "Finished"}
    /\ Len(st.tokens) = Len(st.lengths)

(* A client that reads to the end is told once that it has, in the last      *)
(* message it gets.                                                          *)
LastOnce ==
    /\ \A i \in 1..Len(st.out) : st.out[i].last => i = Len(st.out)
    /\ st.completion = "Finished" => st.out # <<>> /\ st.out[Len(st.out)].last

(* However the generation is divided into tokens and wherever it is cut,     *)
(* every character is published once, in order and as what it is: reasoning  *)
(* inside the tags, content outside ("no content is ever discarded at a      *)
(* phase transition", output_parser.hpp).                                    *)
ContentFaithful ==
    st.completion = "Finished" =>
        /\ Published("content") = Reading({"content", "after"})
        /\ Published("reasoning") = Reading({"reasoning"})

(* Tool calls are published in order, each as a name and then its arguments, *)
(* under consecutive indices; once the list is closed none is missing,       *)
(* though the parser takes one step for a chunk of text.                     *)
ToolCallsWhole ==
    LET calls == SelectSeq([i \in 1..Len(st.out) |-> st.out[i].delta],
                           LAMBDA d : d.kind \in {"name", "args"})
        ps == Phases
    IN /\ \A i \in 1..Len(calls) :
             /\ calls[i].kind = (IF i % 2 = 1 THEN "name" ELSE "args")
             /\ calls[i].index = (i - 1) \div 2
       /\ st.completion = "Finished" /\ ps[Len(ps)] \notin {"list", "args"} =>
             /\ Published("name") = Reading({"list"})
             /\ Published("args") = Reading({"args"})

(* The deltas of a generation are its text, and their end is announced.      *)
DeltasFaithful == TypeOK /\ LastOnce /\ ContentFaithful
=============================================================================

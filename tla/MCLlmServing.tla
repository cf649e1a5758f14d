---------------------------- MODULE MCLlmServing ----------------------------
(* Requests for LlmServing: streams and unary ones, short and failing, and   *)
(* the ones refused before they are scheduled.                               *)
EXTENDS LlmServing, TLC

Base == [uri |-> "chat", json |-> TRUE, valid |-> TRUE, image |-> FALSE,
         prompt |-> 1, max |-> 0, stream |-> TRUE, usage |-> FALSE,
         len |-> 2, audio |-> 0, leaves |-> TRUE, bad |-> FALSE]
Rich ==
    {Base, [Base EXCEPT !.uri = "responses", !.bad = TRUE, !.usage = TRUE],
     [Base EXCEPT !.stream = FALSE, !.bad = TRUE],
     [Base EXCEPT !.audio = 1, !.len = 1],
     [Base EXCEPT !.uri = "completions", !.stream = FALSE, !.image = TRUE],
     [Base EXCEPT !.uri = "tokenize"], [Base EXCEPT !.prompt = 2, !.max = 2],
     [Base EXCEPT !.uri = "other"]}
Other == {[Base EXCEPT !.stream = FALSE, !.len = 1, !.leaves = FALSE]}
CONSTANTS r1, r2
MCProfiles == (r1 :> Rich) @@ (r2 :> Other)
=============================================================================

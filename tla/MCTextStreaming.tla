--------------------------- MODULE MCTextStreaming ---------------------------
(* Generations for TextStreaming: reasoning, content that looks like a tag,  *)
(* a character of two tokens, lists of calls and what follows them.          *)
EXTENDS ChatEvents

Thought == THINK \o <<1, 2>> \o UNTHINK
Call1 == CALL \o <<LIST, 11, OPEN, 12, CLOSE, UNLIST>> \o UNCALL
Calls == CALL \o <<LIST, 11, OPEN, 12, CLOSE, SEPARATOR, 13, OPEN, 14, CLOSE, UNLIST>> \o UNCALL
MCGenerations ==
    {Thought \o <<NL, 3, -4, 4>> \o EOS,
     <<1, LT, 2, -3, 3, NL, 4>> \o EOS,
     Thought \o Calls,
     <<5, LT>> \o Call1 \o <<6>> \o EOS,
     Thought \o Call1 \o Call1 \o <<6>>}
MCConfigSet ==
    {c \in Configs : /\ c.implicit => c.reasoning = "special"
                     /\ c.tools => c.tool
                     /\ c.tool => c.tools \/ c.reasoning = "text"}
=============================================================================

------------------------ MODULE MCPipelineExecution ------------------------
(* Small pipelines for PipelineExecution.                                    *)
EXTENDS PipelineExecution

CONSTANTS m1, m2

\* The one output of a node has the data item "o".
Servable(inputs, output) ==
    [valid |-> TRUE, auto |-> FALSE,
     inputs |-> [x \in DOMAIN inputs |-> [shape |-> inputs[x], precision |-> "FP32"]],
     outputs |-> [o |-> [shape |-> output, precision |-> "FP32"]]]

NodeConfig(name, kind, model, servable, inputs) ==
    [name |-> name, kind |-> kind, model |-> model, servable |-> servable,
     outputs |-> [o |-> "o"], demultiply |-> {}, gather |-> {}, inputs |-> inputs]

From(input, node) == [input |-> input, from |-> node, data |-> "o"]
FromRequest(input) == [input |-> input, from |-> ENTRY, data |-> "p"]

Pipeline(nodes, outputs) ==
    [demultiply |-> {}, inputs |-> {"p"}, nodes |-> nodes, outputs |-> outputs]

One == {1}
Two == {2}

\* A demultiplexer, and two sessions of a DL node for one stream.
Fan ==
    Pipeline(
      <<[NodeConfig("split", "custom", m1, Servable([x |-> <<One>>], <<Two, One, One>>),
                    {FromRequest("x")}) EXCEPT !.demultiply = {2}],
        NodeConfig("dl", "dl", m1, Servable([x |-> <<One, One>>], <<One>>),
                   {From("x", "split")})>>,
      {From("r", "dl")})

\* Two branches of one model that meet in the response.
Diamond ==
    Pipeline(
      <<NodeConfig("left", "dl", m1, Servable([x |-> <<One>>], <<One>>), {FromRequest("x")}),
        NodeConfig("right", "dl", m1, Servable([x |-> <<One>>], <<One>>), {FromRequest("x")})>>,
      {From("r", "left"), From("s", "right")})

\* Nested demultiplexers of sizes 2 and 3, gathered at once.
Nested ==
    Pipeline(
      <<[NodeConfig("outer", "custom", m1, Servable([x |-> <<One>>], <<Two, One, One>>),
                    {FromRequest("x")}) EXCEPT !.demultiply = {2}],
        [NodeConfig("inner", "custom", m1, Servable([x |-> <<One, One>>], <<{3}, One, One>>),
                    {From("x", "outer")}) EXCEPT !.demultiply = {3}],
        NodeConfig("leaf", "custom", m1, Servable([x |-> <<One, One>>], <<One>>),
                   {From("x", "inner")})>>,
      {From("r", "leaf")})

\* A demultiplexer whose library decides how many shards there are, none too,
\* and a node that gathers them; tensors of the leaf need not fit each other.
Variable ==
    Pipeline(
      <<[NodeConfig("some", "custom", m2,
                    Servable([x |-> <<AnySize>>], <<0..2, One, One>>),
                    {FromRequest("x")}) EXCEPT !.demultiply = {0}],
        NodeConfig("each", "custom", m2, Servable([x |-> <<One, One>>], <<One, {1, 2}>>),
                   {From("x", "some")}),
        [NodeConfig("all", "dl", m2, Servable([x |-> <<1..2, One, {1, 2}>>], <<One>>),
                    {From("x", "each")}) EXCEPT !.gather = {"some"}]>>,
      {From("r", "all")})

\* Pipelines of two nodes, most of which validation refuses.
S2 == <<One, One>>
S3 == <<Two, One, One>>
S4 == <<Two, Two, One, One>>

Sources(name, node) == IF node = ENTRY THEN FromRequest(name) ELSE From(name, node)

Pairs ==
    {[demultiply |-> d[1], inputs |-> {"p"},
      nodes |->
        <<[NodeConfig("a", "custom", m2, Servable([x |-> t[1]], t[2]),
                      {FromRequest("x")})
              EXCEPT !.demultiply = d[2], !.gather = g[1]],
          [NodeConfig("b", IF d[1] = {} THEN "dl" ELSE "custom", m2, Servable([x \in {"x"} \cup c[2] |-> t[3]], t[4]),
                      {Sources("x", c[1])} \cup {Sources(y, c[3]) : y \in c[2]})
              EXCEPT !.demultiply = d[3], !.gather = g[2]]>>,
      outputs |-> o] :
        d \in {{}, {2}} \X {{}, {2}} \X {{}, {2}},
        g \in {{}, {"request"}} \X {{}, {"request"}, {"a"}},
        c \in {"request", "a"} \X {{}, {"y"}} \X {"request", "a"},
        t \in {S2, S3} \X {S2, S3, S4} \X {S2, S3, S4} \X {S2, S3},
        o \in {{From("r", "b")}, {From("r", "a"), From("s", "b")}}}

MCConfigs == {Fan, Diamond, Nested, Variable} \cup Pairs
=============================================================================

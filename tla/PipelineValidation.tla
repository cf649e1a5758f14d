------------------------- MODULE PipelineValidation -------------------------
(* What becomes of the configuration of a DAG pipeline before it serves:     *)
(* its nodes and connections (pipeline_config_parser.cpp), the checks of     *)
(* PipelineDefinition::validate, and the inputs and outputs the pipeline     *)
(* announces (pipelinedefinition.cpp).                                       *)
(*                                                                           *)
(* A Dimension is the set of sizes it allows.  Models and libraries are      *)
(* "servables": whether they are there, whether a parameter is auto, their   *)
(* inputs and outputs.  Which of the errors is reported is left out.         *)
EXTENDS Integers, Sequences, FiniteSets, SequencesExt

CONSTANT MaxSize    \* largest size of a dimension

ASSUME MaxSizeAssumption == MaxSize \in Nat \ {0}

AnySize == 0..MaxSize

None == 0           \* a node that does not demultiply
Dynamic == -1

ENTRY == "request"
EXIT == "response"

-----------------------------------------------------------------------------
(* Dimensions, shapes and tensor infos *)

PartiallyFitsInto(dim, next) == dim \cap next # {}

\* Shape::match of the sizes of a tensor.
Match(shape, sizes) ==
    /\ Len(shape) = Len(sizes)
    /\ \A i \in DOMAIN shape : sizes[i] \in shape[i]

AreShapesMatching(input, output) ==
    /\ Len(input) = Len(output)
    /\ \A i \in DOMAIN input : PartiallyFitsInto(input[i], output[i])

Unspecified == [shape |-> <<>>, precision |-> "UNDEFINED"]

\* Shapes that have an intersection, of tensors of one precision.
Unambiguous(infos) ==
    /\ \A s, t \in infos :
           s.precision = t.precision /\ Len(s.shape) = Len(t.shape)
    /\ \A s \in infos : \A i \in DOMAIN s.shape :
           {size \in s.shape[i] : \A t \in infos : size \in t.shape[i]} # {}

\* TensorInfo::createIntersection, over all the uses of a pipeline input.
Intersection(infos) ==
    IF infos = {} THEN Unspecified
    ELSE LET s == CHOOSE s \in infos : TRUE
         IN  [s EXCEPT !.shape = [i \in DOMAIN s.shape |->
                 {size \in s.shape[i] : \A t \in infos : size \in t.shape[i]}]]

-----------------------------------------------------------------------------
(* The configuration *)

NoServable == [valid |-> TRUE, auto |-> FALSE, inputs |-> <<>>, outputs |-> <<>>]

\* demultiply_count, when it is given; 0 is an old name for dynamic.
Count(given) ==
    IF given = {} THEN None
    ELSE IF given = {0} THEN Dynamic ELSE CHOOSE count \in given : TRUE

Info(node) ==
    [name |-> node.name, kind |-> node.kind, model |-> node.model,
     outputs |-> node.outputs, servable |-> node.servable,
     demultiply |-> Count(node.demultiply), gather |-> node.gather]

EntryInfo(config) ==
    [name |-> ENTRY, kind |-> "entry", model |-> "",
     outputs |-> [x \in config.inputs |-> x], servable |-> NoServable,
     demultiply |-> Count(config.demultiply), gather |-> {}]

\* The response gathers from the demultiplexers no node gathers from.
ExitGathersFrom(config) ==
    LET nodes == ToSet(config.nodes)
    IN  ({n.name : n \in {n \in nodes : n.demultiply # {}}}
            \cup (IF config.demultiply # {} THEN {ENTRY} ELSE {}))
        \ UNION {n.gather : n \in nodes}

ExitInfo(config) ==
    [name |-> EXIT, kind |-> "exit", model |-> "", outputs |-> <<>>,
     servable |-> NoServable, demultiply |-> None,
     gather |-> ExitGathersFrom(config)]

Connected(name, inputs) ==
    {[to |-> name, from |-> i.from, data |-> i.data, input |-> i.input] : i \in inputs}

\* processPipelineConfig: node infos in order, and connections.
Parsed(config) ==
    [infos |-> <<EntryInfo(config)>>
               \o [i \in DOMAIN config.nodes |-> Info(config.nodes[i])]
               \o <<ExitInfo(config)>>,
     connections |->
        UNION {Connected(n.name, n.inputs) : n \in ToSet(config.nodes)}
            \cup Connected(EXIT, config.outputs)]

-----------------------------------------------------------------------------
(* Validation of one node *)

NodeNames(def) == {n.name : n \in ToSet(def.infos)}

FindNode(def, name) ==
    def.infos[CHOOSE i \in DOMAIN def.infos :
                  /\ def.infos[i].name = name
                  /\ \A j \in 1..(i - 1) : def.infos[j].name # name]

HasServable(node) == node.kind \in {"dl", "custom"}

Inputs(def, name) == {c \in def.connections : c.to = name}
Dependencies(def, name) == {c.from : c \in Inputs(def, name)}

\* The model is available, or the library answers with metadata.
MetadataFetched(node) ==
    HasServable(node) =>
        node.servable.valid /\ DOMAIN node.servable.outputs # {}

\* batch_size and shape auto are for models outside of pipelines.
NoDynamicParameter(node) == node.kind = "dl" => ~ node.servable.auto

NoStringDemultiplicator(node) ==
    node.kind = "dl" /\ node.demultiply # None =>
        \A x \in DOMAIN node.servable.inputs :
            node.servable.inputs[x].precision # "STRING"

ValidateGatherNode(def, node) ==
    \A name \in node.gather :
        /\ name \in NodeNames(def)
        /\ FindNode(def, name).demultiply # None

\* A tensor that demultiplexer node splits, or that was gathered from it.
ValidateShapeWithDemultiplexer(shape, node) ==
    node.demultiply # None =>
        /\ Len(shape) >= 3
        /\ node.demultiply # Dynamic =>
               PartiallyFitsInto(shape[1], {node.demultiply})

\* influenceShapeWithDemultiplexer
Shard(shape, nodes) == IF nodes = {} THEN shape ELSE Tail(shape)

\* checkConnectionMetadataCorrectness, between two nodes with metadata.
MetadataMatches(def, c) ==
    LET to == FindNode(def, c.to)
        from == FindNode(def, c.from)
        input == to.servable.inputs[c.input]
        output == from.servable.outputs[from.outputs[c.data]]
        split == IF from.demultiply = None THEN {} ELSE {from}
        gathered == {FindNode(def, g) : g \in to.gather}
    IN  /\ \A n \in split : ValidateShapeWithDemultiplexer(output.shape, n)
        /\ Cardinality(gathered) <= 1
        /\ \A n \in gathered : ValidateShapeWithDemultiplexer(input.shape, n)
        /\ AreShapesMatching(Shard(input.shape, gathered), Shard(output.shape, split))
        /\ input.precision = output.precision
        /\ input.precision # "STRING"

\* markInputAsConnected: the input exists and has no other source.
MarkInputAsConnected(def, c) ==
    /\ c.input \in DOMAIN FindNode(def, c.to).servable.inputs
    /\ \A d \in Inputs(def, c.to) : d.input = c.input => d = c

ConnectionMappedToExistingDataSource(c, from) ==
    /\ c.data \in DOMAIN from.outputs
    /\ HasServable(from) =>
           from.outputs[c.data] \in DOMAIN from.servable.outputs

\* For the response the lookup of the input's precision throws.
NoEntryStringDemultiplicator(c, from, to) ==
    from.kind = "entry" /\ from.demultiply # None =>
        /\ c.input \in DOMAIN to.servable.inputs
        /\ to.servable.inputs[c.input].precision # "STRING"

ValidateConnection(def, c, to) ==
    /\ c.from \in NodeNames(def)
    /\ LET from == FindNode(def, c.from)
       IN  /\ from.kind # "exit"
           /\ MetadataFetched(from)
           /\ HasServable(to) => MarkInputAsConnected(def, c)
           /\ ConnectionMappedToExistingDataSource(c, from)
           /\ NoEntryStringDemultiplicator(c, from, to)
           /\ HasServable(to) /\ HasServable(from) => MetadataMatches(def, c)

ValidateNode(def, node) ==
    /\ MetadataFetched(node)
    /\ NoDynamicParameter(node)
    /\ NoStringDemultiplicator(node)
    /\ \A x \in DOMAIN node.servable.outputs :
           ValidateShapeWithDemultiplexer(node.servable.outputs[x].shape, node)
    /\ ValidateGatherNode(def, node)
    /\ \A c \in Inputs(def, node.name) : ValidateConnection(def, c, node)
    /\ DOMAIN node.servable.inputs \subseteq {c.input : c \in Inputs(def, node.name)}

-----------------------------------------------------------------------------
(* Validation of the graph *)

\* One entry, one exit, a dynamic demultiplexer only alone, unique names.
ValidateNodes(def) ==
    LET nodes == ToSet(def.infos)
        demultiplexers == {n \in nodes : n.demultiply # None}
    IN  /\ Cardinality({n \in nodes : n.kind = "entry"}) = 1
        /\ Cardinality({n \in nodes : n.kind = "exit"}) = 1
        /\ (\E n \in demultiplexers : n.demultiply = Dynamic) =>
               Cardinality(demultiplexers) = 1
        /\ \A i, j \in DOMAIN def.infos :
               def.infos[i].name = def.infos[j].name => i = j
        /\ \A n \in nodes : ValidateNode(def, n)

\* validateForCycles: depth first from the response over the connections; a
\* connection back to a node on the way there closes a cycle.
Visit(def, at) ==
    LET deps == Dependencies(def, at.node)
        unvisited == deps \ at.visited
    IN  IF at.cycle \/ at.over THEN at
        ELSE IF deps \cap (ToSet(at.parents) \cup {at.node}) # {}
        THEN [at EXCEPT !.cycle = TRUE]
        ELSE IF unvisited # {}
        THEN LET next == CHOOSE n \in unvisited : TRUE
             IN  [at EXCEPT !.node = next, !.visited = @ \cup {next},
                            !.parents = Append(@, at.node)]
        ELSE IF at.parents = <<>> THEN [at EXCEPT !.over = TRUE]
        ELSE [at EXCEPT !.node = Last(at.parents), !.parents = Front(@)]

ValidateForCycles(def) ==
    LET start == [node |-> EXIT, visited |-> {EXIT}, parents |-> <<>>,
                  cycle |-> FALSE, over |-> FALSE]
        end == FoldLeft(LAMBDA at, i : Visit(def, at), start,
                        [i \in 1..(2 * Len(def.infos)) |-> i])
    IN  ~ end.cycle /\ end.visited = NodeNames(def)

\* The sets still to be demultiplied above a node, given those below it.
CanDemultiply(node, stack) ==
    node.demultiply # None => stack # <<>> /\ node.name \in Last(stack)

DemultiplyStack(node, stack) ==
    LET left == IF node.demultiply = None THEN stack
                ELSE IF Last(stack) = {node.name} THEN Front(stack)
                ELSE [stack EXCEPT ![Len(stack)] = @ \ {node.name}]
    IN  IF node.gather = {} THEN left ELSE Append(left, node.gather)

\* One more step up every path.
StepUp(def, levels) ==
    levels \cup
        UNION {{<<name, DemultiplyStack(FindNode(def, name), level[2])>> :
                   name \in {m \in Dependencies(def, level[1]) :
                                CanDemultiply(FindNode(def, m), level[2])}} :
               level \in levels}

\* All nodes with the stacks they are reached with, over all paths.
Levels(def) ==
    LET gather == FindNode(def, EXIT).gather
    IN  FoldLeft(LAMBDA levels, i : StepUp(def, levels),
                 {<<EXIT, IF gather = {} THEN <<>> ELSE <<gather>>>>},
                 [i \in 1..Len(def.infos) |-> i])

\* A mistake: what is left to gather from where paths end or meet is ignored.
ValidateDemultiplexersOnly(def) ==
    \A level \in Levels(def) : \A name \in Dependencies(def, level[1]) :
        CanDemultiply(FindNode(def, name), level[2])

ValidateDemultiplexerGatherNodesOrder(def) ==
    LET levels == Levels(def)
    IN  /\ \A level \in levels :
               /\ \A name \in Dependencies(def, level[1]) :
                      CanDemultiply(FindNode(def, name), level[2])
               /\ FindNode(def, level[1]).kind = "entry" => level[2] = <<>>
        /\ \A l, m \in levels : l[1] = m[1] => l = m

-----------------------------------------------------------------------------
(* What the pipeline announces *)

\* What the uses of one input of the request expect of it.
InputUses(def, x) ==
    {FindNode(def, c.to).servable.inputs[c.input] :
        c \in {c \in def.connections :
                  c.from = ENTRY /\ c.data = x /\ c.to # EXIT}}

Prefix(count) == IF count = None THEN <<>>
                 ELSE <<IF count = Dynamic THEN AnySize ELSE {count}>>

RequestInputs(def) == {c.data : c \in {c \in def.connections : c.from = ENTRY}}

InputsUnambiguous(def) ==
    \A x \in RequestInputs(def) : Unambiguous(InputUses(def, x))

InputsInfo(def) ==
    [x \in RequestInputs(def) |->
        LET info == Intersection(InputUses(def, x))
        IN  [info EXCEPT !.shape = Prefix(FindNode(def, ENTRY).demultiply) \o @]]

\* The dimension that gathering from a node adds.
GatherDimension(node) ==
    IF node.demultiply # Dynamic THEN {node.demultiply}
    ELSE IF node.kind = "custom"
    THEN node.servable.outputs[CHOOSE x \in DOMAIN node.servable.outputs : TRUE].shape[1]
    ELSE AnySize

\* getNodeGatherShape: along the first connection of each node, which is any.
StepToEntry(def, gather, at) ==
    IF Dependencies(def, at.node) = {} THEN at
    ELSE LET next == CHOOSE n \in Dependencies(def, at.node) : TRUE
         IN  [node |-> next,
              shape |-> (IF next \in gather
                         THEN <<GatherDimension(FindNode(def, next))>>
                         ELSE <<>>) \o at.shape]

GatherShape(def, node) ==
    FoldLeft(LAMBDA at, i : StepToEntry(def, node.gather, at),
             [node |-> node.name, shape |-> <<>>],
             [i \in 1..Len(def.infos) |-> i]).shape

OutputInfo(def, c) ==
    LET from == FindNode(def, c.from)
        gatherShape == GatherShape(def, FindNode(def, EXIT))
        info == from.servable.outputs[from.outputs[c.data]]
    IN  IF from.kind = "entry" THEN Unspecified
        ELSE IF gatherShape = <<>> THEN info
        ELSE [info EXCEPT !.shape =
                 gatherShape \o (IF from.demultiply = None THEN @ ELSE Tail(@))]

OutputsInfo(def) ==
    [x \in {c.input : c \in Inputs(def, EXIT)} |->
        OutputInfo(def, CHOOSE c \in Inputs(def, EXIT) : c.input = x)]

Validate(def) ==
    /\ ValidateNodes(def)
    /\ ValidateForCycles(def)
    /\ ValidateDemultiplexerGatherNodesOrder(def)
    /\ InputsUnambiguous(def)

-----------------------------------------------------------------------------
(* Definitions that pass although no request survives them: a node gathers   *)
(* from the request what it takes straight from it, two outputs of the       *)
(* response have one name, the request splits tensors of less than three     *)
(* dimensions, or an input of the request goes to the response alone.        *)
LetThrough(def) ==
    \/ \E c \in def.connections : c.from = ENTRY /\ ENTRY \in FindNode(def, c.to).gather
    \/ \E c, d \in Inputs(def, EXIT) : c # d /\ c.input = d.input
    \/ /\ FindNode(def, ENTRY).demultiply # None
       /\ \E x \in RequestInputs(def) : Len(InputsInfo(def)[x].shape) < 3
    \/ \E x \in RequestInputs(def) : InputUses(def, x) = {}

\* Every dimension has one size, and every demultiplexer a count.
Static(def) ==
    \A n \in ToSet(def.infos) :
        /\ n.demultiply # Dynamic
        /\ \A x \in DOMAIN n.servable.inputs : \A i \in DOMAIN n.servable.inputs[x].shape :
               Cardinality(n.servable.inputs[x].shape[i]) = 1
        /\ \A x \in DOMAIN n.servable.outputs : \A i \in DOMAIN n.servable.outputs[x].shape :
               Cardinality(n.servable.outputs[x].shape[i]) = 1
=============================================================================

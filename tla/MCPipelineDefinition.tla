------------------------- MODULE MCPipelineDefinition -------------------------
(* Small instances of PipelineDefinition.                                   *)
EXTENDS PipelineDefinition, TLC

CONSTANTS m1, n1, n2, p1

\* One custom node and one model; the model under the name of the custom node.
One == [dl |-> n2 :> m1, custom |-> n1 :> p1]
Renamed == [dl |-> n1 :> m1, custom |-> EmptyMap]

MCDefinitions == {One, Renamed}
=============================================================================

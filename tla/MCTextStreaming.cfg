CONSTANTS
    Generations <- MCGenerations
    ParserConfigs <- MCConfigSet
    MaxTokenLength = 2
SPECIFICATION Spec
INVARIANTS
    DeltasFaithful
    ToolCallsWhole
    AnswersSound
CHECK_DEADLOCK FALSE

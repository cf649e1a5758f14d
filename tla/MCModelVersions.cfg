SPECIFICATION Spec
CONSTANTS
    Versions = {1, 2, 3}
    DirOrder <- NumericOrder
    Policies <- MCPolicies
    Revisions = {1, 2}
    Reshaped = {3}
    Blacklisting = FALSE
    IntBits = 16
INVARIANTS
    PolicyServed
PROPERTIES
    ReplacedBeforeRetired

SPECIFICATION FairSpec
CONSTANTS
    Versions = {9, 10}
    DirOrder <- StringOrder
    Policies <- MCTwoPolicies
    Revisions = {1}
    Reshaped = {9, 10}
    Blacklisting = TRUE
    IntBits = 16
INVARIANT DefaultNotRetired
PROPERTY ApplicationTerminates

--------------------------- MODULE MCModelVersions ---------------------------
(* Small instances of ModelVersions.                                        *)
EXTENDS ModelVersions

LatestOne == [kind |-> "latest", n |-> 1]
LatestTwo == [kind |-> "latest", n |-> 2]
All == [kind |-> "all"]

MCPolicies ==
    {LatestOne, LatestTwo, [kind |-> "specific", versions |-> {1, 3}]}
MCTwoPolicies == {LatestOne, All}

\* Directory names are listed as strings: for one digit that is numeric order,
\* for two digits beside one it is not.
NumericOrder == <<1, 2, 3>>
StringOrder == <<10, 9>>
=============================================================================

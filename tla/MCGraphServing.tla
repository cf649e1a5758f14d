--------------------------- MODULE MCGraphServing ---------------------------
(* Files for GraphServing: pooled, not pooled, refused ones.                 *)
EXTENDS GraphServing

File(directive, size) ==
    [directive |-> directive, size |-> size, loopback |-> FALSE,
     contextless |-> FALSE, broken |-> {}]

MCFirstFile == File("number", 1)
MCFiles == {MCFirstFile,
            [File("auto", 0) EXCEPT !.contextless = TRUE],
            [File("number", 9) EXCEPT !.loopback = TRUE]}
=============================================================================

-------------------------- MODULE MCInferenceRequests --------------------------
(* Bytes of size_t are 0 .. 31: F takes 4 bytes, H (raw only) 2, B 1. Shapes   *)
(* whose elements or bytes wrap to a small number are among the inputs.        *)
EXTENDS InferenceRequests

MCItemSize == [F |-> 4, H |-> 2, B |-> 1]

Tensor(name, shape, type) == [name |-> name, shape |-> shape, type |-> type, batch |-> 1]
ModelOf(inputs, batching, mode) ==
    [inputs |-> inputs, outputs |-> <<[inputs[1] EXCEPT !.name = "Y"]>>,
     batching |-> batching, mode |-> [n \in {"A", "C", "Y"} |-> IF n = "A" THEN mode ELSE "FIXED"]]

A == Tensor("A", <<{1}, {2}>>, "F")
C == Tensor("C", <<{1}>>, "B")
MCModels ==
    {ModelOf(<<A>>, "FIXED", "FIXED"), ModelOf(<<A, C>>, "AUTO", "FIXED"),
     ModelOf(<<[A EXCEPT !.shape = <<{2}, {1}>>, !.batch = 2], C>>, "AUTO", "FIXED"),
     ModelOf(<<A>>, "FIXED", "AUTO"),
     ModelOf(<<[A EXCEPT !.shape = <<0 .. 15, 0 .. 15>>]>>, "FIXED", "FIXED"),
     ModelOf(<<[A EXCEPT !.type = "H"]>>, "FIXED", "FIXED")}

Given(name, shape, type, count) ==
    [name |-> name, shape |-> shape, type |-> type, count |-> count, bytes |-> None]
Shapes == {<<1, 2>>, <<2, 2>>, <<4, 2>>, <<4, 3>>, <<8, 5>>, <<0, 7>>, <<15, 0>>, <<-1, 2>>, <<2>>}
Request(inputs, raw) == [inputs |-> inputs, outputs |-> <<>>, raw |-> raw]

Single == {Request(<<Given("A", s, t, 0)>>, <<r>>) : s \in Shapes, t \in {"F", "H"}, r \in {0, 4, 8, 16}}
              \cup {Request(<<Given("A", s, t, n)>>, <<>>) : s \in Shapes, t \in {"F", "B"}, n \in {0, 2, 4}}
              \cup {Request(<<Given("A", s, "F", 2)>>, <<8>>) : s \in Shapes}
Pairs == {<<Given("A", <<a, 2>>, "F", 0), Given("C", <<c>>, "B", 0)>> : a \in 1 .. 3, c \in 1 .. 3}
            \cup {<<Given("C", <<c>>, "B", 0), Given("A", <<a, 2>>, "F", 0)>> : a \in 1 .. 3, c \in 1 .. 3}
            \cup {<<Given("A", <<1, 2>>, "F", 0), Given("A", <<1, 2>>, "F", 0)>>}
Double == {Request(p, r) : p \in Pairs, r \in {<<8, 1>>, <<16, 2>>, <<2, 16>>, <<16, 1>>, <<8>>}}
Few == {Request(<<Given("A", <<a, 2>>, "F", 0), Given("C", <<a>>, "B", 0)>>, <<8 * a, a>>) : a \in 1 .. 2}
MCKfsRequests(quiet) == IF quiet THEN Single \cup Double \cup {Request(<<>>, <<>>)} ELSE Few

Json(name, shape, type, data, bsize) ==
    [name |-> name, shape |-> shape, type |-> type, data |-> data, bsize |-> bsize]
Body(header, binary, inputs) == [header |-> header, binary |-> binary, inputs |-> inputs]
MCBodies(quiet) ==
    IF ~quiet THEN {} ELSE
    {Body("fits", b, <<Json("A", s, t, d, z)>>) :
        b \in {0, 8, 16}, s \in Shapes, t \in {"F", "H"}, d \in {None, 0, 2}, z \in {None, -1, 8}}
        \cup {Body("fits", b, <<Json("A", <<a, 2>>, "F", d, za), Json("C", <<2>>, "B", e, zc)>>) :
                b \in {2, 17, 18, 20}, a \in {1, 2}, d \in {None, 4}, za \in {None, 16},
                e \in {None, 2}, zc \in {None, 2}}
        \cup {Body("fits", 0, <<>>), Body("beyond", 0, <<Json("A", <<1, 2>>, "F", 2, None)>>)}

MCNone == -9
MCCapiInputs == {Given("A", s, "F", 0) : s \in {<<1, 2>>, <<2, 2>>, <<4, 2>>}} \cup {Given("C", <<2>>, "B", 0)}
MCCapiOutputs == {Given("Y", <<a, 2>>, "F", 0) : a \in {1, 2}}
================================================================================

---------------------------- MODULE MCConfigReload ----------------------------
(* Configuration files for ConfigReload.                                     *)
EXTENDS ConfigReload

CONSTANTS m1, m2, m3, pl, gr, a, l

Model(n, cfg) == [name |-> n, kind |-> "model", cfg |-> cfg, auto |-> FALSE,
                  loader |-> NoName]
Auto(n, cfg) == [Model(n, cfg) EXCEPT !.auto = TRUE]
Graph(n, ver, names, sub) ==
    [name |-> n, kind |-> "graph", ver |-> ver, aliases |-> names,
     queued |-> FALSE, sub |-> sub, subOk |-> TRUE]
Queued(n, ver, names, sub) ==
    [Graph(n, ver, names, sub) EXCEPT !.queued = TRUE]
Pipeline(n, uses) == [name |-> n, uses |-> uses, library |-> NoName]

\* Two models, a pipeline over one, a graph with a LoRA alias.
Plain ==
    [EmptyFile EXCEPT
        !.models = <<Model(m1, 1), Graph(gr, 1, {a}, <<Model(m3, 1)>>),
                     Model(m2, 1)>>,
        !.pipelines = <<Pipeline(pl, {m1})>>]

\* The pipeline moves to another model while its old one becomes "auto"; the
\* second model has a bad entry; the graph changes and drops its alias for
\* its own name; another has the name of an alias that Swapped leaves behind,
\* a queue that may fail to start and the name of a model as its alias.
Moved ==
    [EmptyFile EXCEPT
        !.models = <<[Model(m2, 1) EXCEPT !.kind = "invalid"], Auto(m1, 2),
                     Model(m3, 1), Model(m3, 2), Model(a, 1)>>,
        !.graphs = <<Graph(gr, 2, {gr}, <<>>), Queued(l, 1, {a}, <<>>)>>,
        !.pipelines = <<Pipeline(pl, {m3}), Pipeline(pl, {m1})>>]

\* Names change sides: a model takes the name of the alias, a pipeline that
\* of a model, a graph that of a pipeline; a graph of the alias's name.
Swapped ==
    [EmptyFile EXCEPT
        !.models = <<Model(a, 1), Model(m2, 1)>>,
        !.graphs = <<Graph(pl, 1, {m2}, <<>>), Graph(a, 3, {l}, <<>>)>>,
        !.pipelines = <<Pipeline(m1, {m2})>>]

\* A loader, a library, an unsupported plugin configuration, a broken
\* subconfig and a bad legacy graph entry.
Extras ==
    [EmptyFile EXCEPT
        !.listed = {"loaders", "libraries"}, !.loaders = {l},
        !.libraries = {l},
        !.models = <<[Model(m1, 1) EXCEPT !.loader = l], Model(m3, 1),
                     [Model(a, 1) EXCEPT !.kind = "unsupported"], Model(m2, 1)>>,
        !.graphs = <<[Graph(gr, 1, {a}, <<Model(m3, 3)>>) EXCEPT !.subOk = FALSE],
                     [Graph(a, 1, {}, <<>>) EXCEPT !.kind = "invalid"]>>,
        !.pipelines = <<[Pipeline(pl, {m1}) EXCEPT !.library = l]>>]

\* A graph of the alias's name before the graph that drops the alias; and a
\* start with a monitoring section that is not valid.
Renamed ==
    [EmptyFile EXCEPT
        !.metrics = FALSE,
        !.graphs = <<Graph(a, 3, {}, <<>>), Graph(gr, 2, {}, <<>>)>>]

MCFiles == {Plain, Moved, Swapped, Extras, Renamed}
MCNames == {m1, m2, m3, pl, gr, a, l}
=============================================================================

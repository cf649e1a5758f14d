---------------------------- MODULE NodeSessions ----------------------------
(* Sessions of the nodes of a DAG pipeline (nodesessionmetadata.cpp).  The   *)
(* metadata of a session is the sequence of its levels, outermost first: the *)
(* demultiplexing node, the number of the subsession and how many there are. *)
(* Session ids have IdBits bits.                                            *)
EXTENDS Naturals, Sequences, FiniteSets, SequencesExt

CONSTANT IdBits

ASSUME IdBitsAssumption == IdBits \in Nat \ {0}

Names(meta) == {meta[i].name : i \in DOMAIN meta}

\* demultiplyOutputs: one metadata per shard; a name spawns subsessions once.
GenerateSubsessions(meta, node, size) ==
    [k \in 1..size |-> Append(meta, [name |-> node, id |-> k - 1, size |-> size])]

\* The last levels, as many as there are names to collapse, are those names.
Lifo(meta, ignored) ==
    /\ ignored \subseteq Names(meta)
    /\ \A i \in DOMAIN meta :
           i > Len(meta) - Cardinality(ignored) => meta[i].name \in ignored

Outer(meta, ignored) == SubSeq(meta, 1, Len(meta) - Cardinality(ignored))
Inner(meta, ignored) ==
    SubSeq(meta, Len(meta) - Cardinality(ignored) + 1, Len(meta))

\* The key of a session: names and numbers of the levels that are left.
SessionKey(meta, ignored) ==
    LET left == Outer(meta, ignored)
    IN  [i \in DOMAIN left |-> <<left[i].name, left[i].id>>]

\* A mistake: the outermost level is treated as the fastest.
ShardIdOuterFirst(meta, ignored) ==
    LET step(acc, level) ==
            [id |-> (acc.id + acc.factor * level.id) % 2 ^ IdBits,
             factor |-> (acc.factor * level.size) % 2 ^ IdBits]
    IN  FoldLeft(step, [id |-> 0, factor |-> 1], Inner(meta, ignored)).id

\* getShardId works from the innermost level out.
ShardId(meta, ignored) ==
    LET step(acc, level) ==
            [id |-> (acc.id + acc.factor * level.id) % 2 ^ IdBits,
             factor |-> (acc.factor * level.size) % 2 ^ IdBits]
    IN  FoldRight(LAMBDA level, acc : step(acc, level),
                  Inner(meta, ignored), [id |-> 0, factor |-> 1]).id

\* GatherNodeInputHandler: one notification per input and shard.
ShardsCount(meta, ignored) ==
    FoldLeft(LAMBDA n, level : (n * level.size) % 2 ^ IdBits, 1,
             Inner(meta, ignored))

\* Where a shard belongs in the gathered tensor: its row-major rank among the
\* subsessions of the collapsed levels (the reference for ShardId).
RowMajorRank(meta, ignored) ==
    LET levels == Inner(meta, ignored)
        Before(ids) ==
            \E i \in DOMAIN levels :
                /\ ids[i] < levels[i].id
                /\ \A j \in 1..(i - 1) : ids[j] = levels[j].id
    IN  Cardinality(
            {ids \in [DOMAIN levels -> UNION {0..(levels[i].size - 1) : i \in DOMAIN levels}] :
                /\ \A i \in DOMAIN levels : ids[i] < levels[i].size
                /\ Before(ids)})
=============================================================================

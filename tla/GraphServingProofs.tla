------------------------- MODULE GraphServingProofs -------------------------
(***************************************************************************)
(* Proofs about GraphServing: the graphs of a pool are neither shared nor    *)
(* lost (PoolSafety), and what a request leaves in a pooled graph reaches    *)
(* nobody, but for the packets of a stream that ended with inputs missing,   *)
(* which the next request may meet or the end of a graph whose queue is gone *)
(* (RequestsIsolated), for any number of requests, inputs, files, loads of   *)
(* the definition and messages; and a graph changes hands as StreamPool      *)
(* allows (GraphsChangeHands).                                               *)
(*                                                                         *)
(* The inductive invariant is layered: Types says what there is, PoolInv and *)
(* KeyInv who holds which graph, UnusedInv and PacketInv what is in a graph   *)
(* that nobody, or a certain request, runs, and ClosedInv which graphs of a   *)
(* pool are run to their end.                                                *)
(***************************************************************************)
EXTENDS GraphServing, FiniteSetTheorems, TLAPS

-----------------------------------------------------------------------------
(* The inductive invariant                                                 *)

Packets == [in : Inputs, ts : 1..MaxClock + 1, own : Requests]
Graphs == [pending : SUBSET Packets, last : [Inputs -> 0..MaxClock + 1],
           err : BOOLEAN, closed : BOOLEAN,
           obs : Requests \cup {None}, ctx : Requests \cup {None}]
Definitions == [state : {"available", "failed", "reloading", "retired"},
                gen : 1..MaxGen, file : Files, size : Int, pool : 0..MaxGen]
NoKey == [pool |-> 0, id |-> None]
Executions == [pc : {"new", "guarded", "acquire", "begin", "first", "read", "wait",
                     "fail", "release", "ended"},
               kind : {"unary", "stream"}, gen : 0..MaxGen, key : Keys \cup {NoKey},
               sent : Nat, partial : BOOLEAN, got : SUBSET Requests]

Types ==
    /\ def \in Definitions
    /\ manager \in {"idle", "reload", "retire", "reload_drops", "retire_drops"}
    /\ handles \subseteq Requests
    /\ idle \in [1..MaxGen -> SUBSET PoolIds]
    /\ graph \in [Keys -> Graphs]
    /\ req \in [Requests -> Executions]
    /\ clock \in 1..MaxClock

\* The pool that lives is the one of the definition; a reload makes a new one.
PoolInv ==
    /\ manager \in {"reload", "reload_drops"} => def.gen < MaxGen
    /\ def.pool > 0 => /\ def.gen = def.pool /\ 1..def.size \subseteq PoolIds
                       /\ ~def.file.loopback /\ ~def.file.contextless

\* The ids of the graphs of a generation that requests hold.
Held(n) == {req[r].key.id : r \in {q \in Requests : Holds(q) /\ req[q].key.pool = n}}

\* A graph that a request holds is of the generation the request was created
\* from, or the request's own; nobody else holds it; the others are idle.
KeyInv ==
    /\ \A r \in Requests : Holds(r) =>
          /\ req[r].key \in Keys
          /\ Pooled(r) => req[r].key.pool = req[r].gen /\ req[r].gen <= def.gen
          /\ ~Pooled(r) => req[r].key.id = r
    /\ PoolConserved

\* A stream that may have left packets of some of the inputs in a pooled graph.
Abandoned(r) == req[r].kind = "stream" /\ req[r].partial

\* What a graph that nobody runs may hold.
Quiet(k) ==
    /\ graph[k].ctx = None
    /\ \A p \in graph[k].pending : Abandoned(p.own)

\* Graphs of pools to come, and the own graph of a request that does not run
\* it, are not used.
UnusedInv ==
    /\ \A k \in Keys : k.pool > def.gen => graph[k] = Fresh
    /\ \A k \in Keys : k.pool = 0 /\ graph[k] # Fresh =>
          /\ req[k.id].key = k
          /\ req[k.id].pc \in {"first", "read", "wait", "fail", "release"}
    /\ \A r \in Requests : req[r].partial =>
          /\ req[r].kind = "stream"
          /\ req[r].pc \notin {"new", "guarded", "acquire", "begin"}

\* What there is of other requests in the graph of a request, and what there
\* will be of it for the next one.
PacketInv ==
    /\ \A n \in 1..MaxGen : \A id \in idle[n] : Quiet([pool |-> n, id |-> id])
    /\ \A r \in Requests : Holds(r) =>
          /\ \A p \in G(r).pending : p.own = r \/ Abandoned(p.own)
          /\ Pooled(r) /\ req[r].pc \in {"begin", "release"} => Quiet(req[r].key)
          /\ Running(r) => G(r).obs = r
          /\ Running(r) /\ Pooled(r) /\ req[r].pc # "fail" /\ ~G(r).err /\ ~req[r].partial =>
                \A p \in G(r).pending : p.own = r => \A i \in Inputs : G(r).last[i] >= p.ts
    /\ \A r \in Requests : \A q \in req[r].got : q = r \/ Abandoned(q)

\* The sources of a pooled graph are closed by a request that failed, before it
\* starts the graph anew, or because the queue of the graph is gone.
ClosedInv ==
    \A k \in Keys : k.pool > 0 /\ graph[k].closed =>
        \/ \E r \in Requests : req[r].key = k /\ req[r].pc = "fail"
        \/ /\ k.pool # def.pool /\ Quiet(k)
           /\ \A r \in Requests :
                  Holds(r) /\ req[r].key = k => req[r].pc = "release"

IInv == /\ Types /\ PoolInv /\ KeyInv /\ UnusedInv /\ PacketInv /\ ClosedInv
        /\ CallbacksWithinRequest

-----------------------------------------------------------------------------
(* The operators                                                           *)

\* A finite set of integers has a least element, which Min chooses.
LEMMA MinIsLeast ==
    ASSUME NEW S, S \subseteq Int, IsFiniteSet(S), S # {}
    PROVE  Min(S) \in S /\ \A x \in S : Min(S) <= x
<1> DEFINE below(x) == {y \in S : y < x}
           T == {below(x) : x \in S}
<1>1. PICK b \in T : \A c \in T : <<c, b>> \notin StrictSubsetOrdering(S)
  <2>1. T \subseteq SUBSET S /\ T # {}
    OBVIOUS
  <2>2. IsWellFoundedOn(StrictSubsetOrdering(S), SUBSET S)
    BY FS_StrictSubsetOrderingWellFounded, FS_FiniteSubsetsOfFinite
  <2> HIDE DEF T
  <2> QED
    BY <2>1, <2>2, WFMin
<1>2. PICK m \in S : b = below(m)
  OBVIOUS
<1>3. ASSUME NEW x \in S PROVE m <= x
  <2>1. SUFFICES ASSUME x < m PROVE FALSE
    OBVIOUS
  <2>2. x \in Int /\ m \in Int /\ \A y \in S : y \in Int
    OBVIOUS
  <2>3. below(x) \in T /\ below(x) \in SUBSET S /\ below(m) \in SUBSET S
    OBVIOUS
  <2> HIDE DEF T
  <2>4. \A y \in S : y < x => y < m
    BY <2>1, <2>2
  <2>5. x \in below(m)
    BY <2>1
  <2>6. x \notin below(x)
    BY <2>2
  <2>7. below(x) \subseteq below(m)
    BY <2>4
  <2> QED
    BY <1>1, <1>2, <2>3, <2>5, <2>6, <2>7 DEF StrictSubsetOrdering
<1> QED
  BY <1>3 DEF Min

\* The lesser of two numbers.
LEMMA MinOfTwo ==
    ASSUME NEW a \in Int, NEW b \in Int
    PROVE  Min({a, b}) = IF a <= b THEN a ELSE b
<1>1. \E x \in {a, b} : \A y \in {a, b} : x <= y
  OBVIOUS
<1>2. Min({a, b}) \in {a, b} /\ \A y \in {a, b} : Min({a, b}) <= y
  BY <1>1 DEF Min
<1> QED
  BY <1>2

\* The greater of two numbers.
LEMMA MaxOfTwo ==
    ASSUME NEW a \in Int, NEW b \in Int
    PROVE  Max({a, b}) = IF a <= b THEN b ELSE a
<1>1. \E x \in {a, b} : \A y \in {a, b} : x >= y
  OBVIOUS
<1>2. Max({a, b}) \in {a, b} /\ \A y \in {a, b} : Max({a, b}) >= y
  BY <1>1 DEF Max
<1> QED
  BY <1>2

\* The keys of pooled graphs and of the graphs of requests.
LEMMA KeyTypes ==
    /\ \A n \in 1..MaxGen, i \in PoolIds : [pool |-> n, id |-> i] \in Keys
    /\ \A r \in Requests : [pool |-> 0, id |-> r] \in Keys
    /\ NoKey \notin Keys /\ NoKey.pool = 0
    /\ \A k \in Keys :
          /\ k.pool \in 0..MaxGen /\ k = [pool |-> k.pool, id |-> k.id]
          /\ k.pool = 0 => k.id \in Requests
          /\ k.pool > 0 => k.id \in PoolIds
BY BoundsAssumption, RequestsAssumption DEF Keys, NoKey

\* The clock never leaves its bound.
LEMMA LaterType == clock \in 1..MaxClock => Later \in 1..MaxClock
BY MinOfTwo, BoundsAssumption DEF Later

\* A started graph, also one that failed to start.
LEMMA FreshTypes ==
    /\ Fresh \in Graphs /\ Broken \in Graphs
    /\ \A g \in {Fresh, Broken} : /\ g.pending = {} /\ ~g.closed
                                  /\ g.obs = None /\ g.ctx = None /\ ~Settled(g)
<1>1. Fresh \in Graphs
  BY BoundsAssumption DEF Fresh, Graphs
<1>2. Broken \in Graphs
  BY <1>1 DEF Broken, Graphs
<1> QED
  BY <1>1, <1>2 DEF Broken, Fresh, Settled

\* resolveGraphQueueSize gives a pool to no graph with state of its own
\* (mediapipegraphdefinition.cpp:145).
LEMMA QueueSizes ==
    ASSUME NEW f \in Files
    PROVE  /\ ResolveGraphQueueSize(f) \in Int
           /\ 1..ResolveGraphQueueSize(f) \subseteq PoolIds
           /\ ResolveGraphQueueSize(f) > 0 => ~f.loopback /\ ~f.contextless
<1>1. ResolveAutoQueueSize \in Int
  BY SizesAssumption, MinOfTwo, MaxOfTwo DEF ResolveAutoQueueSize
<1>2. ResolveGraphQueueSize(f) \in Int
  BY <1>1, FilesAssumption, SizesAssumption DEF ResolveGraphQueueSize, FileOK
<1>3. 1..ResolveGraphQueueSize(f) \subseteq PoolIds
  BY DEF PoolIds
<1>4. ResolveGraphQueueSize(f) > 0 => ~f.loopback /\ ~f.contextless
  BY FilesAssumption DEF ResolveGraphQueueSize, FileOK
<1> QED
  BY <1>2, <1>3, <1>4

\* What a load leaves: the pool, if there is one, is of its generation.
LEMMA LoadedType ==
    ASSUME NEW f \in Files, NEW n \in 1..MaxGen
    PROVE  /\ Loaded(f, n) \in Definitions
           /\ Loaded(f, n).gen = n /\ Loaded(f, n).pool \in {0, n}
           /\ 1..Loaded(f, n).size \subseteq PoolIds
           /\ Loaded(f, n).pool > 0 => /\ ~Loaded(f, n).file.loopback
                                       /\ ~Loaded(f, n).file.contextless
<1>1. Loaded(f, n) \in Definitions
  <2>1. PICK s \in {"available", "failed"}, p \in {0, n} :
           Loaded(f, n) = [state |-> s, gen |-> n, file |-> f,
                           size |-> ResolveGraphQueueSize(f), pool |-> p]
    BY DEF Loaded
  <2> QED
    BY <2>1, QueueSizes, BoundsAssumption DEF Definitions
<1>2. /\ Loaded(f, n).gen = n /\ Loaded(f, n).pool \in {0, n}
      /\ Loaded(f, n).size = ResolveGraphQueueSize(f) /\ Loaded(f, n).file = f
      /\ Loaded(f, n).pool > 0 => ResolveGraphQueueSize(f) > 0
  BY DEF Loaded
<1> QED
  BY <1>1, <1>2, QueueSizes

\* The timestamp of a message is out of range or a point of time.
LEMMA MessageTypes ==
    ASSUME NEW m \in Messages, NEW now \in 1..MaxClock
    PROVE  /\ m.n \in 1..Cardinality(Inputs) /\ m.bad \in BOOLEAN
           /\ m.foreign \in BOOLEAN /\ (m.bad => m.n > 1)
           /\ DeserializeTimestamp(m, now) \in {-1} \cup 1..MaxClock + 1
<1>1. Cardinality(Inputs) \in Nat \ {0}
  BY InputsAssumption, FS_CardinalityType, FS_EmptySet
<1>2. /\ m.n \in 1..Cardinality(Inputs) /\ m.bad \in BOOLEAN /\ m.foreign \in BOOLEAN
      /\ m.ts \in {"now", "far", "invalid"}
  <2>1. \/ m \in [n : 1..Cardinality(Inputs), bad : BOOLEAN, ts : {"now", "far"},
                  foreign : {FALSE}]
        \/ m = [n |-> 1, bad |-> FALSE, ts |-> "invalid", foreign |-> FALSE]
        \/ m = [n |-> 1, bad |-> FALSE, ts |-> "now", foreign |-> TRUE]
    BY Zenon DEF Messages
  <2>2. CASE m \in [n : 1..Cardinality(Inputs), bad : BOOLEAN, ts : {"now", "far"},
                  foreign : {FALSE}]
    BY <2>2
  <2>3. CASE m = [n |-> 1, bad |-> FALSE, ts |-> "invalid", foreign |-> FALSE]
    BY <1>1, <2>3
  <2>4. CASE m = [n |-> 1, bad |-> FALSE, ts |-> "now", foreign |-> TRUE]
    BY <1>1, <2>4
  <2> QED
    BY <2>1, <2>2, <2>3, <2>4
<1>3. DeserializeTimestamp(m, now) \in {-1} \cup 1..MaxClock + 1
  BY <1>2, BoundsAssumption DEF DeserializeTimestamp
<1>4. m.bad => m.n > 1
  <2>1. \/ m.bad => m.n > 1
        \/ m = [n |-> 1, bad |-> FALSE, ts |-> "invalid", foreign |-> FALSE]
        \/ m = [n |-> 1, bad |-> FALSE, ts |-> "now", foreign |-> TRUE]
    BY Zenon DEF Messages
  <2> QED
    BY <2>1
<1> QED
  BY <1>2, <1>3, <1>4

\* All inputs are the first ones, and none of them are.
LEMMA FirstInputsBounds ==
    /\ FirstInputs(Cardinality(Inputs)) = Inputs
    /\ FirstInputs(0) = {}
<1>1. ASSUME NEW i \in Inputs
      PROVE  Cardinality({j \in Inputs : j <= i}) \in 1..Cardinality(Inputs)
  <2> DEFINE upTo == {j \in Inputs : j <= i}
  <2>1. upTo \in SUBSET Inputs /\ i \in upTo
    BY InputsAssumption
  <2> HIDE DEF upTo
  <2> QED
    BY <2>1, InputsAssumption, FS_Subset, FS_EmptySet, FS_CardinalityType DEF upTo
<1> QED
  BY <1>1 DEF FirstInputs

\* createAndPushPacketsImpl adds packets of the request to the graph and, if it
\* was given all inputs and the graph has not failed, of all of them.
LEMMA PushFacts ==
    ASSUME NEW g \in Graphs, NEW m \in Messages, NEW now \in 1..MaxClock,
           NEW r \in Requests, NEW push, push = CreateAndPushPackets(g, m, now, r)
    PROVE  /\ push.g \in Graphs /\ push.ok \in BOOLEAN
           /\ push.created \in 0..Cardinality(Inputs)
           /\ push.g.obs = g.obs /\ push.g.ctx = g.ctx /\ push.g.closed = g.closed
           /\ g.err => push.g.err
           /\ \A p \in push.g.pending : p \in g.pending \/ p.own = r
           /\ \A i \in Inputs : ~push.g.err => push.g.last[i] >= g.last[i]
           /\ push.created = 0 /\ ~push.g.err => push.g.pending = g.pending /\ push.g.last = g.last
           /\ push.created = Cardinality(Inputs) /\ ~push.g.err =>
                 \A p \in push.g.pending, i \in Inputs :
                    p \notin g.pending => push.g.last[i] >= p.ts
           /\ push.ok => ~push.g.err
<1> DEFINE ts == DeserializeTimestamp(m, now)
           good == IF m.bad THEN m.n - 1 ELSE m.n
           late == {i \in FirstInputs(good) : ts <= g.last[i]}
           pushed == {i \in FirstInputs(good) : ~g.err /\ \A j \in late : i < j}
           new == {[in |-> i, ts |-> ts, own |-> r] : i \in pushed}
           last == [i \in Inputs |-> IF i \in pushed THEN ts ELSE g.last[i]]
           after == [g EXCEPT !.pending = @ \cup new, !.last = last,
                              !.err = g.err \/ late # {}]
<1>1. /\ ts \in {-1} \cup 1..MaxClock + 1
      /\ good \in 1..Cardinality(Inputs) /\ Cardinality(Inputs) \in Nat
  <2>1. Cardinality(Inputs) \in Nat
    BY InputsAssumption, FS_CardinalityType
  <2> QED
    BY <2>1, MessageTypes
<1>2. push = IF ts < 0 THEN [g |-> g, ok |-> FALSE, created |-> 0]
             ELSE [g |-> after, ok |-> good = m.n /\ ~after.err,
                   created |-> Cardinality(pushed)]
  <2>1. [AddPackets(g, pushed, ts, r) EXCEPT !.err = g.err \/ late # {}] = after
    BY DEF AddPackets, Graphs
  <2> QED
    BY <2>1 DEF CreateAndPushPackets
<1>3. CASE ts < 0
  <2>1. push = [g |-> g, ok |-> FALSE, created |-> 0]
    BY <1>2, <1>3
  <2>2. \A i \in Inputs : g.last[i] \in 0..MaxClock + 1
    BY DEF Graphs
  <2>3. 0 \in 0..Cardinality(Inputs) /\ Cardinality(Inputs) # 0
    <3> HIDE DEF good
    <3> QED
      BY <1>1
  <2> HIDE DEF good, ts
  <2> QED
    BY <2>1, <2>2, <2>3, BoundsAssumption
<1>4. CASE ts >= 0
  <2>1. /\ push.g = after /\ push.created = Cardinality(pushed)
        /\ push.ok = (good = m.n /\ ~after.err) /\ ts \in 1..MaxClock + 1
    <3> HIDE DEF after, ts, good, pushed
    <3>1. push = [g |-> after, ok |-> good = m.n /\ ~after.err,
                  created |-> Cardinality(pushed)]
      BY <1>1, <1>2, <1>4, BoundsAssumption
    <3> QED
      BY <1>1, <1>4, <3>1, BoundsAssumption
  <2>2. pushed \in SUBSET Inputs /\ late \subseteq Inputs
    BY DEF FirstInputs
  <2>3. \A i \in pushed : i \notin late
    <3>1. \A i \in pushed, j \in late : i < j
      OBVIOUS
    <3> HIDE DEF pushed, late
    <3> QED
      BY <2>2, <3>1, InputsAssumption
  <2>4. \A i \in Inputs : g.last[i] \in 0..MaxClock + 1
    BY DEF Graphs
  <2> HIDE DEF ts, good
  <2>5. \A i \in pushed : g.last[i] < ts
    BY <2>1, <2>2, <2>3, <2>4, BoundsAssumption
  <2> HIDE DEF late, pushed
  <2>6. new \subseteq Packets /\ last \in [Inputs -> 0..MaxClock + 1]
    BY <2>1, <2>2, <2>4 DEF Packets
  <2>7. \A p \in new : p.own = r /\ p.ts = ts
    OBVIOUS
  <2>8. \A i \in Inputs : last[i] >= g.last[i] /\ (i \in pushed => last[i] = ts)
    BY <2>1, <2>4, <2>5, BoundsAssumption
  <2>9. pushed = {} => new = {} /\ last = g.last
    BY DEF Graphs
  <2> HIDE DEF new, last
  <2>10. /\ after \in Graphs /\ after.pending = g.pending \cup new /\ after.last = last
         /\ after.obs = g.obs /\ after.ctx = g.ctx /\ after.closed = g.closed
         /\ after.err = (g.err \/ late # {})
    BY <2>6 DEF Graphs
  <2> HIDE DEF after
  <2>11. /\ push.created \in 0..Cardinality(Inputs) /\ push.ok \in BOOLEAN
         /\ push.created = 0 => pushed = {}
         /\ push.created = Cardinality(Inputs) => pushed = Inputs
    <3>1. /\ IsFiniteSet(pushed) /\ Cardinality(pushed) \in Nat
          /\ Cardinality(pushed) <= Cardinality(Inputs) /\ Cardinality(Inputs) \in Nat
          /\ Cardinality(pushed) = Cardinality(Inputs) => pushed = Inputs
      BY <2>2, InputsAssumption, FS_Subset, FS_CardinalityType
    <3>2. Cardinality(pushed) = 0 => pushed = {}
      BY <3>1, FS_EmptySet
    <3>3. push.ok \in BOOLEAN
      BY <2>1
    <3> QED
      BY <2>1, <3>1, <3>2, <3>3
  <2>12. \A p \in push.g.pending : p \in g.pending \/ (p.own = r /\ p.ts = ts)
    BY <2>1, <2>7, <2>10
  <2>13. push.created = Cardinality(Inputs) => \A i \in Inputs : push.g.last[i] = ts
    BY <2>1, <2>8, <2>10, <2>11
  <2>14. push.created = Cardinality(Inputs) =>
            \A p \in push.g.pending, i \in Inputs :
                p \notin g.pending => push.g.last[i] >= p.ts
    BY <2>1, <2>12, <2>13, BoundsAssumption
  <2>15. \A i \in Inputs : push.g.last[i] >= g.last[i]
    BY <2>1, <2>8, <2>10
  <2>16. push.created = 0 => push.g.pending = g.pending /\ push.g.last = g.last
    BY <2>1, <2>9, <2>10, <2>11
  <2> QED
    BY <2>1, <2>10, <2>11, <2>12, <2>14, <2>15, <2>16
<1> QED
  BY <1>1, <1>3, <1>4, BoundsAssumption

\* A step of a request that holds a graph touches its own execution and graph
\* only: what it leaves there for others decides whether it keeps IInv.
LEMMA OwnStepKeeps ==
    ASSUME IInv, NEW r \in Requests, Holds(r),
           Types', UNCHANGED <<def, manager, handles, idle>>,
           NEW k, k = req[r].key,
           \A q \in Requests : q # r => req'[q] = req[q],
           \A l \in Keys : l # k => graph'[l] = graph[l],
           req'[r].key = k, req'[r].gen = req[r].gen,
           \A q \in req'[r].got : q \in req[r].got \/ q = r \/ Abandoned(q),
           Running(r)' \/ req'[r].pc = "release",
           req[r].partial => req'[r].partial /\ req'[r].kind = req[r].kind,
           req'[r].partial => req'[r].kind = "stream",
           k.pool > 0 /\ graph'[k].closed =>
              req'[r].pc = "fail" \/ (req'[r].pc = "release" /\ k.pool # def.pool),
           \A p \in graph'[k].pending : p.own = r \/ p \in graph[k].pending,
           k.pool > 0 /\ req'[r].pc = "release" =>
              /\ graph'[k].ctx = None
              /\ \A p \in graph'[k].pending : p.own = r => req'[r].partial,
           Running(r)' => graph'[k].obs = r,
           Running(r)' /\ k.pool > 0 /\ req'[r].pc # "fail" /\ ~graph'[k].err
              /\ ~req'[r].partial =>
                 \A p \in graph'[k].pending :
                     p.own = r => \A i \in Inputs : graph'[k].last[i] >= p.ts,
           Settled(graph'[k]) =>
              Running(r)' \/ (k.pool > 0 /\ k.pool # def.pool /\ graph'[k].closed)
    PROVE  IInv'
<1>1. /\ k \in Keys /\ Holds(r)' /\ graph \in [Keys -> Graphs] /\ def \in Definitions
      /\ req \in [Requests -> Executions] /\ idle \in [1..MaxGen -> SUBSET PoolIds]
  BY DEF IInv, Types, KeyInv, Holds, Running
<1>2. \A q \in Requests : Holds(q)' <=> Holds(q)
  BY <1>1 DEF Holds
<1>3. \A q \in Requests : req'[q].key = req[q].key /\ req'[q].gen = req[q].gen
  OBVIOUS
<1>4. \A q \in Requests : Abandoned(q) => Abandoned(q)'
  BY DEF Abandoned
<1>5. \A q \in Requests : q # r /\ Holds(q) => req[q].key # k /\ req[q].key \in Keys
  BY DEF IInv, KeyInv, PoolConserved
<1>6. \A l \in Keys : \A p \in graph[l].pending : p.own \in Requests
  BY <1>1 DEF Graphs, Packets
<1>7. PoolInv'
  BY DEF IInv, PoolInv
<1>8. KeyInv'
  <2>1. \A n : Held(n)' = Held(n)
    BY <1>2, <1>3 DEF Held
  <2>2. PoolConserved'
    BY <1>2, <1>3, <2>1 DEF IInv, KeyInv, PoolConserved, Held
  <2> QED
    BY <1>2, <1>3, <2>2 DEF IInv, KeyInv, Pooled
<1>9. UnusedInv'
  <2>1. k.pool <= def.gen
    BY <1>1, KeyTypes, BoundsAssumption DEF IInv, KeyInv, Pooled, Definitions
  <2>2. k.pool = 0 => k.id = r
    BY <1>1 DEF IInv, KeyInv, Pooled
  <2>3. \A l \in Keys : l.pool > def'.gen => graph'[l] = Fresh
    BY <1>1, <2>1, KeyTypes, BoundsAssumption DEF IInv, UnusedInv, Definitions
  <2>4. \A l \in Keys : l.pool = 0 /\ graph'[l] # Fresh =>
           /\ req'[l.id].key = l
           /\ req'[l.id].pc \in {"first", "read", "wait", "fail", "release"}
    <3>1. SUFFICES ASSUME NEW l \in Keys, l.pool = 0, graph'[l] # Fresh
                   PROVE  /\ req'[l.id].key = l
                          /\ req'[l.id].pc \in {"first", "read", "wait", "fail", "release"}
      OBVIOUS
    <3>2. CASE l = k
      BY <2>2, <3>1, <3>2 DEF Running
    <3>3. CASE l # k
      <4>1. req[l.id].key = l
            /\ req[l.id].pc \in {"first", "read", "wait", "fail", "release"}
        BY <3>1, <3>3 DEF IInv, UnusedInv
      <4>2. l.id \in Requests /\ l.id # r
        BY <3>1, <3>3, <4>1, KeyTypes
      <4> QED
        BY <4>1, <4>2
    <3> QED
      BY <3>2, <3>3
  <2>5. \A q \in Requests : req'[q].partial =>
           req'[q].kind = "stream" /\ req'[q].pc \notin {"new", "guarded", "acquire", "begin"}
    BY DEF IInv, UnusedInv, Running
  <2> QED
    BY <2>3, <2>4, <2>5 DEF UnusedInv
<1>10. PacketInv'
  <2>1. \A n \in 1..MaxGen : \A id \in idle'[n] : Quiet([pool |-> n, id |-> id])'
    <3>1. SUFFICES ASSUME NEW n \in 1..MaxGen, NEW id \in idle[n]
                   PROVE  Quiet([pool |-> n, id |-> id])'
      OBVIOUS
    <3> DEFINE l == [pool |-> n, id |-> id]
    <3>2. l \in Keys
      BY <1>1, KeyTypes
    <3>3. l # k
      <4>1. n = def.pool
        BY DEF IInv, KeyInv, PoolConserved
      <4>2. k.pool = n => k.id \in Held(n)
        BY DEF Held
      <4>3. idle[n] \cap Held(n) = {}
        BY <4>1 DEF IInv, KeyInv, PoolConserved, Held
      <4> QED
        BY <4>2, <4>3
    <3>4. Quiet(l)
      BY DEF IInv, PacketInv
    <3> HIDE DEF l
    <3>5. Quiet(l)'
      BY <1>4, <1>6, <3>2, <3>3, <3>4 DEF Quiet
    <3> QED
      BY <3>5 DEF l
  <2>2. ASSUME NEW q \in Requests, q # r, Holds(q)
        PROVE  /\ G(q)' = G(q) /\ req'[q] = req[q]
               /\ \A p \in G(q).pending : Abandoned(p.own) => Abandoned(p.own)'
    BY <1>4, <1>5, <1>6, <2>2 DEF G
  <2>3. ASSUME NEW q \in Requests, q # r, Holds(q)'
        PROVE  /\ \A p \in G(q)'.pending : p.own = q \/ Abandoned(p.own)'
               /\ Pooled(q)' /\ req'[q].pc \in {"begin", "release"} => Quiet(req[q].key)'
               /\ Running(q)' => G(q)'.obs = q
               /\ Running(q)' /\ Pooled(q)' /\ req'[q].pc # "fail" /\ ~G(q)'.err
                     /\ ~req'[q].partial =>
                     \A p \in G(q)'.pending :
                         p.own = q => \A i \in Inputs : G(q)'.last[i] >= p.ts
    BY <1>2, <2>2, <2>3 DEF IInv, PacketInv, Quiet, Pooled, Running, G
  <2>4. G(r)' = graph'[k]
    BY DEF G
  <2>5. \A p \in graph[k].pending : p.own = r \/ Abandoned(p.own)'
    BY <1>1, <1>4, <1>6 DEF IInv, PacketInv, G
  <2>6. \A p \in graph'[k].pending : p.own = r \/ Abandoned(p.own)'
    BY <2>5
  <2>7. req'[r].partial => Abandoned(r)'
    BY DEF Abandoned
  <2>8. k.pool > 0 /\ req'[r].pc \in {"begin", "release"} => Quiet(k)'
    BY <2>6, <2>7 DEF Quiet, Running
  <2>9. ASSUME NEW q \in Requests, NEW o \in req'[q].got
        PROVE  o = q \/ Abandoned(o)'
    <3>1. req' \in [Requests -> Executions] /\ o \in Requests
      BY DEF Types, Executions
    <3>2. o = q \/ Abandoned(o)
      BY DEF IInv, PacketInv
    <3> QED
      BY <1>4, <3>1, <3>2
  <2> QED
    BY <1>3, <2>1, <2>3, <2>4, <2>6, <2>8, <2>9 DEF PacketInv, Pooled
<1>11. req'[r].pc = "release" /\ k.pool > 0 => Quiet(k)'
  BY <1>1, <1>10 DEF PacketInv, Pooled
<1>12. ClosedInv'
  <2>1. SUFFICES ASSUME NEW l \in Keys, l.pool > 0, graph'[l].closed
                 PROVE  \/ \E q \in Requests : req'[q].key = l /\ req'[q].pc = "fail"
                        \/ /\ l.pool # def'.pool /\ Quiet(l)'
                           /\ \A q \in Requests :
                                 Holds(q)' /\ req'[q].key = l => req'[q].pc = "release"
    BY DEF ClosedInv
  <2>2. CASE l = k
    <3>1. CASE req'[r].pc = "fail"
      BY <2>2, <3>1
    <3>2. CASE req'[r].pc = "release" /\ k.pool # def.pool
      <4>1. \A q \in Requests : Holds(q)' /\ req'[q].key = k => q = r
        BY <1>2, <1>3, <1>5
      <4>2. Quiet(k)'
        BY <1>11, <2>1, <2>2, <3>2
      <4> QED
        BY <2>2, <3>2, <4>1, <4>2
    <3> QED
      BY <2>1, <2>2, <3>1, <3>2
  <2>3. CASE l # k
    <3>1. graph'[l] = graph[l] /\ req[r].key # l /\ req'[r].key # l
      BY <2>3
    <3>2. Quiet(l) => Quiet(l)'
      BY <1>4, <1>6, <3>1 DEF Quiet
    <3>3. CASE \E q \in Requests : req[q].key = l /\ req[q].pc = "fail"
      BY <3>1, <3>3
    <3>4. CASE /\ l.pool # def.pool /\ Quiet(l)
               /\ \A q \in Requests :
                     Holds(q) /\ req[q].key = l => req[q].pc = "release"
      BY <1>2, <3>1, <3>2, <3>4
    <3> QED
      BY <2>1, <3>1, <3>3, <3>4 DEF IInv, ClosedInv
  <2> QED
    BY <2>2, <2>3
<1>13. CallbacksWithinRequest'
  <2>1. SUFFICES ASSUME NEW l \in Keys, Settled(graph'[l])
                 PROVE  \/ \E q \in Requests : Running(q)' /\ req'[q].key = l
                                               /\ graph'[l].obs = q
                        \/ /\ l.pool > 0 /\ l.pool # def'.pool /\ graph'[l].closed
                           /\ \A p \in graph'[l].pending : Abandoned(p.own)'
    BY DEF CallbacksWithinRequest, LeftByStreams, Abandoned
  <2>2. CASE l = k
    <3>1. CASE Running(r)'
      BY <2>2, <3>1
    <3>2. CASE ~Running(r)'
      <4>1. /\ k.pool > 0 /\ k.pool # def.pool /\ graph'[k].closed
            /\ req'[r].pc = "release"
        BY <2>1, <2>2, <3>2
      <4>2. Quiet(k)'
        BY <1>11, <4>1
      <4> QED
        BY <2>2, <4>1, <4>2 DEF Quiet
    <3> QED
      BY <3>1, <3>2
  <2>3. CASE l # k
    <3>1. graph'[l] = graph[l] /\ Settled(graph[l])
      BY <2>1, <2>3
    <3>2. CASE \E q \in Requests : Running(q) /\ req[q].key = l /\ graph[l].obs = q
      BY <2>3, <3>1, <3>2 DEF Running
    <3>3. CASE /\ l.pool > 0 /\ l.pool # def.pool /\ graph[l].closed
               /\ LeftByStreams(graph[l])
      <4>1. \A p \in graph[l].pending : Abandoned(p.own)
        BY <3>3 DEF LeftByStreams, Abandoned
      <4> QED
        BY <1>4, <1>6, <3>1, <3>3, <4>1
    <3> QED
      BY <3>1, <3>2, <3>3 DEF IInv, CallbacksWithinRequest
  <2> QED
    BY <2>2, <2>3
<1> QED
  BY <1>7, <1>8, <1>9, <1>10, <1>12, <1>13 DEF IInv

\* The packets that are processed next have the least timestamp.
LEMMA NextSetIsLeast ==
    ASSUME NEW g \in Graphs, NEW p \in g.pending
    PROVE  NextSet(g) \in 1..MaxClock + 1 /\ NextSet(g) <= p.ts
<1> DEFINE S == {q.ts : q \in g.pending}
<1>1. S \subseteq 1..MaxClock + 1 /\ p.ts \in S
  BY DEF Graphs, Packets
<1> HIDE DEF S
<1>2. S \subseteq Int /\ S # {} /\ IsFiniteSet(S)
  <2>1. MaxClock + 1 \in Int /\ IsFiniteSet(1..MaxClock + 1)
    BY BoundsAssumption, FS_Interval
  <2>2. IsFiniteSet(S)
    BY <1>1, <2>1, FS_Subset
  <2> QED
    BY <1>1, <2>1, <2>2
<1>3. Min(S) \in S /\ Min(S) <= p.ts
  BY <1>1, <1>2, MinIsLeast
<1> QED
  BY <1>1, <1>3 DEF NextSet, S

\* What IInv says of a request that holds a graph, and of the graph.
LEMMA HolderFacts ==
    ASSUME IInv, NEW r \in Requests, Holds(r), NEW k, k = req[r].key
    PROVE  /\ k \in Keys /\ graph \in [Keys -> Graphs] /\ graph[k] \in Graphs
           /\ req \in [Requests -> Executions] /\ req[r] \in Executions
           /\ G(r) = graph[k] /\ k.pool \in Nat /\ (Pooled(r) <=> k.pool > 0)
           /\ Settled(graph[k]) =>
                 Running(r) \/ (k.pool > 0 /\ k.pool # def.pool /\ graph[k].closed)
           /\ \A p \in graph[k].pending : p.own = r \/ Abandoned(p.own)
           /\ k.pool > 0 /\ req[r].pc \in {"begin", "release"} =>
                 /\ graph[k].ctx = None
                 /\ \A p \in graph[k].pending : p.own = r => req[r].partial
           /\ Running(r) => graph[k].obs = r
           /\ Running(r) /\ k.pool > 0 /\ req[r].pc # "fail" /\ ~graph[k].err
                 /\ ~req[r].partial =>
                 \A p \in graph[k].pending :
                     p.own = r => \A i \in Inputs : graph[k].last[i] >= p.ts
           /\ k.pool > 0 /\ graph[k].closed =>
                 req[r].pc = "fail" \/ (req[r].pc = "release" /\ k.pool # def.pool)
           /\ req[r].partial => req[r].kind = "stream" /\ req[r].pc # "begin"
<1>1. /\ k \in Keys /\ graph \in [Keys -> Graphs] /\ graph[k] \in Graphs
      /\ req \in [Requests -> Executions] /\ req[r] \in Executions
  BY DEF IInv, Types, KeyInv
<1>2. G(r) = graph[k] /\ k.pool \in Nat /\ (Pooled(r) <=> k.pool > 0)
  BY <1>1, KeyTypes, BoundsAssumption DEF G, Pooled
<1>3. Settled(graph[k]) =>
         Running(r) \/ (k.pool > 0 /\ k.pool # def.pool /\ graph[k].closed)
  <2>1. SUFFICES ASSUME Settled(graph[k]),
                        ~(k.pool > 0 /\ k.pool # def.pool /\ graph[k].closed)
                 PROVE  Running(r)
    OBVIOUS
  <2>2. PICK q \in Requests : Running(q) /\ req[q].key = k
    BY <1>1, <2>1 DEF IInv, CallbacksWithinRequest
  <2>3. q = r
    BY <2>2 DEF IInv, KeyInv, PoolConserved, Holds, Running
  <2> QED
    BY <2>2, <2>3
<1>4. k.pool > 0 /\ req[r].pc \in {"begin", "release"} =>
         /\ graph[k].ctx = None
         /\ \A p \in graph[k].pending : p.own = r => req[r].partial
  BY <1>2 DEF IInv, PacketInv, Quiet, Abandoned
<1>5. /\ \A p \in graph[k].pending : p.own = r \/ Abandoned(p.own)
      /\ Running(r) => graph[k].obs = r
      /\ Running(r) /\ k.pool > 0 /\ req[r].pc # "fail" /\ ~graph[k].err
            /\ ~req[r].partial =>
            \A p \in graph[k].pending :
                p.own = r => \A i \in Inputs : graph[k].last[i] >= p.ts
  BY <1>2 DEF IInv, PacketInv
<1>6. req[r].partial => req[r].kind = "stream" /\ req[r].pc # "begin"
  BY <1>1 DEF IInv, UnusedInv
<1>7. k.pool > 0 /\ graph[k].closed =>
         req[r].pc = "fail" \/ (req[r].pc = "release" /\ k.pool # def.pool)
  <2>1. \A q \in Requests : req[q].pc = "fail" /\ req[q].key = k => q = r
    BY DEF IInv, KeyInv, PoolConserved, Holds
  <2> QED
    BY <1>1, <2>1 DEF IInv, ClosedInv
<1> QED
  BY <1>1, <1>2, <1>3, <1>4, <1>5, <1>6, <1>7

-----------------------------------------------------------------------------
(* A request on the graph it holds                                         *)

\* A request that is refused for its side packets leaves the graph as it is.
LEMMA RefuseSidePacketsKeeps ==
    ASSUME IInv, NEW r \in Requests, RefuseSidePackets(r)
    PROVE  IInv'
<1> DEFINE k == req[r].key
<1>1. Holds(r) /\ ~Running(r)
  BY DEF RefuseSidePackets, Holds, Running
<1>2. req'[r] = [req[r] EXCEPT !.pc = "release"] /\ \A q \in Requests : q # r => req'[q] = req[q]
  BY <1>1, HolderFacts DEF RefuseSidePackets
<1>3. Types'
  <2>1. req' \in [Requests -> Executions]
    BY <1>1, HolderFacts DEF RefuseSidePackets, Executions
  <2> QED
    BY <2>1 DEF RefuseSidePackets, IInv, Types
<1>4. req[r].pc = "begin" /\ UNCHANGED <<def, manager, handles, idle, graph>>
  BY DEF RefuseSidePackets
<1>5. /\ req'[r].key = k /\ req'[r].gen = req[r].gen /\ req'[r].got = req[r].got
      /\ req'[r].pc = "release" /\ req'[r].partial = req[r].partial
      /\ req'[r].kind = req[r].kind
  BY <1>1, <1>2, HolderFacts DEF Executions
<1>6. Running(r)' <=> FALSE
  BY <1>5 DEF Running
<1>7. /\ graph'[k] = graph[k] /\ ~Settled(graph'[k])
      /\ k.pool > 0 => ~graph'[k].closed
      /\ k.pool > 0 => /\ graph'[k].ctx = None
                      /\ \A p \in graph'[k].pending : p.own = r => req'[r].partial
      /\ req[r].partial => req[r].kind = "stream"
  BY <1>1, <1>4, <1>5, HolderFacts
<1> QED
  BY <1>1, <1>2, <1>3, <1>4, <1>5, <1>6, <1>7, OwnStepKeeps

\* A graph of one's own that cannot start was never used.
LEMMA StartFailsKeeps ==
    ASSUME IInv, NEW r \in Requests, StartFails(r)
    PROVE  IInv'
<1> DEFINE k == req[r].key
<1>1. Holds(r) /\ ~Running(r)
  BY DEF StartFails, Holds, Running
<1>2. req'[r] = [req[r] EXCEPT !.pc = "release"] /\ \A q \in Requests : q # r => req'[q] = req[q]
  BY <1>1, HolderFacts DEF StartFails
<1>3. Types'
  <2>1. req' \in [Requests -> Executions]
    BY <1>1, HolderFacts DEF StartFails, Executions
  <2> QED
    BY <2>1 DEF StartFails, IInv, Types
<1>4. /\ req[r].pc = "begin" /\ ~Pooled(r)
      /\ UNCHANGED <<def, manager, handles, idle, graph>>
  BY DEF StartFails
<1>5. /\ req'[r].key = k /\ req'[r].gen = req[r].gen /\ req'[r].got = req[r].got
      /\ req'[r].pc = "release" /\ req'[r].partial = req[r].partial
      /\ req'[r].kind = req[r].kind
  BY <1>1, <1>2, HolderFacts DEF Executions
<1>6. Running(r)' <=> FALSE
  BY <1>5 DEF Running
<1> QED
  BY <1>1, <1>2, <1>3, <1>4, <1>5, <1>6, HolderFacts, OwnStepKeeps

\* The observers are swapped before a request runs the graph.
LEMMA BeginKeeps ==
    ASSUME IInv, NEW r \in Requests, Begin(r)
    PROVE  IInv'
<1> DEFINE k == req[r].key
<1>1. Holds(r) /\ ~Running(r) /\ req[r].pc = "begin"
  BY DEF Begin, Holds, Running
<1>2. PICK kind \in {"unary", "stream"} :
         req' = [req EXCEPT ![r].pc = "first", ![r].kind = kind]
  BY DEF Begin
<1>3. /\ req'[r].key = k /\ req'[r].gen = req[r].gen /\ req'[r].got = req[r].got
      /\ req'[r].pc = "first" /\ req'[r].partial = req[r].partial
      /\ \A q \in Requests : q # r => req'[q] = req[q]
      /\ req' \in [Requests -> Executions]
  BY <1>1, <1>2, HolderFacts DEF Executions
<1>4. /\ graph'[k].obs = r /\ graph'[k].pending = graph[k].pending
      /\ graph'[k].last = graph[k].last /\ graph'[k].err = graph[k].err
      /\ graph'[k].closed = graph[k].closed
      /\ \A l \in Keys : l # k => graph'[l] = graph[l]
      /\ graph' \in [Keys -> Graphs]
  <2>1. /\ graph'[k] = [graph[k] EXCEPT !.obs = r, !.ctx = r]
        /\ graph' = [graph EXCEPT ![k] = graph'[k]]
    BY <1>1, HolderFacts DEF Begin
  <2>2. graph'[k] \in Graphs
    BY <1>1, <2>1, HolderFacts DEF Graphs
  <2>3. graph' \in [Keys -> Graphs] /\ \A l \in Keys : l # k => graph'[l] = graph[l]
    BY <1>1, <2>1, <2>2, HolderFacts
  <2>4. graph[k] \in Graphs
    BY <1>1, HolderFacts
  <2> QED
    BY <2>1, <2>3, <2>4 DEF Graphs
<1>5. Types' /\ UNCHANGED <<def, manager, handles, idle>>
  BY <1>3, <1>4 DEF Begin, IInv, Types
<1>6. Running(r)'
  BY <1>3 DEF Running
<1> QED
  BY <1>1, <1>3, <1>4, <1>5, <1>6, HolderFacts, OwnStepKeeps

\* A unary request waits for the graph only if it gave it all inputs.
LEMMA PushUnaryKeeps ==
    ASSUME IInv, NEW r \in Requests, PushUnary(r)
    PROVE  IInv'
<1> DEFINE k == req[r].key
<1>1. Holds(r) /\ Running(r) /\ req[r].pc = "first"
  BY DEF PushUnary, Holds, Running
<1>2. PICK m \in Messages :
         LET push == CreateAndPushPackets(G(r), m, Later, r) IN
         /\ clock' = Later
         /\ graph' = [graph EXCEPT ![req[r].key] = push.g]
         /\ req' = [req EXCEPT ![r].sent = 1,
                        ![r].pc = IF push.ok /\ push.created >= Cardinality(Inputs)
                                  THEN "wait" ELSE "fail"]
  BY DEF PushUnary
<1> DEFINE push == CreateAndPushPackets(G(r), m, Later, r)
<1>3. Later \in 1..MaxClock /\ G(r) = graph[k] /\ G(r) \in Graphs
      /\ Cardinality(Inputs) \in Nat
  BY <1>1, HolderFacts, LaterType, InputsAssumption, FS_CardinalityType DEF IInv, Types
<1>4. /\ push.g \in Graphs /\ push.ok \in BOOLEAN
      /\ push.created \in 0..Cardinality(Inputs)
      /\ push.g.obs = graph[k].obs /\ push.g.closed = graph[k].closed
      /\ graph[k].err => push.g.err
      /\ \A p \in push.g.pending : p \in graph[k].pending \/ p.own = r
      /\ \A i \in Inputs : ~push.g.err => push.g.last[i] >= graph[k].last[i]
      /\ push.created = Cardinality(Inputs) /\ ~push.g.err =>
            \A p \in push.g.pending, i \in Inputs :
               p \notin graph[k].pending => push.g.last[i] >= p.ts
      /\ push.ok => ~push.g.err
  BY <1>3, PushFacts
<1> HIDE DEF push
<1>5. /\ graph'[k] = push.g /\ graph' \in [Keys -> Graphs]
      /\ \A l \in Keys : l # k => graph'[l] = graph[l]
  BY <1>1, <1>2, <1>4, HolderFacts DEF push
<1>6. /\ req'[r].key = k /\ req'[r].gen = req[r].gen /\ req'[r].got = req[r].got
      /\ req'[r].pc = IF push.ok /\ push.created >= Cardinality(Inputs)
                      THEN "wait" ELSE "fail"
      /\ req'[r].partial = req[r].partial /\ req'[r].kind = req[r].kind
      /\ \A q \in Requests : q # r => req'[q] = req[q]
      /\ req' \in [Requests -> Executions]
  BY <1>1, <1>2, HolderFacts DEF Executions, push
<1>7. Types' /\ UNCHANGED <<def, manager, handles, idle>>
  BY <1>2, <1>3, <1>5, <1>6 DEF PushUnary, IInv, Types
<1>8. Running(r)'
  BY <1>6 DEF Running
<1>9. k.pool > 0 /\ req'[r].pc # "fail" /\ ~graph'[k].err /\ ~req'[r].partial =>
         \A p \in graph'[k].pending :
             p.own = r => \A i \in Inputs : graph'[k].last[i] >= p.ts
  <2>1. SUFFICES ASSUME k.pool > 0, req'[r].pc # "fail", ~graph'[k].err, ~req'[r].partial,
                        NEW p \in graph'[k].pending, p.own = r, NEW i \in Inputs
                 PROVE  graph'[k].last[i] >= p.ts
    OBVIOUS
  <2>2. push.created = Cardinality(Inputs) /\ ~push.g.err
    BY <1>3, <1>4, <1>5, <1>6, <2>1
  <2>3. CASE p \in graph[k].pending
    <3>1. graph[k].last[i] >= p.ts
      BY <1>1, <1>4, <1>6, <2>1, <2>2, <2>3, HolderFacts
    <3>2. /\ push.g.last[i] >= graph[k].last[i] /\ push.g.last[i] \in Int
          /\ graph[k].last[i] \in Int /\ p.ts \in Int
      BY <1>1, <1>4, <2>2, <2>3, HolderFacts, BoundsAssumption DEF Graphs, Packets
    <3> QED
      BY <1>5, <3>1, <3>2
  <2>4. CASE p \notin graph[k].pending
    BY <1>4, <1>5, <2>1, <2>2, <2>4
  <2> QED
    BY <2>3, <2>4
<1>10. /\ graph'[k].obs = r /\ (k.pool > 0 => ~graph'[k].closed)
       /\ \A p \in graph'[k].pending : p.own = r \/ p \in graph[k].pending
       /\ req[r].partial => req[r].kind = "stream"
  BY <1>1, <1>4, <1>5, HolderFacts
<1> QED
  BY <1>1, <1>5, <1>6, <1>7, <1>8, <1>9, <1>10, OwnStepKeeps

\* A stream that gave a pooled graph some of the inputs of a message is partial
\* from then on.
LEMMA StreamMessageKeeps ==
    ASSUME IInv, NEW r \in Requests, StreamMessage(r)
    PROVE  IInv'
<1> DEFINE k == req[r].key
<1>1. Holds(r) /\ Running(r) /\ req[r].pc \in {"first", "read"} /\ req[r].kind = "stream"
  BY DEF StreamMessage, Holds, Running
<1>2. PICK m \in Messages :
         LET valid == req[r].pc = "first" \/ ValidateSubsequentRequest(m)
             push == CreateAndPushPackets(G(r), m, Later, r)
             after == IF valid THEN push.g ELSE G(r)
         IN
         /\ clock' = IF valid THEN Later ELSE clock
         /\ graph' = [graph EXCEPT ![req[r].key] = after]
         /\ req' = [req EXCEPT ![r].sent = @ + 1,
                        ![r].partial = @ \/ /\ valid /\ Pooled(r) /\ ~push.g.err
                                            /\ push.created > 0
                                            /\ push.created < Cardinality(Inputs),
                        ![r].pc = IF @ = "read" /\ after.err THEN "wait" ELSE "read"]
  BY DEF StreamMessage
<1> DEFINE valid == req[r].pc = "first" \/ ValidateSubsequentRequest(m)
           push == CreateAndPushPackets(G(r), m, Later, r)
           after == IF valid THEN push.g ELSE G(r)
           part == valid /\ Pooled(r) /\ ~push.g.err /\ push.created > 0
                   /\ push.created < Cardinality(Inputs)
<1>3. Later \in 1..MaxClock /\ G(r) = graph[k] /\ G(r) \in Graphs
      /\ Cardinality(Inputs) \in Nat /\ clock \in 1..MaxClock
  BY <1>1, HolderFacts, LaterType, InputsAssumption, FS_CardinalityType DEF IInv, Types
<1>4. /\ push.g \in Graphs
      /\ push.created \in 0..Cardinality(Inputs)
      /\ push.g.obs = graph[k].obs /\ push.g.closed = graph[k].closed
      /\ graph[k].err => push.g.err
      /\ \A p \in push.g.pending : p \in graph[k].pending \/ p.own = r
      /\ \A i \in Inputs : ~push.g.err => push.g.last[i] >= graph[k].last[i]
      /\ push.created = 0 /\ ~push.g.err =>
            push.g.pending = graph[k].pending /\ push.g.last = graph[k].last
      /\ push.created = Cardinality(Inputs) /\ ~push.g.err =>
            \A p \in push.g.pending, i \in Inputs :
               p \notin graph[k].pending => push.g.last[i] >= p.ts
  BY <1>3, PushFacts
<1> HIDE DEF push, valid
<1>5. /\ graph'[k] = after /\ graph' \in [Keys -> Graphs]
      /\ \A l \in Keys : l # k => graph'[l] = graph[l]
  BY <1>1, <1>2, <1>3, <1>4, HolderFacts DEF push, valid
<1>6. /\ req'[r].key = k /\ req'[r].gen = req[r].gen /\ req'[r].got = req[r].got
      /\ req'[r].pc \in {"wait", "read"} /\ req'[r].kind = "stream"
      /\ req'[r].partial <=> req[r].partial \/ part
      /\ \A q \in Requests : q # r => req'[q] = req[q]
      /\ req' \in [Requests -> Executions]
  <2> HIDE DEF after, part
  <2>1. req \in [Requests -> Executions] /\ req[r] \in Executions
    BY <1>1, HolderFacts
  <2>2. req' = [req EXCEPT ![r].sent = @ + 1, ![r].partial = @ \/ part,
                           ![r].pc = IF @ = "read" /\ after.err THEN "wait" ELSE "read"]
    BY <1>2 DEF push, valid, after, part
  <2>3. PICK b \in BOOLEAN : b = (req[r].partial \/ part)
    BY Zenon
  <2>4. b <=> req[r].partial \/ part
    BY <2>3
  <2>5. PICK p \in {"wait", "read"} :
           req' = [req EXCEPT ![r].sent = @ + 1, ![r].partial = b, ![r].pc = p]
    BY <2>1, <2>2, <2>3
  <2>6. /\ req'[r] = [req[r] EXCEPT !.sent = @ + 1, !.partial = b, !.pc = p]
        /\ req' = [req EXCEPT ![r] = req'[r]]
    BY <2>1, <2>5
  <2>7. /\ req'[r].key = k /\ req'[r].gen = req[r].gen
        /\ req'[r].got = req[r].got /\ req'[r].pc = p /\ req'[r].kind = "stream"
        /\ req'[r].partial = b
    BY <1>1, <2>1, <2>6 DEF Executions
  <2>8. req'[r] \in Executions
    <3>1. req[r].sent \in Nat /\ req[r].sent + 1 \in Nat
      BY <2>1 DEF Executions
    <3>2. req'[r] = [[[req[r] EXCEPT !.sent = req[r].sent + 1] EXCEPT !.partial = b]
                     EXCEPT !.pc = p]
      BY <2>1, <2>6 DEF Executions
    <3> QED
      BY <2>1, <3>1, <3>2 DEF Executions
  <2> QED
    BY <2>1, <2>4, <2>6, <2>7, <2>8
<1>7. Types' /\ UNCHANGED <<def, manager, handles, idle>>
  <2>1. clock' \in 1..MaxClock
    BY <1>2, <1>3
  <2> QED
    BY <1>5, <1>6, <2>1 DEF StreamMessage, IInv, Types
<1>8. Running(r)' /\ req'[r].pc # "release"
  BY <1>6 DEF Running
<1>9. k.pool > 0 /\ ~graph'[k].err /\ ~req'[r].partial =>
         \A p \in graph'[k].pending :
             p.own = r => \A i \in Inputs : graph'[k].last[i] >= p.ts
  <2>1. SUFFICES ASSUME k.pool > 0, ~graph'[k].err, ~req'[r].partial
                 PROVE  \A p \in graph'[k].pending :
                           p.own = r => \A i \in Inputs : graph'[k].last[i] >= p.ts
    OBVIOUS
  <2>2. ~req[r].partial /\ ~part
    BY <1>6, <2>1
  <2>3. ~graph[k].err /\ \A p \in graph[k].pending :
                              p.own = r => \A i \in Inputs : graph[k].last[i] >= p.ts
    BY <1>1, <1>3, <1>4, <1>5, <2>1, <2>2, HolderFacts
  <2>4. CASE graph'[k].pending = graph[k].pending /\ graph'[k].last = graph[k].last
    BY <2>3, <2>4
  <2>5. CASE graph'[k].pending # graph[k].pending \/ graph'[k].last # graph[k].last
    <3>1. graph'[k] = push.g /\ ~push.g.err /\ push.created = Cardinality(Inputs)
      BY <1>1, <1>3, <1>4, <1>5, <2>1, <2>2, <2>5, HolderFacts
    <3>2. ASSUME NEW p \in push.g.pending, p.own = r, NEW i \in Inputs
          PROVE  push.g.last[i] >= p.ts
      <4>1. CASE p \in graph[k].pending
        <5>1. /\ push.g.last[i] >= graph[k].last[i] /\ push.g.last[i] \in Int
              /\ graph[k].last[i] \in Int /\ p.ts \in Int
          BY <1>3, <1>4, <3>1, <4>1, BoundsAssumption DEF Graphs, Packets
        <5> QED
          BY <2>3, <3>2, <4>1, <5>1
      <4>2. CASE p \notin graph[k].pending
        BY <1>4, <3>1, <4>2
      <4> QED
        BY <4>1, <4>2
    <3> QED
      BY <3>1, <3>2
  <2> QED
    BY <2>4, <2>5
<1>10. /\ graph'[k].obs = r /\ (k.pool > 0 => ~graph'[k].closed)
       /\ \A p \in graph'[k].pending : p.own = r \/ p \in graph[k].pending
  BY <1>1, <1>3, <1>4, <1>5, HolderFacts
<1> QED
  BY <1>1, <1>5, <1>6, <1>7, <1>8, <1>9, <1>10, OwnStepKeeps

\* A client closes its stream, and with it the inputs of a graph of its own.
LEMMA CloseStreamKeeps ==
    ASSUME IInv, NEW r \in Requests, CloseStream(r)
    PROVE  IInv'
<1> DEFINE k == req[r].key
<1>1. Holds(r) /\ Running(r) /\ req[r].pc = "read"
  BY DEF CloseStream, Holds, Running
<1>2. /\ req'[r].key = k /\ req'[r].gen = req[r].gen /\ req'[r].got = req[r].got
      /\ req'[r].pc = "wait" /\ req'[r].partial = req[r].partial
      /\ req'[r].kind = req[r].kind
      /\ \A q \in Requests : q # r => req'[q] = req[q]
      /\ req' \in [Requests -> Executions]
  BY <1>1, HolderFacts DEF CloseStream, Executions
<1>3. /\ graph'[k] = [graph[k] EXCEPT !.closed = ~Pooled(r)]
      /\ graph' = [graph EXCEPT ![k] = graph'[k]]
  BY <1>1, HolderFacts DEF CloseStream
<1>4. graph'[k] \in Graphs
  <2>1. PICK b \in BOOLEAN : b = ~Pooled(r)
    BY Zenon
  <2>2. graph'[k] = [graph[k] EXCEPT !.closed = b]
    BY <1>3, <2>1
  <2> QED
    BY <1>1, <2>2, HolderFacts DEF Graphs
<1>5. /\ graph'[k].obs = graph[k].obs /\ graph'[k].pending = graph[k].pending
      /\ graph'[k].last = graph[k].last /\ graph'[k].err = graph[k].err
      /\ graph'[k].closed <=> ~Pooled(r)
      /\ graph' \in [Keys -> Graphs] /\ \A l \in Keys : l # k => graph'[l] = graph[l]
  <2>1. graph' \in [Keys -> Graphs] /\ \A l \in Keys : l # k => graph'[l] = graph[l]
    BY <1>1, <1>3, <1>4, HolderFacts
  <2>2. graph[k] \in Graphs
    BY <1>1, HolderFacts
  <2> QED
    BY <1>3, <2>1, <2>2 DEF Graphs
<1>6. Types' /\ UNCHANGED <<def, manager, handles, idle>>
  BY <1>2, <1>5 DEF CloseStream, IInv, Types
<1>7. Running(r)'
  BY <1>2 DEF Running
<1> QED
  BY <1>1, <1>2, <1>5, <1>6, <1>7, HolderFacts, OwnStepKeeps

\* A pooled graph that is idle and has not failed holds packets of the request only
\* if the request left some inputs out.
LEMMA WaitUntilIdleKeeps ==
    ASSUME IInv, NEW r \in Requests, WaitUntilIdle(r)
    PROVE  IInv'
<1> DEFINE k == req[r].key
<1>1. Holds(r) /\ Running(r) /\ req[r].pc = "wait" /\ ~Settled(graph[k])
  BY DEF WaitUntilIdle, Holds, Running, G
<1>2. PICK next \in {"fail", "release"} : req' = [req EXCEPT ![r].pc = next]
  BY DEF WaitUntilIdle
<1>3. /\ req'[r].key = k /\ req'[r].gen = req[r].gen /\ req'[r].got = req[r].got
      /\ req'[r].pc \in {"fail", "release"} /\ req'[r].partial = req[r].partial
      /\ req'[r].kind = req[r].kind
      /\ \A q \in Requests : q # r => req'[q] = req[q]
      /\ req' \in [Requests -> Executions]
  BY <1>1, <1>2, HolderFacts DEF Executions
<1>4. /\ graph'[k] = [graph[k] EXCEPT !.ctx = None]
      /\ graph' = [graph EXCEPT ![k] = graph'[k]]
  BY <1>1, HolderFacts DEF WaitUntilIdle
<1>5. /\ graph'[k] \in Graphs /\ graph'[k].ctx = None
      /\ graph'[k].obs = graph[k].obs /\ graph'[k].pending = graph[k].pending
      /\ graph'[k].last = graph[k].last /\ graph'[k].err = graph[k].err
      /\ graph'[k].closed = graph[k].closed
  <2>1. graph[k] \in Graphs
    BY <1>1, HolderFacts
  <2> QED
    BY <1>4, <2>1 DEF Graphs
<1>6. graph' \in [Keys -> Graphs] /\ \A l \in Keys : l # k => graph'[l] = graph[l]
  BY <1>1, <1>4, <1>5, HolderFacts
<1>7. Types' /\ UNCHANGED <<def, manager, handles, idle>>
  BY <1>3, <1>6 DEF WaitUntilIdle, IInv, Types
<1>8. ~Settled(graph'[k])
  BY <1>1, <1>5 DEF Settled, NextSet
<1>9. k.pool > 0 /\ req'[r].pc = "release" =>
         \A p \in graph[k].pending : p.own = r => req[r].partial
  <2>1. SUFFICES ASSUME k.pool > 0, req'[r].pc = "release", ~req[r].partial,
                        NEW p \in graph[k].pending, p.own = r
                 PROVE  FALSE
    OBVIOUS
  <2>2. graph[k] \in Graphs /\ ~graph[k].err
    BY <1>1, <2>1, HolderFacts DEF WaitUntilIdle
  <2>3. PICK i \in Inputs : ~(graph[k].last[i] >= NextSet(graph[k]))
    BY <1>1, <2>2 DEF Settled
  <2>4. graph[k].last[i] >= p.ts
    BY <1>1, <2>1, <2>2, HolderFacts
  <2>5. NextSet(graph[k]) \in 1..MaxClock + 1 /\ NextSet(graph[k]) <= p.ts
    BY <2>2, NextSetIsLeast
  <2>6. graph[k].last[i] \in Int /\ p.ts \in Int
    BY <2>2, BoundsAssumption DEF Graphs, Packets
  <2> QED
    BY <2>3, <2>4, <2>5, <2>6, BoundsAssumption
<1>10. Running(r)' \/ req'[r].pc = "release"
  BY <1>3 DEF Running
<1> QED
  BY <1>1, <1>3, <1>5, <1>6, <1>7, <1>8, <1>9, <1>10, HolderFacts, OwnStepKeeps

\* A unary request on a graph of its own leaves its context.
LEMMA PollOutputsKeeps ==
    ASSUME IInv, NEW r \in Requests, PollOutputs(r)
    PROVE  IInv'
<1> DEFINE k == req[r].key
<1>1. Holds(r) /\ Running(r) /\ req[r].pc = "wait" /\ ~Settled(graph[k])
  BY DEF PollOutputs, Holds, Running, G
<1>2. PICK p \in {"fail", "release"} : req' = [req EXCEPT ![r].pc = p]
  BY DEF PollOutputs
<1>3. /\ req'[r].key = k /\ req'[r].gen = req[r].gen /\ req'[r].got = req[r].got
      /\ req'[r].pc \in {"fail", "release"} /\ req'[r].partial = req[r].partial
      /\ req'[r].kind = req[r].kind
      /\ \A q \in Requests : q # r => req'[q] = req[q]
      /\ req' \in [Requests -> Executions]
  BY <1>1, <1>2, HolderFacts DEF Executions
<1>4. /\ graph'[k] = [graph[k] EXCEPT !.ctx = None]
      /\ graph' = [graph EXCEPT ![k] = graph'[k]]
  BY <1>1, HolderFacts DEF PollOutputs
<1>5. /\ graph'[k] \in Graphs /\ graph'[k].ctx = None
      /\ graph'[k].obs = graph[k].obs /\ graph'[k].pending = graph[k].pending
      /\ graph'[k].last = graph[k].last /\ graph'[k].err = graph[k].err
      /\ graph'[k].closed = graph[k].closed
  <2>1. graph[k] \in Graphs
    BY <1>1, HolderFacts
  <2> QED
    BY <1>4, <2>1 DEF Graphs
<1>6. graph' \in [Keys -> Graphs] /\ \A l \in Keys : l # k => graph'[l] = graph[l]
  BY <1>1, <1>4, <1>5, HolderFacts
<1>7. Types' /\ UNCHANGED <<def, manager, handles, idle>>
  BY <1>3, <1>6 DEF PollOutputs, IInv, Types
<1>8. ~Settled(graph'[k])
  BY <1>1, <1>5 DEF Settled, NextSet
<1>9. (Running(r)' \/ req'[r].pc = "release") /\ ~(k.pool > 0)
  BY <1>1, <1>3, HolderFacts DEF Running, PollOutputs
<1> QED
  BY <1>1, <1>3, <1>5, <1>6, <1>7, <1>8, <1>9, HolderFacts, OwnStepKeeps

\* A stream on a graph of its own leaves its context.
LEMMA WaitUntilDoneKeeps ==
    ASSUME IInv, NEW r \in Requests, WaitUntilDone(r)
    PROVE  IInv'
<1> DEFINE k == req[r].key
<1>1. Holds(r) /\ Running(r) /\ req[r].pc = "wait" /\ ~Settled(graph[k])
  BY DEF WaitUntilDone, Holds, Running, G
<1>2. PICK p \in {"fail", "release"} : req' = [req EXCEPT ![r].pc = p]
  BY DEF WaitUntilDone
<1>3. /\ req'[r].key = k /\ req'[r].gen = req[r].gen /\ req'[r].got = req[r].got
      /\ req'[r].pc \in {"fail", "release"} /\ req'[r].partial = req[r].partial
      /\ req'[r].kind = req[r].kind
      /\ \A q \in Requests : q # r => req'[q] = req[q]
      /\ req' \in [Requests -> Executions]
  BY <1>1, <1>2, HolderFacts DEF Executions
<1>4. /\ graph'[k] = [graph[k] EXCEPT !.ctx = None]
      /\ graph' = [graph EXCEPT ![k] = graph'[k]]
  BY <1>1, HolderFacts DEF WaitUntilDone
<1>5. /\ graph'[k] \in Graphs /\ graph'[k].ctx = None
      /\ graph'[k].obs = graph[k].obs /\ graph'[k].pending = graph[k].pending
      /\ graph'[k].last = graph[k].last /\ graph'[k].err = graph[k].err
      /\ graph'[k].closed = graph[k].closed
  <2>1. graph[k] \in Graphs
    BY <1>1, HolderFacts
  <2> QED
    BY <1>4, <2>1 DEF Graphs
<1>6. graph' \in [Keys -> Graphs] /\ \A l \in Keys : l # k => graph'[l] = graph[l]
  BY <1>1, <1>4, <1>5, HolderFacts
<1>7. Types' /\ UNCHANGED <<def, manager, handles, idle>>
  BY <1>3, <1>6 DEF WaitUntilDone, IInv, Types
<1>8. ~Settled(graph'[k])
  BY <1>1, <1>5 DEF Settled, NextSet
<1>9. (Running(r)' \/ req'[r].pc = "release") /\ ~(k.pool > 0)
  BY <1>1, <1>3, HolderFacts DEF Running, WaitUntilDone
<1> QED
  BY <1>1, <1>3, <1>5, <1>6, <1>7, <1>8, <1>9, HolderFacts, OwnStepKeeps

\* The sources of a graph are closed by the request that has it: what is still
\* in the graph runs out while the request has it.
LEMMA CloseAllPacketSourcesKeeps ==
    ASSUME IInv, NEW r \in Requests, CloseAllPacketSources(r)
    PROVE  IInv'
<1> DEFINE k == req[r].key
<1>1. /\ Holds(r)
      /\ req[r].pc = "fail" \/ (req[r].pc = "release" /\ k.pool # def.pool)
      /\ k.pool > 0
  BY DEF CloseAllPacketSources, Holds, Pooled
<1>2. /\ graph'[k] = [graph[k] EXCEPT !.closed = TRUE]
      /\ graph' = [graph EXCEPT ![k] = graph'[k]]
      /\ UNCHANGED <<def, manager, handles, idle, req, clock>>
  BY <1>1, HolderFacts DEF CloseAllPacketSources
<1>3. /\ graph'[k] \in Graphs /\ graph'[k].closed
      /\ graph'[k].obs = graph[k].obs /\ graph'[k].pending = graph[k].pending
      /\ graph'[k].ctx = graph[k].ctx
  <2>1. graph[k] \in Graphs
    BY <1>1, HolderFacts
  <2> QED
    BY <1>2, <2>1 DEF Graphs
<1>4. graph' \in [Keys -> Graphs] /\ \A l \in Keys : l # k => graph'[l] = graph[l]
  BY <1>1, <1>2, <1>3, HolderFacts
<1>5. Types'
  BY <1>2, <1>4 DEF IInv, Types
<1>6. /\ Running(r)' \/ req'[r].pc = "release"
      /\ Running(r)' => Running(r)
      /\ req'[r].pc = "fail" => Running(r)'
  BY <1>1, <1>2 DEF Running
<1>7. /\ Running(r)' => graph'[k].obs = r
      /\ req'[r].pc = "release" =>
            /\ graph'[k].ctx = None
            /\ \A p \in graph'[k].pending : p.own = r => req'[r].partial
      /\ req'[r].partial => req'[r].kind = "stream"
  BY <1>1, <1>2, <1>3, <1>6, HolderFacts
<1>8. ~(Running(r)' /\ req'[r].pc # "fail")
  BY <1>1, <1>2 DEF Running
<1>9. /\ Settled(graph'[k]) => Running(r)' \/ (k.pool # def.pool /\ graph'[k].closed)
      /\ req'[r].pc = "fail" \/ (req'[r].pc = "release" /\ k.pool # def.pool)
  BY <1>1, <1>2, <1>3, <1>6
<1>10. /\ \A q \in Requests : q # r => req'[q] = req[q]
       /\ req'[r].key = k /\ req'[r].gen = req[r].gen /\ req'[r].got = req[r].got
       /\ req'[r].partial = req[r].partial /\ req'[r].kind = req[r].kind
       /\ UNCHANGED <<def, manager, handles, idle>>
       /\ \A p \in graph'[k].pending : p \in graph[k].pending
  BY <1>2, <1>3
<1> HIDE DEF k
<1> QED
  BY <1>1, <1>4, <1>5, <1>6, <1>7, <1>8, <1>9, <1>10, OwnStepKeeps DEF k

\* A failed graph is started anew, and holds nothing.
LEMMA ReinitializeKeeps ==
    ASSUME IInv, NEW r \in Requests, Reinitialize(r)
    PROVE  IInv'
<1> DEFINE k == req[r].key
<1>1. Holds(r) /\ Running(r) /\ req[r].pc = "fail"
  BY DEF Reinitialize, Holds, Running
<1>2. PICK fresh \in {Fresh, Broken} : graph' = [graph EXCEPT ![k] = fresh]
  BY DEF Reinitialize
<1>3. /\ req'[r].key = k /\ req'[r].gen = req[r].gen /\ req'[r].got = req[r].got
      /\ req'[r].pc = "release" /\ req'[r].partial = req[r].partial
      /\ req'[r].kind = req[r].kind
      /\ \A q \in Requests : q # r => req'[q] = req[q]
      /\ req' \in [Requests -> Executions]
  BY <1>1, HolderFacts DEF Reinitialize, Executions
<1>4. /\ graph'[k] = fresh /\ graph' \in [Keys -> Graphs]
      /\ \A l \in Keys : l # k => graph'[l] = graph[l]
  BY <1>1, <1>2, HolderFacts, FreshTypes
<1>5. Types' /\ UNCHANGED <<def, manager, handles, idle>>
  BY <1>3, <1>4 DEF Reinitialize, IInv, Types
<1>6. Running(r)' <=> FALSE
  BY <1>3 DEF Running
<1>7. /\ graph'[k].pending = {} /\ graph'[k].ctx = None /\ ~graph'[k].closed
      /\ ~Settled(graph'[k])
  BY <1>4, FreshTypes
<1>8. req[r].partial => req[r].kind = "stream"
  BY <1>1, HolderFacts
<1> QED
  BY <1>1, <1>3, <1>4, <1>5, <1>6, <1>7, <1>8, OwnStepKeeps

\* What a settled graph answers is put together from packets of the request
\* that runs it, and of streams that are partial.
LEMMA OwnProcessKeeps ==
    ASSUME IInv, NEW k \in Keys, NEW outcome \in {"emit", "swallow", "error"},
           Process(k, outcome),
           NEW r \in Requests, Running(r), req[r].key = k, graph[k].obs = r
    PROVE  IInv'
<1> DEFINE now == {p \in graph[k].pending : p.ts = NextSet(graph[k])}
<1>1. Settled(graph[k])
  BY DEF Process
<1>2. Running(r) /\ req[r].key = k /\ graph[k].obs = r
  OBVIOUS
<1>3. Holds(r) /\ r # None
  BY <1>2, RequestsAssumption DEF Holds, Running
<1>4. /\ graph' = [graph EXCEPT ![k] = graph'[k]]
      /\ graph'[k] = [graph[k] EXCEPT !.pending = @ \ now, !.err = (outcome = "error")]
  BY <1>2, <1>3, HolderFacts DEF Process
<1>5. PICK b \in BOOLEAN : graph'[k] = [graph[k] EXCEPT !.pending = @ \ now, !.err = b]
  BY <1>4, Zenon
<1>6. /\ graph'[k] \in Graphs /\ graph'[k].pending \subseteq graph[k].pending
      /\ graph'[k].obs = graph[k].obs /\ graph'[k].ctx = graph[k].ctx
      /\ graph'[k].last = graph[k].last /\ graph'[k].closed = graph[k].closed
  <2>1. graph[k] \in Graphs
    BY <1>2, <1>3, HolderFacts
  <2> DEFINE g == [graph[k] EXCEPT !.pending = @ \ now, !.err = b]
  <2>2. /\ g \in Graphs /\ g.pending \subseteq graph[k].pending
        /\ g.obs = graph[k].obs /\ g.ctx = graph[k].ctx
        /\ g.last = graph[k].last /\ g.closed = graph[k].closed
    <3> HIDE DEF now
    <3> QED
      BY <2>1 DEF Graphs
  <2>3. graph'[k] = g
    BY <1>5
  <2> HIDE DEF g
  <2> QED
    BY <2>2, <2>3
<1>7. graph' \in [Keys -> Graphs] /\ \A l \in Keys : l # k => graph'[l] = graph[l]
  BY <1>2, <1>3, <1>4, <1>6, HolderFacts
<1>8. PICK new \in SUBSET {p.own : p \in now} :
         req' = [req EXCEPT ![r].got = @ \cup new]
  <2>1. req \in [Requests -> Executions] /\ req[r] \in Executions
    BY <1>2, <1>3, HolderFacts
  <2>2. CASE outcome = "emit"
    <3>1. req' = [req EXCEPT ![r].got = @ \cup {p.own : p \in now}]
      BY <1>2, <1>3, <2>2 DEF Process
    <3> QED
      BY <3>1
  <2>3. CASE outcome # "emit"
    <3>1. req' = req
      BY <2>3 DEF Process
    <3>2. req = [req EXCEPT ![r].got = @ \cup {}]
      BY <2>1 DEF Executions
    <3> QED
      BY <3>1, <3>2
  <2> QED
    BY <2>2, <2>3
<1>9. \A q \in new : q \in Requests /\ (q = r \/ Abandoned(q))
  <2>1. \A p \in now : p.own \in Requests /\ (p.own = r \/ Abandoned(p.own))
    BY <1>2, <1>3, HolderFacts DEF Graphs, Packets
  <2> HIDE DEF now
  <2> QED
    BY <2>1
<1>10. /\ req'[r].key = k /\ req'[r].gen = req[r].gen /\ req'[r].pc = req[r].pc
       /\ req'[r].got = req[r].got \cup new
       /\ req'[r].partial = req[r].partial /\ req'[r].kind = req[r].kind
       /\ \A q \in Requests : q # r => req'[q] = req[q]
       /\ req' \in [Requests -> Executions]
  <2>1. req \in [Requests -> Executions] /\ req[r] \in Executions
    BY <1>2, <1>3, HolderFacts
  <2> QED
    BY <1>2, <1>8, <1>9, <2>1 DEF Executions
<1>11. Types' /\ UNCHANGED <<def, manager, handles, idle>>
  BY <1>7, <1>10 DEF Process, IInv, Types
<1>12. Running(r)' /\ req'[r].pc # "release"
  BY <1>2, <1>10 DEF Running
<1>13. ~graph[k].err
  BY <1>1 DEF Settled
<1>14. /\ req[r].partial => req[r].kind = "stream"
       /\ k.pool > 0 /\ graph[k].closed => req[r].pc = "fail"
       /\ k.pool > 0 /\ req[r].pc # "fail" /\ ~req[r].partial =>
             \A p \in graph[k].pending :
                 p.own = r => \A i \in Inputs : graph[k].last[i] >= p.ts
  <2>1. req[r].pc # "release"
    BY <1>2 DEF Running
  <2> QED
    BY <1>2, <1>3, <1>13, <2>1, HolderFacts
<1> QED
  BY <1>2, <1>3, <1>6, <1>7, <1>9, <1>10, <1>11, <1>12, <1>14, OwnStepKeeps

\* At the end of a graph whose queue is gone, what streams left in it goes to
\* the observers of a request that has ended; nobody else notices.
LEMMA LeftoverProcessKeeps ==
    ASSUME IInv, NEW k \in Keys, NEW outcome \in {"emit", "swallow", "error"},
           Process(k, outcome),
           k.pool > 0, k.pool # def.pool, graph[k].closed, LeftByStreams(graph[k])
    PROVE  IInv'
<1> DEFINE now == {p \in graph[k].pending : p.ts = NextSet(graph[k])}
           o == graph[k].obs
<1>1. /\ graph \in [Keys -> Graphs] /\ graph[k] \in Graphs
      /\ req \in [Requests -> Executions] /\ idle \in [1..MaxGen -> SUBSET PoolIds]
  BY DEF IInv, Types
<1>2. \A l \in Keys : \A p \in graph[l].pending : p.own \in Requests
  BY <1>1 DEF Graphs, Packets
<1>3. PICK b \in BOOLEAN : graph' = [graph EXCEPT ![k] =
                                [graph[k] EXCEPT !.pending = @ \ now, !.err = b]]
  <2>1. graph' = [graph EXCEPT ![k].pending = @ \ now, ![k].err = (outcome = "error")]
    BY DEF Process
  <2>2. (outcome = "error") \in BOOLEAN
    OBVIOUS
  <2> HIDE DEF now
  <2> QED
    BY <1>1, <2>1, <2>2
<1>4. /\ graph'[k] \in Graphs /\ graph'[k].pending \subseteq graph[k].pending
      /\ graph'[k].ctx = graph[k].ctx /\ graph'[k].closed
      /\ graph' \in [Keys -> Graphs] /\ \A l \in Keys : l # k => graph'[l] = graph[l]
  <2> DEFINE g == [graph[k] EXCEPT !.pending = @ \ now, !.err = b]
  <2>1. /\ g \in Graphs /\ g.pending \subseteq graph[k].pending
        /\ g.ctx = graph[k].ctx /\ g.closed = graph[k].closed
    <3> HIDE DEF now
    <3> QED
      BY <1>1 DEF Graphs
  <2>2. graph' = [graph EXCEPT ![k] = g]
    BY <1>3
  <2> HIDE DEF g
  <2> QED
    BY <1>1, <2>1, <2>2
<1>5. /\ req' \in [Requests -> Executions]
      /\ \A q \in Requests :
            /\ req'[q].pc = req[q].pc /\ req'[q].key = req[q].key
            /\ req'[q].gen = req[q].gen /\ req'[q].kind = req[q].kind
            /\ req'[q].partial = req[q].partial
            /\ \A x \in req'[q].got : x \in req[q].got \/ Abandoned(x)
  <2>1. CASE req' = req
    BY <1>1, <2>1
  <2>2. CASE o # None /\ req' = [req EXCEPT ![o].got = @ \cup {p.own : p \in now}]
    <3> DEFINE new == {p.own : p \in now}
    <3>1. new \subseteq Requests /\ \A x \in new : Abandoned(x)
      BY <1>2 DEF LeftByStreams, Abandoned
    <3>2. o \in Requests
      BY <1>1, <2>2 DEF Graphs
    <3>3. req' = [req EXCEPT ![o].got = @ \cup new]
      BY <2>2
    <3> HIDE DEF new, o
    <3> QED
      BY <1>1, <3>1, <3>2, <3>3 DEF Executions
  <2> QED
    BY <2>1, <2>2 DEF Process
<1>6. UNCHANGED <<def, manager, handles, idle, clock>>
  BY DEF Process
<1> HIDE DEF now, o
<1>7. \A q \in Requests : /\ Holds(q)' <=> Holds(q)
                          /\ Running(q)' <=> Running(q)
                          /\ Abandoned(q)' <=> Abandoned(q)
                          /\ Pooled(q)' <=> Pooled(q)
  BY <1>5 DEF Holds, Running, Abandoned, Pooled
<1>8. \A l \in Keys : Quiet(l) => Quiet(l)'
  BY <1>2, <1>4, <1>7 DEF Quiet
<1>9. Types' /\ PoolInv'
  BY <1>4, <1>5, <1>6 DEF IInv, Types, PoolInv
<1>10. KeyInv'
  <2>1. \A n : Held(n)' = Held(n)
    BY <1>5, <1>7 DEF Held
  <2>2. PoolConserved'
    BY <1>5, <1>6, <1>7, <2>1 DEF IInv, KeyInv, PoolConserved, Held
  <2> QED
    BY <1>5, <1>6, <1>7, <2>2 DEF IInv, KeyInv
<1>11. UnusedInv'
  <2>1. graph[k] # Fresh
    BY FreshTypes
  <2>2. \A l \in Keys : l.pool > def.gen => graph'[l] = Fresh
    BY <1>4, <2>1 DEF IInv, UnusedInv
  <2>3. \A l \in Keys : l.pool = 0 => graph'[l] = graph[l]
    BY <1>4
  <2>4. \A l \in Keys : l.pool = 0 => l.id \in Requests
    BY KeyTypes
  <2> QED
    BY <1>5, <1>6, <2>2, <2>3, <2>4 DEF IInv, UnusedInv
<1>12. PacketInv'
  <2>1. \A n \in 1..MaxGen : \A id \in idle'[n] : Quiet([pool |-> n, id |-> id])'
    BY <1>1, <1>6, <1>8, KeyTypes DEF IInv, PacketInv
  <2>2. \A q \in Requests : \A x \in req'[q].got : x = q \/ Abandoned(x)'
    <3>1. \A q \in Requests : \A x \in req'[q].got : x \in Requests
      BY <1>5 DEF Executions
    <3> QED
      BY <1>5, <1>7, <3>1 DEF IInv, PacketInv
  <2>3. ASSUME NEW q \in Requests, Holds(q)'
        PROVE  /\ \A p \in G(q)'.pending : p.own = q \/ Abandoned(p.own)'
               /\ Pooled(q)' /\ req'[q].pc \in {"begin", "release"} => Quiet(req[q].key)'
               /\ Running(q)' => G(q)'.obs = q
               /\ Running(q)' /\ Pooled(q)' /\ req'[q].pc # "fail" /\ ~G(q)'.err
                     /\ ~req'[q].partial =>
                     \A p \in G(q)'.pending :
                         p.own = q => \A i \in Inputs : G(q)'.last[i] >= p.ts
    <3>1. Holds(q) /\ req[q].key \in Keys /\ req'[q].key = req[q].key
          /\ G(q) = graph[req[q].key] /\ G(q)' = graph'[req[q].key]
      BY <1>5, <1>7, <2>3 DEF IInv, KeyInv, G
    <3>2. CASE req[q].key = k
      <4>1. req[q].pc \in {"fail", "release"}
        BY <3>1, <3>2, HolderFacts
      <4>2. graph'[k].obs = graph[k].obs
        BY <1>1, <1>3
      <4>3. \A p \in graph'[k].pending : Abandoned(p.own)'
        BY <1>2, <1>4, <1>7 DEF LeftByStreams, Abandoned
      <4>4. Pooled(q) /\ req[q].pc = "release" => Quiet(k)
        BY <3>1, <3>2 DEF IInv, PacketInv
      <4>5. Running(q) => graph[k].obs = q
        BY <3>1, <3>2, HolderFacts
      <4> QED
        BY <1>5, <1>7, <1>8, <3>1, <3>2, <4>1, <4>2, <4>3, <4>4, <4>5 DEF Running
    <3>3. CASE req[q].key # k
      <4>1. G(q)' = G(q) /\ \A p \in G(q).pending : p.own \in Requests
        BY <1>2, <1>4, <3>1, <3>3
      <4> QED
        BY <1>5, <1>7, <1>8, <3>1, <4>1 DEF IInv, PacketInv
    <3> QED
      BY <3>2, <3>3
  <2>4. \A q \in Requests : req'[q].key = req[q].key
    BY <1>5
  <2> QED
    BY <2>1, <2>2, <2>3, <2>4 DEF PacketInv
<1>13. ClosedInv'
  <2>1. SUFFICES ASSUME NEW l \in Keys, l.pool > 0, graph'[l].closed
                 PROVE  \/ \E q \in Requests : req'[q].key = l /\ req'[q].pc = "fail"
                        \/ /\ l.pool # def'.pool /\ Quiet(l)'
                           /\ \A q \in Requests :
                                 Holds(q)' /\ req'[q].key = l => req'[q].pc = "release"
    BY DEF ClosedInv
  <2>2. graph[l].closed
    BY <1>4, <2>1
  <2>3. CASE \E q \in Requests : req[q].key = l /\ req[q].pc = "fail"
    BY <1>5, <2>3
  <2>4. CASE /\ l.pool # def.pool /\ Quiet(l)
             /\ \A q \in Requests :
                   Holds(q) /\ req[q].key = l => req[q].pc = "release"
    BY <1>5, <1>6, <1>7, <1>8, <2>4
  <2> QED
    BY <2>1, <2>2, <2>3, <2>4 DEF IInv, ClosedInv
<1>14. CallbacksWithinRequest'
  <2>1. \A l \in Keys : LeftByStreams(graph[l]) => LeftByStreams(graph[l])'
    BY <1>2, <1>4, <1>5 DEF LeftByStreams
  <2>2. SUFFICES ASSUME NEW l \in Keys, Settled(graph'[l])
                 PROVE  \/ \E q \in Requests : Running(q)' /\ req'[q].key = l
                                               /\ graph'[l].obs = q
                        \/ /\ l.pool > 0 /\ l.pool # def'.pool /\ graph'[l].closed
                           /\ LeftByStreams(graph[l])'
    BY DEF CallbacksWithinRequest
  <2>3. CASE l = k
    BY <1>4, <1>6, <2>1, <2>3
  <2>4. CASE l # k
    <3>1. graph'[l] = graph[l] /\ Settled(graph[l])
      BY <1>4, <2>2, <2>4
    <3>2. CASE \E q \in Requests : Running(q) /\ req[q].key = l /\ graph[l].obs = q
      BY <1>5, <1>7, <3>1, <3>2
    <3>3. CASE /\ l.pool > 0 /\ l.pool # def.pool /\ graph[l].closed
               /\ LeftByStreams(graph[l])
      BY <1>6, <2>1, <3>1, <3>3
    <3> QED
      BY <3>1, <3>2, <3>3 DEF IInv, CallbacksWithinRequest
  <2> QED
    BY <2>3, <2>4
<1> QED
  BY <1>9, <1>10, <1>11, <1>12, <1>13, <1>14 DEF IInv

\* The threads of MediaPipe process what is settled.
LEMMA ProcessKeeps ==
    ASSUME IInv, NEW k \in Keys, NEW outcome \in {"emit", "swallow", "error"},
           Process(k, outcome)
    PROVE  IInv'
<1>1. Settled(graph[k])
  BY DEF Process
<1>2. CASE \E r \in Requests : Running(r) /\ req[r].key = k /\ graph[k].obs = r
  BY <1>2, OwnProcessKeeps
<1>3. CASE /\ k.pool > 0 /\ k.pool # def.pool /\ graph[k].closed
           /\ LeftByStreams(graph[k])
  BY <1>3, LeftoverProcessKeeps
<1> QED
  BY <1>1, <1>2, <1>3 DEF IInv, CallbacksWithinRequest

-----------------------------------------------------------------------------
(* A request gets a graph and gives it back                                *)

\* Graphs that are left alone, are started anew, or are nobody's and run to
\* their end, since their queue is gone.
LEMMA ClosedGraphsKeep ==
    ASSUME IInv,
           \A q \in Requests : /\ Abandoned(q)' <=> Abandoned(q)
                               /\ Running(q) => req'[q] = req[q]
                               /\ Holds(q)' => \/ Holds(q) /\ req'[q] = req[q]
                                               \/ req'[q].key.pool = 0
                                               \/ ~graph'[req'[q].key].closed,
           \A l \in Keys :
              \/ graph'[l] = graph[l]
              \/ ~graph'[l].closed /\ ~Settled(graph'[l])
              \/ /\ l.pool > 0 /\ l.pool # def'.pool /\ Quiet(l) /\ graph'[l].closed
                 /\ graph'[l].pending = graph[l].pending /\ graph'[l].ctx = graph[l].ctx
                 /\ \A q \in Requests : Holds(q)' => req'[q].key # l,
           \A l \in Keys : l.pool > 0 /\ graph[l].closed /\ l.pool # def.pool
                            => l.pool # def'.pool
    PROVE  ClosedInv' /\ CallbacksWithinRequest'
<1>1. \A l \in Keys : \A p \in graph[l].pending : p.own \in Requests
  BY DEF IInv, Types, Graphs, Packets
<1>2. \A q \in Requests : Running(q) => Running(q)'
  BY DEF Running
<1>3. ASSUME NEW l \in Keys, graph'[l].pending = graph[l].pending,
             graph'[l].ctx = graph[l].ctx, Quiet(l)
      PROVE  Quiet(l)'
  BY <1>1, <1>3 DEF Quiet
<1>4. ClosedInv'
  <2>1. SUFFICES ASSUME NEW l \in Keys, l.pool > 0, graph'[l].closed
                 PROVE  \/ \E q \in Requests : req'[q].key = l /\ req'[q].pc = "fail"
                        \/ /\ l.pool # def'.pool /\ Quiet(l)'
                           /\ \A q \in Requests :
                                 Holds(q)' /\ req'[q].key = l => req'[q].pc = "release"
    BY DEF ClosedInv
  <2>2. CASE graph'[l] = graph[l]
    <3>1. CASE \E q \in Requests : req[q].key = l /\ req[q].pc = "fail"
      BY <3>1 DEF Running
    <3>2. CASE /\ l.pool # def.pool /\ Quiet(l)
               /\ \A q \in Requests :
                     Holds(q) /\ req[q].key = l => req[q].pc = "release"
      <4>1. ASSUME NEW q \in Requests, Holds(q)', req'[q].key = l
            PROVE  req'[q].pc = "release"
        BY <2>1, <3>2, <4>1
      <4> QED
        BY <1>3, <2>1, <2>2, <3>2, <4>1
    <3> QED
      BY <2>1, <2>2, <3>1, <3>2 DEF IInv, ClosedInv
  <2>3. CASE graph'[l] # graph[l]
    BY <1>3, <2>1, <2>3
  <2> QED
    BY <2>2, <2>3
<1>5. CallbacksWithinRequest'
  <2>1. SUFFICES ASSUME NEW l \in Keys, Settled(graph'[l])
                 PROVE  \/ \E q \in Requests : Running(q)' /\ req'[q].key = l
                                               /\ graph'[l].obs = q
                        \/ /\ l.pool > 0 /\ l.pool # def'.pool /\ graph'[l].closed
                           /\ \A p \in graph'[l].pending : Abandoned(p.own)'
    BY DEF CallbacksWithinRequest, LeftByStreams, Abandoned
  <2>2. CASE graph'[l] = graph[l]
    <3>1. CASE \E q \in Requests : Running(q) /\ req[q].key = l /\ graph[l].obs = q
      BY <1>2, <2>2, <3>1
    <3>2. CASE /\ l.pool > 0 /\ l.pool # def.pool /\ graph[l].closed
               /\ LeftByStreams(graph[l])
      <4>1. \A p \in graph[l].pending : Abandoned(p.own)
        BY <3>2 DEF LeftByStreams, Abandoned
      <4> QED
        BY <1>1, <2>2, <3>2, <4>1
    <3> QED
      BY <2>1, <2>2, <3>1, <3>2 DEF IInv, CallbacksWithinRequest
  <2>3. CASE graph'[l] # graph[l]
    <3>1. /\ l.pool > 0 /\ l.pool # def'.pool /\ Quiet(l) /\ graph'[l].closed
          /\ graph'[l].pending = graph[l].pending
      BY <2>1, <2>3
    <3> QED
      BY <1>1, <3>1 DEF Quiet
  <2> QED
    BY <2>2, <2>3
<1> QED
  BY <1>4, <1>5

\* Nothing changes for the graphs while a request is in no graph.
LEMMA AsideKeeps ==
    ASSUME IInv, NEW r \in Requests, ~Holds(r), ~Holds(r)', Types',
           UNCHANGED <<def, manager, idle, graph>>,
           \A q \in Requests : q # r => req'[q] = req[q],
           req'[r].got = req[r].got, req'[r].partial = FALSE, req[r].partial = FALSE
    PROVE  IInv'
<1>1. \A q \in Requests : /\ Holds(q)' <=> Holds(q)
                          /\ Holds(q) => req'[q] = req[q]
                          /\ Abandoned(q)' <=> Abandoned(q)
                          /\ Running(q)' <=> Running(q)
  BY DEF Holds, Abandoned, Running
<1>2. PoolInv'
  BY DEF IInv, PoolInv
<1>3. KeyInv'
  <2>1. \A n : Held(n)' = Held(n)
    BY <1>1 DEF Held
  <2>2. PoolConserved'
    BY <1>1, <2>1 DEF IInv, KeyInv, PoolConserved, Held
  <2> QED
    BY <1>1, <2>2 DEF IInv, KeyInv, Pooled
<1>4. UnusedInv'
  BY KeyTypes DEF IInv, UnusedInv, Holds
<1>5. PacketInv'
  <2>1. \A k \in Keys : \A p \in graph[k].pending : p.own \in Requests
    BY DEF IInv, Types, Graphs, Packets
  <2>2. \A k \in Keys : Quiet(k) => Quiet(k)'
    BY <1>1, <2>1 DEF Quiet
  <2>3. \A n \in 1..MaxGen : \A id \in idle[n] : [pool |-> n, id |-> id] \in Keys
    BY KeyTypes DEF IInv, Types
  <2>4. \A q \in Requests : Holds(q) => G(q)' = G(q) /\ req[q].key \in Keys
    BY <1>1 DEF G, IInv, KeyInv
  <2>5. \A q \in Requests : \A o \in req'[q].got : o \in Requests /\ (o = q \/ Abandoned(o))
    BY DEF IInv, PacketInv, Types, Executions
  <2>6. ASSUME NEW q \in Requests, Holds(q)'
        PROVE  /\ \A p \in G(q)'.pending : p.own = q \/ Abandoned(p.own)'
               /\ Pooled(q)' /\ req'[q].pc \in {"begin", "release"} => Quiet(req[q].key)'
               /\ Running(q)' => G(q)'.obs = q
               /\ Running(q)' /\ Pooled(q)' /\ req'[q].pc # "fail" /\ ~G(q)'.err
                     /\ ~req'[q].partial =>
                     \A p \in G(q)'.pending :
                         p.own = q => \A i \in Inputs : G(q)'.last[i] >= p.ts
    <3>1. Holds(q) /\ req'[q] = req[q] /\ req[q].key \in Keys /\ G(q)' = G(q)
          /\ (Pooled(q)' <=> Pooled(q))
      BY <1>1, <2>4, <2>6 DEF Pooled
    <3>2. \A p \in G(q).pending : p.own \in Requests
      BY <2>1, <3>1 DEF G
    <3> QED
      BY <1>1, <2>2, <3>1, <3>2 DEF IInv, PacketInv
  <2>7. \A n \in 1..MaxGen : \A id \in idle'[n] : Quiet([pool |-> n, id |-> id])'
    BY <2>2, <2>3 DEF IInv, PacketInv
  <2>8. \A q \in Requests : \A o \in req'[q].got : o = q \/ Abandoned(o)'
    BY <1>1, <2>5
  <2> QED
    BY <2>6, <2>7, <2>8 DEF PacketInv
<1>6. ClosedInv' /\ CallbacksWithinRequest'
  <2>1. \A q \in Requests : Running(q) => Holds(q)
    BY DEF Running, Holds
  <2> QED
    BY <1>1, <2>1, ClosedGraphsKeep
<1> QED
  BY <1>2, <1>3, <1>4, <1>5, <1>6 DEF IInv

\* A request that is counted, or not let in, has no graph.
LEMMA TakeGuardKeeps ==
    ASSUME IInv, NEW r \in Requests, TakeGuard(r)
    PROVE  IInv'
<1>1. req \in [Requests -> Executions] /\ req[r] \in Executions
  BY DEF IInv, Types
<1>2. req[r].pc = "new" /\ req[r].partial = FALSE
  BY <1>1 DEF TakeGuard, IInv, UnusedInv, Executions
<1>3. /\ req'[r].pc = "guarded" /\ req'[r].got = req[r].got
      /\ req'[r].partial = req[r].partial
      /\ req' \in [Requests -> Executions]
      /\ \A q \in Requests : q # r => req'[q] = req[q]
  BY <1>1 DEF TakeGuard, Executions
<1>4. Types'
  BY <1>3 DEF TakeGuard, IInv, Types
<1>5. (Holds(r) <=> FALSE) /\ (Holds(r)' <=> FALSE)
  BY <1>2, <1>3 DEF Holds
<1> QED
  BY <1>2, <1>3, <1>4, <1>5, AsideKeeps DEF TakeGuard

\* The state of the definition lets it in or not.
LEMMA CheckAvailableKeeps ==
    ASSUME IInv, NEW r \in Requests, CheckAvailable(r)
    PROVE  IInv'
<1>1. req \in [Requests -> Executions] /\ req[r] \in Executions
  BY DEF IInv, Types
<1>2. req[r].pc = "guarded" /\ req[r].partial = FALSE
  BY <1>1 DEF CheckAvailable, IInv, UnusedInv, Executions
<1>3. PICK p \in {"acquire", "ended"} : req' = [req EXCEPT ![r].pc = p]
  BY DEF CheckAvailable
<1>4. /\ req'[r].pc = p /\ req'[r].got = req[r].got
      /\ req'[r].partial = req[r].partial
      /\ req' \in [Requests -> Executions]
      /\ \A q \in Requests : q # r => req'[q] = req[q]
  BY <1>1, <1>3 DEF Executions
<1>5. Types'
  BY <1>4 DEF CheckAvailable, IInv, Types
<1>6. (Holds(r) <=> FALSE) /\ (Holds(r)' <=> FALSE)
  BY <1>2, <1>4 DEF Holds
<1> QED
  BY <1>2, <1>4, <1>5, <1>6, AsideKeeps DEF CheckAvailable

\* A request that gets an idle graph, or a place for one of its own: nobody
\* else has it, and what is in it was left by a stream with inputs missing.
LEMMA TakenKeeps ==
    ASSUME IInv, NEW r \in Requests, NEW k \in Keys, req[r].pc = "acquire",
           req' = [req EXCEPT ![r].pc = "begin", ![r].gen = def.gen, ![r].key = k],
           UNCHANGED <<def, manager, graph>>, handles' \subseteq handles,
           idle' \in [1..MaxGen -> SUBSET PoolIds], clock' = clock,
           \A n \in 1..MaxGen : idle'[n] \subseteq idle[n],
           k.pool > 0 => k.pool = def.gen /\ k.pool = def.pool,
           k.pool = 0 => k.id = r,
           \A q \in Requests : Holds(q) => req[q].key # k,
           Quiet(k), PoolConserved'
    PROVE  IInv'
<1>1. /\ req \in [Requests -> Executions] /\ req[r] \in Executions
      /\ graph \in [Keys -> Graphs] /\ def \in Definitions
  BY DEF IInv, Types
<1>2. /\ req' \in [Requests -> Executions]
      /\ req'[r].pc = "begin" /\ req'[r].gen = def.gen /\ req'[r].key = k
      /\ req'[r].kind = req[r].kind /\ req'[r].partial = req[r].partial
      /\ req'[r].got = req[r].got
      /\ \A q \in Requests : q # r => req'[q] = req[q]
  <2>1. def.gen \in 0..MaxGen
    BY <1>1, BoundsAssumption DEF Definitions
  <2> QED
    BY <1>1, <2>1 DEF Executions
<1>3. \A q \in Requests : /\ q # r => (Holds(q)' <=> Holds(q))
                          /\ Abandoned(q)' <=> Abandoned(q)
                          /\ Running(q)' <=> Running(q)
  BY <1>2 DEF Holds, Abandoned, Running
<1>4. Types'
  BY <1>2 DEF IInv, Types
<1>5. PoolInv'
  BY DEF IInv, PoolInv
<1>6. KeyInv'
  <2>1. ASSUME NEW q \in Requests, Holds(q)'
        PROVE  /\ req'[q].key \in Keys
               /\ Pooled(q)' => req'[q].key.pool = req'[q].gen /\ req'[q].gen <= def'.gen
               /\ ~Pooled(q)' => req'[q].key.id = q
    <3>1. CASE q = r
      BY <1>1, <1>2, <3>1, KeyTypes, BoundsAssumption DEF Pooled, Definitions
    <3>2. CASE q # r
      BY <1>2, <1>3, <2>1, <3>2 DEF IInv, KeyInv, Pooled
    <3> QED
      BY <3>1, <3>2
  <2> QED
    BY <2>1 DEF KeyInv
<1>7. UnusedInv'
  <2>1. ASSUME NEW l \in Keys, l.pool = 0, graph[l] # Fresh
        PROVE  /\ req'[l.id].key = l
               /\ req'[l.id].pc \in {"first", "read", "wait", "fail", "release"}
    <3>1. /\ req[l.id].key = l
          /\ req[l.id].pc \in {"first", "read", "wait", "fail", "release"}
      BY <2>1 DEF IInv, UnusedInv
    <3> QED
      BY <1>2, <2>1, <3>1, KeyTypes
  <2>2. \A q \in Requests : req'[q].partial =>
            req'[q].kind = "stream" /\ req'[q].pc \notin {"new", "guarded", "acquire", "begin"}
    BY <1>2 DEF IInv, UnusedInv
  <2> QED
    BY <2>1, <2>2 DEF IInv, UnusedInv
<1>8. PacketInv'
  <2>1. \A l \in Keys : \A p \in graph[l].pending : p.own \in Requests
    BY <1>1 DEF Graphs, Packets
  <2>2. \A l \in Keys : Quiet(l) => Quiet(l)'
    BY <1>3, <2>1 DEF Quiet
  <2>3. \A n \in 1..MaxGen : \A id \in idle'[n] : Quiet([pool |-> n, id |-> id])'
    BY <2>2, KeyTypes DEF IInv, PacketInv
  <2>4. \A q \in Requests : \A o \in req'[q].got : o = q \/ Abandoned(o)'
    <3>1. \A q \in Requests : \A o \in req[q].got : o \in Requests
      BY <1>1 DEF Executions
    <3>2. \A q \in Requests : req'[q].got = req[q].got
      BY <1>2
    <3> QED
      BY <1>3, <3>1, <3>2 DEF IInv, PacketInv
  <2>5. ASSUME NEW q \in Requests, Holds(q)'
        PROVE  /\ \A p \in G(q)'.pending : p.own = q \/ Abandoned(p.own)'
               /\ Pooled(q)' /\ req'[q].pc \in {"begin", "release"} => Quiet(req[q].key)'
               /\ Running(q)' => G(q)'.obs = q
               /\ Running(q)' /\ Pooled(q)' /\ req'[q].pc # "fail" /\ ~G(q)'.err
                     /\ ~req'[q].partial =>
                     \A p \in G(q)'.pending :
                         p.own = q => \A i \in Inputs : G(q)'.last[i] >= p.ts
    <3>1. CASE q = r
      <4>1. ~Running(q)' /\ G(q)' = graph[k] /\ req'[q].key = k
        BY <1>2, <3>1 DEF Running, G
      <4>2. \A p \in graph[k].pending : Abandoned(p.own)'
        BY <1>3, <2>1 DEF Quiet
      <4>3. Quiet(req[q].key)'
        BY <2>2, <4>1
      <4> QED
        BY <4>1, <4>2, <4>3
    <3>2. CASE q # r
      <4>1. Holds(q) /\ req'[q] = req[q] /\ G(q)' = G(q) /\ req[q].key \in Keys
            /\ (Pooled(q)' <=> Pooled(q))
        BY <1>2, <1>3, <2>5, <3>2 DEF G, Pooled, IInv, KeyInv
      <4>2. \A p \in G(q).pending : p.own \in Requests
        BY <2>1, <4>1 DEF G
      <4> QED
        BY <1>3, <2>2, <4>1, <4>2 DEF IInv, PacketInv
    <3> QED
      BY <3>1, <3>2
  <2> QED
    BY <2>3, <2>4, <2>5 DEF PacketInv
<1>9. ClosedInv' /\ CallbacksWithinRequest'
  <2>1. k.pool > 0 => ~graph[k].closed
    <3>1. \A q \in Requests : req[q].pc = "fail" => req[q].key # k
      BY DEF Holds
    <3> QED
      BY <3>1 DEF IInv, ClosedInv
  <2>2. k.pool = 0 \/ k.pool > 0
    BY KeyTypes, BoundsAssumption
  <2>3. ~Running(r)
    BY DEF Running
  <2> QED
    BY <1>2, <1>3, <2>1, <2>2, <2>3, ClosedGraphsKeep
<1> QED
  BY <1>4, <1>5, <1>6, <1>7, <1>8, <1>9 DEF IInv

\* A graph leaves the queue for one request.
LEMMA AcquirePooledKeeps ==
    ASSUME IInv, NEW r \in Requests, AcquirePooled(r)
    PROVE  IInv'
<1>1. /\ req \in [Requests -> Executions] /\ req[r] \in Executions
      /\ idle \in [1..MaxGen -> SUBSET PoolIds] /\ def \in Definitions
      /\ req[r].pc = "acquire" /\ def.pool > 0
  BY DEF IInv, Types, AcquirePooled
<1>2. PICK n \in 1..MaxGen : n = def.pool /\ n = def.gen
  BY <1>1, BoundsAssumption DEF Definitions, IInv, PoolInv
<1>3. PICK id \in idle[n] :
        /\ idle' = [idle EXCEPT ![n] = @ \ {id}]
        /\ req' = [req EXCEPT ![r].pc = "begin", ![r].gen = def.gen,
                              ![r].key = [pool |-> n, id |-> id]]
  BY <1>2 DEF AcquirePooled
<1> DEFINE k == [pool |-> n, id |-> id]
<1>4. k \in Keys /\ k.pool = n /\ k.id = id
  BY <1>1, <1>2, KeyTypes
<1>5. idle[n] \cap Held(n) = {} /\ idle[n] \cup Held(n) = 1..def.size
  BY <1>2 DEF IInv, KeyInv, PoolConserved, Held
<1>6. \A q \in Requests : Holds(q) => req[q].key # k
  <2>1. \A q \in Requests : Holds(q) /\ req[q].key.pool = n => req[q].key.id \in Held(n)
    BY DEF Held
  <2> QED
    BY <1>4, <1>5, <2>1
<1>7. Quiet(k)
  BY <1>2 DEF IInv, PacketInv
<1> HIDE DEF k
<1>8. /\ idle' \in [1..MaxGen -> SUBSET PoolIds] /\ idle'[n] = idle[n] \ {id}
      /\ \A m \in 1..MaxGen : m # n => idle'[m] = idle[m]
  BY <1>1, <1>2, <1>3
<1>9. /\ req'[r].key = k /\ Holds(r)' /\ ~Holds(r)
      /\ \A q \in Requests : q # r => req'[q] = req[q] /\ (Holds(q)' <=> Holds(q))
  BY <1>1, <1>3 DEF Holds, k, Executions
<1>10. Held(n)' = Held(n) \cup {id}
  <2>1. \A i : i \in Held(n)' <=> \E q \in Requests :
                 Holds(q)' /\ req'[q].key.pool = n /\ req'[q].key.id = i
    BY DEF Held
  <2>2. \A i : i \in Held(n) <=> \E q \in Requests :
                 Holds(q) /\ req[q].key.pool = n /\ req[q].key.id = i
    BY DEF Held
  <2> QED
    BY <1>4, <1>9, <2>1, <2>2
<1>11. PoolConserved'
  <2>1. \A p, q \in Requests :
            p # q /\ Holds(p)' /\ Holds(q)' => req'[p].key # req'[q].key
    BY <1>6, <1>9 DEF IInv, KeyInv, PoolConserved
  <2>2. \A m \in 1..MaxGen : m # n => idle'[m] = {}
    BY <1>2, <1>8 DEF IInv, KeyInv, PoolConserved
  <2>3. idle'[n] \cap Held(n)' = {} /\ idle'[n] \cup Held(n)' = 1..def.size
    BY <1>5, <1>8, <1>10
  <2>4. def' = def
    BY DEF AcquirePooled
  <2>5. \A m \in 1..MaxGen :
            IF m # def'.pool THEN idle'[m] = {}
            ELSE /\ idle'[m] \cap Held(m)' = {}
                 /\ idle'[m] \cup Held(m)' = 1..def'.size
    BY <1>2, <2>2, <2>3, <2>4
  <2> QED
    BY <2>1, <2>5 DEF PoolConserved, Held
<1>12. /\ UNCHANGED <<def, manager, graph, clock>> /\ handles' \subseteq handles
       /\ \A m \in 1..MaxGen : idle'[m] \subseteq idle[m]
  BY <1>2, <1>8 DEF AcquirePooled
<1>13. req' = [req EXCEPT ![r].pc = "begin", ![r].gen = def.gen, ![r].key = k]
  BY <1>3 DEF k
<1>14. /\ k.pool > 0 => k.pool = def.gen /\ k.pool = def.pool
       /\ k.pool = 0 => k.id = r
  BY <1>1, <1>2, <1>4
<1> QED
  BY <1>1, <1>4, <1>6, <1>7, <1>8, <1>11, <1>12, <1>13, <1>14, TakenKeeps

\* Without a pool a request will have a graph of its own.
LEMMA CreateUnpooledKeeps ==
    ASSUME IInv, NEW r \in Requests, CreateUnpooled(r)
    PROVE  IInv'
<1> DEFINE k == [pool |-> 0, id |-> r]
<1>1. /\ req \in [Requests -> Executions] /\ req[r] \in Executions
      /\ idle \in [1..MaxGen -> SUBSET PoolIds] /\ def \in Definitions
      /\ req[r].pc = "acquire" /\ def.pool = 0
  BY DEF IInv, Types, CreateUnpooled
<1>2. k \in Keys /\ k.pool = 0 /\ k.id = r
  BY KeyTypes
<1>3. req' = [req EXCEPT ![r].pc = "begin", ![r].gen = def.gen, ![r].key = k]
  BY DEF CreateUnpooled
<1>4. graph[k] = Fresh
  BY <1>1, <1>2 DEF IInv, UnusedInv
<1>5. Quiet(k)
  BY <1>4 DEF Quiet, Fresh
<1>6. \A q \in Requests : Holds(q) => req[q].key # k
  BY <1>1 DEF IInv, KeyInv, Pooled, Holds
<1> HIDE DEF k
<1>7. /\ req'[r].key = k /\ Holds(r)' /\ ~Holds(r)
      /\ \A q \in Requests : q # r => req'[q] = req[q] /\ (Holds(q)' <=> Holds(q))
  BY <1>1, <1>3 DEF Holds, Executions
<1>8. UNCHANGED <<def, manager, graph, idle, clock>> /\ handles' \subseteq handles
  BY DEF CreateUnpooled
<1>9. PoolConserved'
  <2>1. \A p, q \in Requests :
            p # q /\ Holds(p)' /\ Holds(q)' => req'[p].key # req'[q].key
    BY <1>6, <1>7 DEF IInv, KeyInv, PoolConserved
  <2>2. \A m \in 1..MaxGen : idle'[m] = {} /\ m # def'.pool
    BY <1>1, <1>8 DEF IInv, KeyInv, PoolConserved
  <2> QED
    BY <2>1, <2>2 DEF PoolConserved
<1>10. /\ idle' \in [1..MaxGen -> SUBSET PoolIds]
       /\ \A n \in 1..MaxGen : idle'[n] \subseteq idle[n]
       /\ ~(k.pool > 0)
  BY <1>1, <1>2, <1>8
<1> QED
  BY <1>1, <1>2, <1>3, <1>5, <1>6, <1>8, <1>9, <1>10, TakenKeeps

\* A graph goes back to the queue that owns it, if that still lives, and else
\* is no more.
LEMMA ReleaseKeeps ==
    ASSUME IInv, NEW r \in Requests, Release(r)
    PROVE  IInv'
<1>1. /\ req \in [Requests -> Executions] /\ req[r] \in Executions
      /\ idle \in [1..MaxGen -> SUBSET PoolIds] /\ def \in Definitions
      /\ graph \in [Keys -> Graphs] /\ req[r].pc = "release" /\ Holds(r)
  BY DEF IInv, Types, Release, Holds
<1>2. PICK k \in Keys : k = req[r].key
  BY <1>1 DEF IInv, KeyInv
<1>3. PICK back \in BOOLEAN : back <=> Pooled(r) /\ def.pool = req[r].key.pool
  OBVIOUS
<1>4. /\ back => k.pool \in 1..MaxGen /\ k.pool = def.pool
      /\ ~back => k.pool = 0 \/ k.pool # def.pool
  BY <1>2, <1>3, KeyTypes, BoundsAssumption DEF Pooled
<1>5. /\ req' = [req EXCEPT ![r].pc = "ended", ![r].sent = 0,
                            ![r].key = NoKey, ![r].gen = 0]
      /\ idle' = IF back THEN [idle EXCEPT ![k.pool] = @ \cup {k.id}] ELSE idle
      /\ graph' = IF back THEN graph ELSE [graph EXCEPT ![k] = Fresh]
      /\ UNCHANGED <<def, manager, handles, clock>>
  BY <1>2, <1>3 DEF Release, Ended, Freed, NoRequest, NoKey
<1>6. /\ req' \in [Requests -> Executions]
      /\ req'[r].pc = "ended" /\ req'[r].kind = req[r].kind
      /\ req'[r].partial = req[r].partial /\ req'[r].got = req[r].got
      /\ \A q \in Requests : q # r => req'[q] = req[q]
  <2>1. req' = [req EXCEPT ![r] = [req[r] EXCEPT !.pc = "ended", !.sent = 0,
                                                 !.key = NoKey, !.gen = 0]]
    BY <1>1, <1>5
  <2>2. req'[r] = [req[r] EXCEPT !.pc = "ended", !.sent = 0, !.key = NoKey, !.gen = 0]
    BY <1>1, <2>1
  <2>3. 0 \in 0..MaxGen
    BY BoundsAssumption
  <2>4. req'[r] \in Executions
    <3>1. /\ req[r].kind \in {"unary", "stream"} /\ req[r].partial \in BOOLEAN
          /\ req[r].got \subseteq Requests
      BY <1>1 DEF Executions
    <3>2. req'[r] = [pc |-> "ended", kind |-> req[r].kind, gen |-> 0, key |-> NoKey,
                     sent |-> 0, partial |-> req[r].partial, got |-> req[r].got]
      BY <1>1, <2>2 DEF Executions
    <3> QED
      BY <2>3, <3>1, <3>2 DEF Executions
  <2>5. /\ req'[r].pc = "ended" /\ req'[r].kind = req[r].kind
        /\ req'[r].partial = req[r].partial /\ req'[r].got = req[r].got
    BY <1>1, <2>2 DEF Executions
  <2> QED
    BY <1>1, <2>1, <2>4, <2>5
<1>7. /\ idle' \in [1..MaxGen -> SUBSET PoolIds]
      /\ \A n \in 1..MaxGen : idle'[n] = IF back /\ n = k.pool
                                         THEN idle[n] \cup {k.id} ELSE idle[n]
  <2>1. CASE back
    <3>1. k.id \in PoolIds /\ k.pool \in 1..MaxGen
      BY <1>4, <2>1, KeyTypes
    <3>2. idle' = [idle EXCEPT ![k.pool] = idle[k.pool] \cup {k.id}]
      BY <1>5, <2>1
    <3> QED
      BY <1>1, <2>1, <3>1, <3>2
  <2>2. CASE ~back
    BY <1>1, <1>5, <2>2
  <2> QED
    BY <2>1, <2>2
<1>8. /\ graph' \in [Keys -> Graphs]
      /\ \A l \in Keys : l # k \/ back => graph'[l] = graph[l]
      /\ ~back => graph'[k] = Fresh
  BY <1>1, <1>5, FreshTypes
<1>9. /\ ~Holds(r)' /\ ~Running(r)' /\ ~Running(r)
      /\ \A q \in Requests : q # r => /\ Holds(q)' <=> Holds(q)
                                      /\ Running(q)' <=> Running(q)
      /\ \A q \in Requests : Abandoned(q)' <=> Abandoned(q)
  BY <1>1, <1>6 DEF Holds, Running, Abandoned
<1>10. \A q \in Requests : q # r /\ Holds(q) => req[q].key # k /\ req[q].key \in Keys
  BY <1>1, <1>2 DEF IInv, KeyInv, PoolConserved
<1>11. Types'
  BY <1>5, <1>6, <1>7, <1>8 DEF IInv, Types
<1>12. PoolInv'
  BY <1>5 DEF IInv, PoolInv
<1>13. \A n : Held(n)' = IF n = k.pool THEN Held(n) \ {k.id} ELSE Held(n)
  <2>1. SUFFICES ASSUME NEW n
                 PROVE  Held(n)' = IF n = k.pool THEN Held(n) \ {k.id} ELSE Held(n)
    OBVIOUS
  <2>2. \A i : i \in Held(n)' <=> \E q \in Requests :
                 Holds(q)' /\ req'[q].key.pool = n /\ req'[q].key.id = i
    BY DEF Held
  <2>3. \A i : i \in Held(n) <=> \E q \in Requests :
                 Holds(q) /\ req[q].key.pool = n /\ req[q].key.id = i
    BY DEF Held
  <2>4. \A q \in Requests : q # r /\ Holds(q) =>
            ~(req[q].key.pool = k.pool /\ req[q].key.id = k.id)
    BY <1>10, KeyTypes
  <2>5. \A i : i \in Held(n)' <=> i \in Held(n) /\ (n = k.pool => i # k.id)
    BY <1>2, <1>6, <1>9, <2>2, <2>3, <2>4
  <2> QED
    BY <2>5
<1>14. PoolConserved'
  <2>1. \A p, q \in Requests :
            p # q /\ Holds(p)' /\ Holds(q)' => req'[p].key # req'[q].key
    BY <1>6, <1>9 DEF IInv, KeyInv, PoolConserved
  <2>2. \A n \in 1..MaxGen :
            IF n # def.pool THEN idle[n] = {}
            ELSE idle[n] \cap Held(n) = {} /\ idle[n] \cup Held(n) = 1..def.size
    BY DEF IInv, KeyInv, PoolConserved, Held
  <2>3. k.pool = def.pool /\ k.pool \in 1..MaxGen => k.id \in Held(k.pool)
    BY <1>1, <1>2 DEF Held
  <2>4. \A n \in 1..MaxGen : n = k.pool /\ n = def.pool => back
    BY <1>4, BoundsAssumption
  <2>5. \A n \in 1..MaxGen :
            IF n # def'.pool THEN idle'[n] = {}
            ELSE idle'[n] \cap Held(n)' = {} /\ idle'[n] \cup Held(n)' = 1..def'.size
    <3>1. SUFFICES ASSUME NEW n \in 1..MaxGen
                   PROVE  IF n # def.pool THEN idle'[n] = {}
                          ELSE /\ idle'[n] \cap Held(n)' = {}
                               /\ idle'[n] \cup Held(n)' = 1..def.size
      BY <1>5
    <3>2. CASE n # def.pool
      BY <1>4, <1>7, <2>2, <3>2
    <3>3. CASE n = def.pool /\ n = k.pool
      BY <1>7, <1>13, <2>2, <2>3, <2>4, <3>3
    <3>4. CASE n = def.pool /\ n # k.pool
      BY <1>7, <1>13, <2>2, <3>4
    <3> QED
      BY <3>2, <3>3, <3>4
  <2> QED
    BY <2>1, <2>5 DEF PoolConserved, Held
<1>15. KeyInv'
  BY <1>5, <1>6, <1>9, <1>14 DEF IInv, KeyInv, Pooled
<1>16. UnusedInv'
  <2>1. \A l \in Keys : graph'[l] = graph[l] \/ graph'[l] = Fresh
    BY <1>8
  <2>2. ASSUME NEW l \in Keys, l.pool = 0, graph'[l] # Fresh
        PROVE  /\ req'[l.id].key = l
               /\ req'[l.id].pc \in {"first", "read", "wait", "fail", "release"}
    <3>1. l # k /\ graph[l] # Fresh
      BY <1>4, <1>8, <2>2, BoundsAssumption
    <3>2. /\ req[l.id].key = l
          /\ req[l.id].pc \in {"first", "read", "wait", "fail", "release"}
      BY <2>2, <3>1 DEF IInv, UnusedInv
    <3>3. l.id \in Requests /\ l.id # r
      BY <1>2, <2>2, <3>1, <3>2, KeyTypes
    <3> QED
      BY <1>6, <3>2, <3>3
  <2>3. \A q \in Requests : req'[q].partial =>
            req'[q].kind = "stream" /\ req'[q].pc \notin {"new", "guarded", "acquire", "begin"}
    BY <1>6 DEF IInv, UnusedInv
  <2>4. \A l \in Keys : l.pool > def'.gen => graph'[l] = Fresh
    BY <1>5, <2>1 DEF IInv, UnusedInv
  <2> QED
    BY <2>2, <2>3, <2>4 DEF UnusedInv
<1>17. PacketInv'
  <2>1. \A l \in Keys : \A p \in graph[l].pending : p.own \in Requests
    BY <1>1 DEF Graphs, Packets
  <2>2. \A l \in Keys : Quiet(l) => Quiet(l)'
    <3>1. SUFFICES ASSUME NEW l \in Keys, Quiet(l) PROVE Quiet(l)'
      OBVIOUS
    <3>2. CASE graph'[l] = graph[l]
      BY <1>9, <2>1, <3>1, <3>2 DEF Quiet
    <3>3. CASE graph'[l] = Fresh
      BY <3>3 DEF Quiet, Fresh
    <3> QED
      BY <1>8, <3>2, <3>3
  <2>3. back => Quiet(k)
    BY <1>1, <1>2, <1>3 DEF IInv, PacketInv
  <2>4. ASSUME NEW n \in 1..MaxGen, NEW id \in idle'[n]
        PROVE  Quiet([pool |-> n, id |-> id])'
    <3>1. CASE id \in idle[n]
      BY <1>1, <2>2, <3>1, KeyTypes DEF IInv, PacketInv
    <3>2. CASE id \notin idle[n]
      <4>1. back /\ k = [pool |-> n, id |-> id]
        BY <1>7, <2>4, <3>2, KeyTypes
      <4>2. Quiet(k)'
        BY <2>2, <2>3, <4>1
      <4> QED
        BY <4>1, <4>2
    <3> QED
      BY <3>1, <3>2
  <2>5. \A q \in Requests : \A o \in req'[q].got : o = q \/ Abandoned(o)'
    <3>1. \A q \in Requests : \A o \in req[q].got : o \in Requests
      BY <1>1 DEF Executions
    <3>2. \A q \in Requests : req'[q].got = req[q].got
      BY <1>6
    <3> QED
      BY <1>9, <3>1, <3>2 DEF IInv, PacketInv
  <2>6. ASSUME NEW q \in Requests, Holds(q)'
        PROVE  /\ \A p \in G(q)'.pending : p.own = q \/ Abandoned(p.own)'
               /\ Pooled(q)' /\ req'[q].pc \in {"begin", "release"} => Quiet(req[q].key)'
               /\ Running(q)' => G(q)'.obs = q
               /\ Running(q)' /\ Pooled(q)' /\ req'[q].pc # "fail" /\ ~G(q)'.err
                     /\ ~req'[q].partial =>
                     \A p \in G(q)'.pending :
                         p.own = q => \A i \in Inputs : G(q)'.last[i] >= p.ts
    <3>1. q # r /\ Holds(q) /\ req'[q] = req[q] /\ req[q].key \in Keys
      BY <1>6, <1>9, <1>10, <2>6
    <3>2. G(q)' = G(q) /\ (Pooled(q)' <=> Pooled(q))
      BY <1>8, <1>10, <3>1 DEF G, Pooled
    <3>3. \A p \in G(q).pending : p.own \in Requests
      BY <2>1, <3>1 DEF G
    <3> QED
      BY <1>9, <2>2, <3>1, <3>2, <3>3 DEF IInv, PacketInv
  <2>7. \A q \in Requests : Holds(q)' => req'[q].key = req[q].key
    BY <1>6, <1>9
  <2> QED
    BY <2>4, <2>5, <2>6, <2>7 DEF PacketInv
<1>18. ClosedInv' /\ CallbacksWithinRequest'
  <2>1. \A l \in Keys : \/ graph'[l] = graph[l]
                        \/ ~graph'[l].closed /\ ~Settled(graph'[l])
    BY <1>8, FreshTypes
  <2>2. \A q \in Requests : Holds(q)' => Holds(q) /\ req'[q] = req[q]
    BY <1>6, <1>9
  <2>3. \A q \in Requests : Running(q) => req'[q] = req[q]
    BY <1>6, <1>9
  <2>4. def' = def
    BY <1>5
  <2> QED
    BY <1>9, <2>1, <2>2, <2>3, <2>4, ClosedGraphsKeep
<1> QED
  BY <1>11, <1>12, <1>15, <1>16, <1>17, <1>18 DEF IInv

-----------------------------------------------------------------------------
(* The definition is loaded, reloaded and retired                          *)

\* A change of the definition that leaves the requests and their graphs alone:
\* others are started anew, or run to their end with the queue they were in.
LEMMA DefinitionKeeps ==
    ASSUME IInv, Types', PoolInv', UNCHANGED req,
           def'.gen >= def.gen, PoolConserved',
           def'.pool \in {def.pool, 0} \/ def'.pool > def.gen,
           \A k \in Keys :
              \/ graph'[k] = graph[k]
              \/ /\ k.pool > 0 /\ \A r \in Requests : Holds(r) => req[r].key # k
                 /\ \/ graph'[k] = Fresh
                    \/ /\ graph'[k] = [graph[k] EXCEPT !.closed = TRUE]
                       /\ Quiet(k) /\ k.pool <= def.gen /\ k.pool # def'.pool,
           \A n \in 1..MaxGen : idle'[n] \subseteq idle[n] \/ n > def.gen
    PROVE  IInv'
<1>1. \A r \in Requests : /\ Holds(r)' <=> Holds(r)
                          /\ Running(r)' <=> Running(r)
                          /\ Abandoned(r)' <=> Abandoned(r)
                          /\ Pooled(r)' <=> Pooled(r)
  BY DEF Holds, Running, Abandoned, Pooled
<1>2. def \in Definitions /\ def' \in Definitions /\ req \in [Requests -> Executions]
      /\ graph \in [Keys -> Graphs] /\ idle \in [1..MaxGen -> SUBSET PoolIds]
      /\ idle' \in [1..MaxGen -> SUBSET PoolIds]
  BY DEF IInv, Types
<1>3. def.gen \in Nat /\ def'.gen \in Nat
  BY <1>2 DEF Definitions
<1>4. KeyInv'
  <2>1. \A r \in Requests : req[r].gen \in Nat
    BY <1>2, BoundsAssumption DEF Executions
  <2>2. \A r \in Requests : req[r].gen <= def.gen => req[r].gen <= def'.gen
    BY <1>3, <2>1
  <2> QED
    BY <1>1, <2>2 DEF IInv, KeyInv
<1>5. \A k \in Keys : k.pool > def'.gen => k.pool > def.gen /\ ~(k.pool <= def.gen)
  BY <1>3, KeyTypes, BoundsAssumption
<1>6. UnusedInv'
  <2>1. \A k \in Keys : k.pool > def'.gen => graph'[k] = Fresh
    BY <1>5 DEF IInv, UnusedInv
  <2>2. ASSUME NEW k \in Keys, k.pool = 0
        PROVE  graph'[k] = graph[k]
    <3>1. ~(k.pool > 0)
      BY <2>2
    <3> QED
      BY <3>1
  <2> QED
    BY <2>1, <2>2 DEF IInv, UnusedInv
<1>7. \A k \in Keys : \A p \in graph[k].pending : p.own \in Requests
  BY <1>2 DEF Graphs, Packets
<1>8. \A k \in Keys : graph[k] = Fresh => Quiet(k)
  BY DEF Quiet, Fresh
<1>9. \A k \in Keys : Quiet(k) => Quiet(k)'
  <2>1. SUFFICES ASSUME NEW k \in Keys, Quiet(k) PROVE Quiet(k)'
    OBVIOUS
  <2>2. CASE graph'[k] = Fresh
    BY <2>2 DEF Quiet, Fresh
  <2>3. CASE graph'[k] # Fresh
    <3>1. graph'[k] = graph[k] \/ graph'[k] = [graph[k] EXCEPT !.closed = TRUE]
      BY <2>3
    <3>2. graph[k] \in Graphs
      BY <1>2
    <3>3. graph'[k].ctx = graph[k].ctx /\ graph'[k].pending = graph[k].pending
      BY <3>1, <3>2 DEF Graphs
    <3> QED
      BY <1>1, <1>7, <2>1, <3>3 DEF Quiet
  <2> QED
    BY <2>2, <2>3
<1>10. PacketInv'
  <2>1. ASSUME NEW n \in 1..MaxGen, NEW id \in idle'[n]
        PROVE  Quiet([pool |-> n, id |-> id])'
    <3>1. [pool |-> n, id |-> id] \in Keys
      BY <1>2, KeyTypes
    <3>2. CASE n > def.gen
      <4>1. graph[[pool |-> n, id |-> id]] = Fresh
        BY <3>1, <3>2 DEF IInv, UnusedInv
      <4> QED
        BY <1>8, <1>9, <3>1, <4>1
    <3>3. CASE ~(n > def.gen)
      BY <1>9, <3>1, <3>3 DEF IInv, PacketInv
    <3> QED
      BY <3>2, <3>3
  <2>2. \A r \in Requests : \A q \in req[r].got : q \in Requests
    BY <1>2 DEF Executions
  <2>3. \A r \in Requests : \A q \in req'[r].got : q = r \/ Abandoned(q)'
    BY <1>1, <2>2 DEF IInv, PacketInv
  <2>4. ASSUME NEW r \in Requests, Holds(r)'
        PROVE  /\ \A p \in G(r)'.pending : p.own = r \/ Abandoned(p.own)'
               /\ Pooled(r)' /\ req'[r].pc \in {"begin", "release"} => Quiet(req[r].key)'
               /\ Running(r)' => G(r)'.obs = r
               /\ Running(r)' /\ Pooled(r)' /\ req'[r].pc # "fail" /\ ~G(r)'.err
                     /\ ~req'[r].partial =>
                     \A p \in G(r)'.pending :
                         p.own = r => \A i \in Inputs : G(r)'.last[i] >= p.ts
    <3>1. Holds(r) /\ req[r].key \in Keys
      BY <1>1, <2>4 DEF IInv, KeyInv
    <3>2. graph'[req[r].key] = graph[req[r].key]
      BY <3>1
    <3>3. G(r)' = G(r) /\ \A p \in G(r).pending : p.own \in Requests
      BY <1>7, <3>1, <3>2 DEF G
    <3> QED
      BY <1>1, <1>9, <3>1, <3>3 DEF IInv, PacketInv
  <2> QED
    BY <2>1, <2>3, <2>4 DEF PacketInv
<1>11. ClosedInv' /\ CallbacksWithinRequest'
  <2>1. ASSUME NEW k \in Keys
        PROVE  \/ graph'[k] = graph[k]
               \/ ~graph'[k].closed /\ ~Settled(graph'[k])
               \/ /\ k.pool > 0 /\ k.pool # def'.pool /\ Quiet(k) /\ graph'[k].closed
                  /\ graph'[k].pending = graph[k].pending /\ graph'[k].ctx = graph[k].ctx
                  /\ \A q \in Requests : Holds(q)' => req'[q].key # k
    <3>1. CASE graph'[k] = Fresh
      BY <3>1, FreshTypes
    <3>2. CASE graph'[k] # Fresh /\ graph'[k] # graph[k]
      <4>1. /\ k.pool > 0 /\ \A r \in Requests : Holds(r) => req[r].key # k
            /\ graph'[k] = [graph[k] EXCEPT !.closed = TRUE]
            /\ Quiet(k) /\ k.pool # def'.pool
        BY <3>2
      <4>2. /\ graph'[k].closed /\ graph'[k].pending = graph[k].pending
            /\ graph'[k].ctx = graph[k].ctx
        BY <1>2, <4>1 DEF Graphs
      <4> QED
        BY <1>1, <4>1, <4>2
    <3> QED
      BY <3>1, <3>2
  <2>2. ASSUME NEW k \in Keys, k.pool > 0, graph[k].closed, k.pool # def.pool
        PROVE  k.pool # def'.pool
    <3>1. ~(k.pool > def.gen)
      BY <2>2, FreshTypes DEF IInv, UnusedInv
    <3> QED
      BY <2>2, <3>1
  <2> QED
    BY <1>1, <2>1, <2>2, ClosedGraphsKeep
<1> QED
  BY <1>4, <1>6, <1>10, <1>11 DEF IInv

\* ReloadEvent changes the state of the definition only.
LEMMA ReloadBeginsKeeps ==
    ASSUME IInv, ReloadBegins
    PROVE  IInv'
<1>1. def \in Definitions /\ def' = [def EXCEPT !.state = "reloading"]
  BY DEF IInv, Types, ReloadBegins
<1>2. /\ def' \in Definitions /\ def'.gen = def.gen /\ def'.pool = def.pool
      /\ def'.size = def.size /\ def'.file = def.file
  BY <1>1 DEF Definitions
<1>3. Types'
  BY <1>2 DEF ReloadBegins, IInv, Types
<1>4. PoolInv'
  BY <1>2 DEF ReloadBegins, IInv, PoolInv
<1>5. PoolConserved'
  BY <1>2 DEF ReloadBegins, IInv, KeyInv, PoolConserved, Holds
<1>6. def'.gen >= def.gen
  BY <1>1, <1>2 DEF Definitions
<1>7. \A n \in 1..MaxGen : idle'[n] \subseteq idle[n]
  BY DEF ReloadBegins
<1> QED
  BY <1>3, <1>4, <1>5, <1>6, <1>7, DefinitionKeeps DEF ReloadBegins

\* RetireEvent changes the state of the definition only.
LEMMA RetireBeginsKeeps ==
    ASSUME IInv, RetireBegins
    PROVE  IInv'
<1>1. def \in Definitions /\ def' = [def EXCEPT !.state = "retired"]
  BY DEF IInv, Types, RetireBegins
<1>2. /\ def' \in Definitions /\ def'.gen = def.gen /\ def'.pool = def.pool
      /\ def'.size = def.size /\ def'.file = def.file
  BY <1>1 DEF Definitions
<1>3. Types'
  BY <1>2 DEF RetireBegins, IInv, Types
<1>4. PoolInv'
  BY <1>2 DEF RetireBegins, IInv, PoolInv
<1>5. PoolConserved'
  BY <1>2 DEF RetireBegins, IInv, KeyInv, PoolConserved, Holds
<1>6. def'.gen >= def.gen
  BY <1>1, <1>2 DEF Definitions
<1>7. \A n \in 1..MaxGen : idle'[n] \subseteq idle[n]
  BY DEF RetireBegins
<1> QED
  BY <1>3, <1>4, <1>5, <1>6, <1>7, DefinitionKeeps DEF RetireBegins

\* Of the graphs nobody has, those of a queue that is gone are no more.
LEMMA DestroyedGraphs ==
    ASSUME IInv, GraphsDestroyed
    PROVE  /\ graph' \in [Keys -> Graphs]
           /\ \A k \in Keys :
                 \/ graph'[k] = graph[k]
                 \/ /\ k.pool > 0 /\ \A r \in Requests : Holds(r) => req[r].key # k
                    /\ graph'[k] = Fresh
<1>1. graph \in [Keys -> Graphs]
  BY DEF IInv, Types
<1>2. graph' = [k \in Keys |-> IF Dropped(k) THEN Fresh ELSE graph[k]]
  BY DEF GraphsDestroyed
<1>3. \A k \in Keys : Dropped(k) =>
         k.pool > 0 /\ \A r \in Requests : Holds(r) => req[r].key # k
  BY DEF Dropped, Owned
<1> QED
  BY <1>1, <1>2, <1>3, FreshTypes

\* With its queue, the graphs that are idle are run to their end.
LEMMA ResetQueueKeeps ==
    ASSUME IInv, ResetQueue
    PROVE  IInv'
<1>1. /\ def \in Definitions /\ def' = [def EXCEPT !.pool = 0]
      /\ idle' = [n \in 1..MaxGen |-> {}]
      /\ graph' = [k \in Keys |-> [graph[k] EXCEPT !.closed = @ \/ Idle(k)]]
      /\ graph \in [Keys -> Graphs]
      /\ UNCHANGED <<handles, req, clock>>
      /\ manager \in {"reload", "retire"}
      /\ manager' = IF manager = "reload" THEN "reload_drops" ELSE "retire_drops"
  BY DEF IInv, Types, ResetQueue
<1>2. def' \in Definitions /\ def'.gen = def.gen /\ def'.pool = 0
  BY <1>1, BoundsAssumption DEF Definitions
<1>3. /\ \A n \in 1..MaxGen : idle'[n] = {}
      /\ idle' \in [1..MaxGen -> SUBSET PoolIds]
  BY <1>1
<1>4. ASSUME NEW k \in Keys
      PROVE  /\ graph'[k] \in Graphs
             /\ ~Idle(k) => graph'[k] = graph[k]
             /\ Idle(k) => graph'[k] = [graph[k] EXCEPT !.closed = TRUE]
  <2>1. graph'[k] = [graph[k] EXCEPT !.closed = @ \/ Idle(k)] /\ graph[k] \in Graphs
    BY <1>1
  <2>2. CASE Idle(k)
    <3>1. (graph[k].closed \/ Idle(k)) = TRUE
      BY <2>2, Zenon
    <3>2. graph'[k] = [graph[k] EXCEPT !.closed = TRUE]
      BY <2>1, <3>1
    <3> QED
      BY <2>1, <2>2, <3>2 DEF Graphs
  <2>3. CASE ~Idle(k)
    <3>1. graph[k].closed \in BOOLEAN
      BY <2>1 DEF Graphs
    <3>2. (graph[k].closed \/ Idle(k)) = graph[k].closed
      BY <2>3, <3>1, Zenon
    <3>3. graph'[k] = graph[k]
      BY <2>1, <3>2 DEF Graphs
    <3> QED
      BY <2>1, <2>3, <3>3
  <2> QED
    BY <2>2, <2>3
<1>5. graph' \in [Keys -> Graphs]
  BY <1>1, <1>4
<1>6. Types'
  BY <1>1, <1>2, <1>3, <1>5 DEF IInv, Types
<1>7. PoolInv'
  BY <1>1, <1>2 DEF IInv, PoolInv
<1>8. def'.gen >= def.gen
  BY <1>1, <1>2 DEF Definitions
<1>9. PoolConserved'
  <2>1. \A r, q \in Requests :
            r # q /\ Holds(r)' /\ Holds(q)' => req'[r].key # req'[q].key
    BY <1>1 DEF IInv, KeyInv, PoolConserved, Holds
  <2>2. \A n \in 1..MaxGen : n # def'.pool
    BY <1>2
  <2> QED
    BY <1>3, <2>1, <2>2 DEF PoolConserved
<1>10. ASSUME NEW k \in Keys, Idle(k)
       PROVE  /\ k.pool > 0 /\ \A r \in Requests : Holds(r) => req[r].key # k
              /\ Quiet(k) /\ k.pool <= def.gen
  <2>1. k.pool \in 1..MaxGen /\ k.id \in idle[k.pool] /\ k = [pool |-> k.pool, id |-> k.id]
    BY <1>10, KeyTypes, BoundsAssumption DEF Idle
  <2>2. k.pool = def.pool
    BY <2>1 DEF IInv, KeyInv, PoolConserved
  <2>3. idle[k.pool] \cap Held(k.pool) = {}
    BY <2>1, <2>2 DEF IInv, KeyInv, PoolConserved, Held
  <2>4. \A r \in Requests : Holds(r) /\ req[r].key = k => k.id \in Held(k.pool)
    BY DEF Held
  <2>5. k.pool <= def.gen
    BY <1>1, <2>1, <2>2 DEF IInv, PoolInv, Definitions
  <2>6. Quiet(k)
    BY <2>1 DEF IInv, PacketInv
  <2> QED
    BY <2>1, <2>3, <2>4, <2>5, <2>6
<1>11. ASSUME NEW k \in Keys
       PROVE  \/ graph'[k] = graph[k]
              \/ /\ k.pool > 0 /\ \A r \in Requests : Holds(r) => req[r].key # k
                 /\ graph'[k] = [graph[k] EXCEPT !.closed = TRUE]
                 /\ Quiet(k) /\ k.pool <= def.gen /\ k.pool # def'.pool
  BY <1>2, <1>4, <1>10
<1> QED
  BY <1>1, <1>2, <1>3, <1>6, <1>7, <1>8, <1>9, <1>11, DefinitionKeeps

\* The queue of a reload has graphs that no request ever had.
LEMMA ReloadAppliesKeeps ==
    ASSUME IInv, ReloadApplies
    PROVE  IInv'
<1>1. /\ def \in Definitions /\ def.gen < MaxGen
      /\ req \in [Requests -> Executions]
  BY DEF IInv, Types, PoolInv, ReloadApplies
<1>2. PICK n \in 1..MaxGen : n = def.gen + 1
  BY <1>1, BoundsAssumption DEF Definitions
<1>3. PICK f \in Files :
        /\ def' = Loaded(f, n)
        /\ idle' = [m \in 1..MaxGen |-> IF m = def'.pool THEN 1..def'.size ELSE {}]
  BY <1>2 DEF ReloadApplies
<1>4. /\ def' \in Definitions /\ def'.gen = n /\ def'.pool \in {0, n}
      /\ 1..def'.size \subseteq PoolIds
      /\ def'.pool > 0 => ~def'.file.loopback /\ ~def'.file.contextless
  BY <1>3, LoadedType
<1>5. /\ \A m \in 1..MaxGen : idle'[m] = IF m = def'.pool THEN 1..def'.size ELSE {}
      /\ idle' \in [1..MaxGen -> SUBSET PoolIds]
  BY <1>3, <1>4
<1>6. /\ UNCHANGED <<handles, req, clock>> /\ manager' = "idle"
      /\ GraphsDestroyed
  BY DEF ReloadApplies
<1>7. Types'
  BY <1>4, <1>5, <1>6, DestroyedGraphs DEF IInv, Types
<1>8. PoolInv'
  BY <1>2, <1>4, <1>6 DEF PoolInv
<1>9. def.gen \in Nat /\ n > def.gen /\ def'.gen >= def.gen
  BY <1>1, <1>2, <1>4 DEF Definitions
<1>10. \A m \in 1..MaxGen : idle'[m] \subseteq idle[m] \/ m > def.gen
  <2>1. ASSUME NEW m \in 1..MaxGen PROVE idle'[m] = {} \/ m = n
    BY <1>4, <1>5
  <2> QED
    BY <1>9, <2>1
<1>11. \A r \in Requests : Holds(r) => req[r].key.pool # n
  BY <1>1, <1>9, BoundsAssumption DEF IInv, KeyInv, Pooled, Executions
<1>12. PoolConserved'
  <2>1. \A r, q \in Requests :
            r # q /\ Holds(r)' /\ Holds(q)' => req'[r].key # req'[q].key
    BY <1>6 DEF IInv, KeyInv, PoolConserved, Holds
  <2>2. Held(n)' = {}
    BY <1>6, <1>11 DEF Held, Holds
  <2>3. ASSUME NEW m \in 1..MaxGen
        PROVE  IF m # def'.pool THEN idle'[m] = {}
               ELSE idle'[m] \cap Held(m)' = {} /\ idle'[m] \cup Held(m)' = 1..def'.size
    <3>1. CASE m # def'.pool
      BY <1>5, <3>1
    <3>2. CASE m = def'.pool
      <4>1. m = n
        BY <1>4, <3>2
      <4>2. idle'[m] = 1..def'.size
        BY <1>5, <3>2
      <4> QED
        BY <2>2, <3>2, <4>1, <4>2
    <3> QED
      BY <3>1, <3>2
  <2> QED
    BY <2>1, <2>3 DEF PoolConserved, Held
<1> QED
  BY <1>4, <1>6, <1>7, <1>8, <1>9, <1>10, <1>12, DestroyedGraphs, DefinitionKeeps

\* With the queue of a retired definition its idle graphs are gone.
LEMMA RetireAppliesKeeps ==
    ASSUME IInv, RetireApplies
    PROVE  IInv'
<1>1. /\ def \in Definitions /\ def' = [def EXCEPT !.pool = 0]
      /\ idle' = [n \in 1..MaxGen |-> {}]
      /\ UNCHANGED <<handles, req, clock>> /\ manager' = "idle"
      /\ GraphsDestroyed
  BY DEF IInv, Types, RetireApplies
<1>2. def' \in Definitions /\ def'.gen = def.gen /\ def'.pool = 0
  BY <1>1, BoundsAssumption DEF Definitions
<1>3. /\ \A n \in 1..MaxGen : idle'[n] = {}
      /\ idle' \in [1..MaxGen -> SUBSET PoolIds]
  BY <1>1
<1>4. Types'
  BY <1>1, <1>2, <1>3, DestroyedGraphs DEF IInv, Types
<1>5. PoolInv'
  BY <1>1, <1>2 DEF PoolInv
<1>6. def'.gen >= def.gen
  BY <1>1, <1>2 DEF Definitions
<1>7. PoolConserved'
  <2>1. \A r, q \in Requests :
            r # q /\ Holds(r)' /\ Holds(q)' => req'[r].key # req'[q].key
    BY <1>1 DEF IInv, KeyInv, PoolConserved, Holds
  <2>2. \A n \in 1..MaxGen : n # def'.pool
    BY <1>2
  <2> QED
    BY <1>3, <2>1, <2>2 DEF PoolConserved
<1> QED
  BY <1>1, <1>2, <1>3, <1>4, <1>5, <1>6, <1>7, DestroyedGraphs, DefinitionKeeps

-----------------------------------------------------------------------------
(* The theorems                                                            *)

\* The server starts with the pool of the first file, all of it idle.
LEMMA InitKeeps == Init => IInv
<1> SUFFICES ASSUME Init PROVE IInv
  OBVIOUS
<1>1. 1 \in 1..MaxGen
  BY BoundsAssumption
<1>2. /\ def \in Definitions /\ def.gen = 1 /\ def.pool \in {0, 1}
      /\ 1..def.size \subseteq PoolIds
      /\ def.pool > 0 => ~def.file.loopback /\ ~def.file.contextless
  BY <1>1, FilesAssumption, LoadedType DEF Init
<1>3. /\ \A n \in 1..MaxGen : idle[n] = IF n = 1 /\ def.pool = 1 THEN 1..def.size ELSE {}
      /\ idle \in [1..MaxGen -> SUBSET PoolIds]
  BY <1>2 DEF Init
<1>4. \A k \in Keys : graph[k] = Fresh
  BY DEF Init
<1>5. \A r \in Requests : req[r] = NoRequest /\ ~Holds(r) /\ ~Running(r)
  BY DEF Init, NoRequest, Holds, Running
<1>6. NoRequest \in Executions
  BY BoundsAssumption DEF NoRequest, Executions, NoKey
<1>7. Types
  <2>1. graph \in [Keys -> Graphs]
    BY FreshTypes DEF Init
  <2>2. req \in [Requests -> Executions]
    BY <1>6 DEF Init
  <2> QED
    BY <1>2, <1>3, <2>1, <2>2, BoundsAssumption DEF Init, Types
<1>8. PoolInv
  BY <1>2 DEF Init, PoolInv
<1>9. KeyInv
  <2>1. \A n : Held(n) = {}
    BY <1>5 DEF Held
  <2>2. ASSUME NEW n \in 1..MaxGen
        PROVE  IF n # def.pool THEN idle[n] = {}
               ELSE idle[n] \cap Held(n) = {} /\ idle[n] \cup Held(n) = 1..def.size
    <3>1. CASE n # def.pool
      BY <1>3, <3>1
    <3>2. CASE n = def.pool
      <4>1. n = 1
        BY <1>2, <3>2
      <4>2. idle[n] = 1..def.size
        BY <1>3, <3>2, <4>1
      <4> QED
        BY <2>1, <3>2, <4>2
    <3> QED
      BY <3>1, <3>2
  <2>3. PoolConserved
    BY <1>5, <2>2 DEF PoolConserved, Held
  <2> QED
    BY <1>5, <2>3 DEF KeyInv
<1>10. UnusedInv
  <2>1. \A r \in Requests : ~req[r].partial
    BY <1>5 DEF NoRequest
  <2> QED
    BY <1>4, <2>1 DEF UnusedInv
<1>11. PacketInv
  <2>1. \A n \in 1..MaxGen : \A id \in idle[n] : Quiet([pool |-> n, id |-> id])
    <3>1. ASSUME NEW n \in 1..MaxGen, NEW id \in idle[n]
          PROVE  Quiet([pool |-> n, id |-> id])
      <4>1. [pool |-> n, id |-> id] \in Keys
        BY <1>3, KeyTypes
      <4>2. graph[[pool |-> n, id |-> id]] = Fresh
        BY <1>4, <4>1
      <4> QED
        BY <4>2 DEF Quiet, Fresh
    <3> QED
      BY <3>1
  <2>2. \A r \in Requests : req[r].got = {}
    BY <1>5 DEF NoRequest
  <2> QED
    BY <1>5, <2>1, <2>2 DEF PacketInv
<1>12. ClosedInv /\ CallbacksWithinRequest
  BY <1>4, FreshTypes DEF ClosedInv, CallbacksWithinRequest
<1> QED
  BY <1>7, <1>8, <1>9, <1>10, <1>11, <1>12 DEF IInv

\* A step of the definition, of a request or of MediaPipe keeps IInv.
LEMMA StepKeeps == IInv /\ [Next]_vars => IInv'
<1> SUFFICES ASSUME IInv, [Next]_vars PROVE IInv'
  OBVIOUS
<1>1. CASE Manager
  BY <1>1, ReloadBeginsKeeps, ResetQueueKeeps, ReloadAppliesKeeps,
     RetireBeginsKeeps, RetireAppliesKeeps DEF Manager, ManagerGoesOn
<1>2. ASSUME NEW r \in Requests, RequestStep(r)
      PROVE  IInv'
  <2>1. CASE TakeGuard(r) \/ RefuseSidePackets(r) \/ StartFails(r)
    BY <2>1, TakeGuardKeeps, RefuseSidePacketsKeeps, StartFailsKeeps
  <2>2. CASE RequestGoesOn(r)
    <3>1. PushStream(r) \/ PushStreamUnpooled(r) => StreamMessage(r)
      BY DEF PushStream, PushStreamUnpooled
    <3> QED
      BY <2>2, <3>1, CheckAvailableKeeps, AcquirePooledKeeps, CreateUnpooledKeeps,
         BeginKeeps, PushUnaryKeeps, StreamMessageKeeps, CloseStreamKeeps,
         WaitUntilIdleKeeps, PollOutputsKeeps, WaitUntilDoneKeeps,
         CloseAllPacketSourcesKeeps, ReinitializeKeeps, ReleaseKeeps
         DEF RequestGoesOn
  <2> QED
    BY <1>2, <2>1, <2>2 DEF RequestStep
<1>3. CASE GraphStep
  BY <1>3, ProcessKeeps DEF GraphStep
<1>4. CASE UNCHANGED vars
  <2>1. Types' /\ PoolInv'
    BY <1>4 DEF vars, IInv, Types, PoolInv
  <2>2. PoolConserved'
    BY <1>4 DEF vars, IInv, KeyInv, PoolConserved, Holds
  <2>3. def'.gen >= def.gen
    BY <1>4 DEF vars, IInv, Types, Definitions
  <2> QED
    BY <1>4, <2>1, <2>2, <2>3, DefinitionKeeps DEF vars
<1> QED
  BY <1>1, <1>2, <1>3, <1>4 DEF Next

\* IInv says what TypeOK does.
LEMMA TypesGiveTypeOK == IInv => TypeOK
<1> SUFFICES ASSUME IInv PROVE TypeOK
  OBVIOUS
<1>1. /\ def.state \in {"available", "failed", "reloading", "retired"}
      /\ def.pool \in 0..MaxGen /\ def.gen \in 1..MaxGen
  BY DEF IInv, Types, Definitions
<1>2. \A k \in Keys : /\ {graph[k].obs, graph[k].ctx} \subseteq Requests \cup {None}
                      /\ \A p \in graph[k].pending : p.ts \in 1..MaxClock + 1
  BY DEF IInv, Types, Graphs, Packets
<1>3. \A r \in Requests : req[r].got \subseteq Requests
  BY DEF IInv, Types, Executions
<1> QED
  BY <1>1, <1>2, <1>3 DEF IInv, Types, TypeOK

\* A pool whose graphs are idle or in the hands of one request each, and are
\* those of the definition the request was created from.
THEOREM GraphPoolIsSafe == Spec => []PoolSafety
<1>1. IInv => PoolSafety
  <2> SUFFICES ASSUME IInv PROVE PoolSafety
    OBVIOUS
  <2>1. GraphOfOwnConfig
    BY DEF IInv, KeyInv, PoolInv, GraphOfOwnConfig
  <2> QED
    BY <2>1, TypesGiveTypeOK DEF IInv, KeyInv, PoolSafety
<1> QED
  BY <1>1, InitKeeps, StepKeeps, PTL DEF Spec

\* The callbacks of a graph find the request that runs it, and a request gets
\* no answers to packets of another one, but for what a stream that ended with
\* inputs missing has left in a pooled graph: the next request may meet it, or
\* the end of the graph once its queue is gone.
THEOREM GraphRequestsAreIsolated == Spec => []RequestsIsolated
<1>1. IInv => RequestsIsolated
  <2> SUFFICES ASSUME IInv PROVE RequestsIsolated
    OBVIOUS
  <2>1. \A n \in 1..MaxGen, id \in PoolIds : id \in idle[n] =>
            /\ graph[[pool |-> n, id |-> id]].ctx = None
            /\ \A p \in graph[[pool |-> n, id |-> id]].pending :
                   req[p.own].kind = "stream" /\ req[p.own].partial
    BY DEF IInv, PacketInv, Quiet, Abandoned
  <2>2. \A r \in Requests : \A q \in req[r].got :
            q # r => req[q].kind = "stream" /\ req[q].partial
    BY DEF IInv, PacketInv, Abandoned
  <2>3. AnswersAreOwn
    BY <2>1, <2>2 DEF AnswersAreOwn, LeftByStreams
  <2> QED
    BY <2>3 DEF IInv, RequestsIsolated
<1> QED
  BY <1>1, InitKeeps, StepKeeps, PTL DEF Spec

-----------------------------------------------------------------------------
(* The queues of all generations                                           *)

\* The request that has the graph of a key in its hands.
Holder(k) == IF \E r \in Requests : Holds(r) /\ req[r].key = k
             THEN CHOOSE r \in Requests : Holds(r) /\ req[r].key = k
             ELSE None

\* The queue of generation n, its ids owned by the requests that hold them.
Owners(n) == [id \in PoolIds |-> Holder([pool |-> n, id |-> id])]
Queue(n) == INSTANCE StreamPool
            WITH Clients <- Requests, Nobody <- None, Streams <- PoolIds,
                 owner <- Owners(n)

\* Each generation's queue is used as Queue<T> allows, from the first load of
\* the definition on and past the end of the queue: a request without a graph
\* takes one that nobody has, and keeps it until its own GraphIdGuard returns
\* it, whatever reloads and retirements come in between (graphqueue.hpp:124).
\* A return that serves a waiting request is a return and an acquisition here.
GraphsChangeHands ==
    /\ \A n \in 1..MaxGen : Queue(n)!Init
    /\ [][\A n \in 1..MaxGen :
             \/ UNCHANGED Owners(n)
             \/ \E r \in Requests : Queue(n)!Take(r) \/ Queue(n)!GiveBack(r)]_vars

\* Request r has the graph of key k in its hands.
Has(r, k) == Holds(r) /\ req[r].key = k

\* Nobody shares a graph: the holder of a key is the request that has it.
LEMMA HolderIs ==
    PoolConserved =>
        \A k : /\ Holder(k) # None => Holder(k) \in Requests /\ Has(Holder(k), k)
               /\ \A r \in Requests : Has(r, k) => Holder(k) = r
<1> SUFFICES ASSUME PoolConserved, NEW k
             PROVE  /\ Holder(k) # None => Holder(k) \in Requests /\ Has(Holder(k), k)
                    /\ \A r \in Requests : Has(r, k) => Holder(k) = r
  OBVIOUS
<1>1. CASE \E r \in Requests : Has(r, k)
  <2>1. Holder(k) \in Requests /\ Has(Holder(k), k)
    BY <1>1 DEF Holder, Has
  <2> QED
    BY <2>1 DEF Has, PoolConserved
<1>2. CASE ~ \E r \in Requests : Has(r, k)
  BY <1>2 DEF Holder, Has
<1> QED
  BY <1>1, <1>2

\* The same after a step.
LEMMA HolderIsNext ==
    PoolConserved' =>
        \A k : /\ Holder(k)' # None => Holder(k)' \in Requests /\ Has(Holder(k), k)'
               /\ \A r \in Requests : Has(r, k)' => Holder(k)' = r
<1> SUFFICES ASSUME PoolConserved', NEW k
             PROVE  /\ Holder(k)' # None => Holder(k)' \in Requests /\ Has(Holder(k), k)'
                    /\ \A r \in Requests : Has(r, k)' => Holder(k)' = r
  OBVIOUS
<1>1. CASE \E r \in Requests : Has(r, k)'
  <2>1. Holder(k)' \in Requests /\ Has(Holder(k), k)'
    BY <1>1 DEF Holder, Has
  <2> QED
    BY <2>1 DEF Has, PoolConserved
<1>2. CASE ~ \E r \in Requests : Has(r, k)'
  BY <1>2 DEF Holder, Has
<1> QED
  BY <1>1, <1>2

\* The owners of a queue are those who have its ids.
LEMMA SameOwners ==
    ASSUME PoolConserved, PoolConserved', NEW n \in 1..MaxGen,
           \A id \in PoolIds, q \in Requests :
               Has(q, [pool |-> n, id |-> id])' <=> Has(q, [pool |-> n, id |-> id])
    PROVE  Owners(n)' = Owners(n)
<1>1. ASSUME NEW id \in PoolIds
      PROVE  Holder([pool |-> n, id |-> id])' = Holder([pool |-> n, id |-> id])
  <2> DEFINE k == [pool |-> n, id |-> id]
  <2>1. \A q \in Requests : Has(q, k)' <=> Has(q, k)
    OBVIOUS
  <2> QED
    BY <2>1, HolderIs, HolderIsNext
<1> QED
  BY <1>1 DEF Owners

\* A step by which nobody gets or returns a graph of a queue.
KeepsGraphs == \A n \in 1..MaxGen : \A id \in PoolIds, q \in Requests :
    Has(q, [pool |-> n, id |-> id])' <=> Has(q, [pool |-> n, id |-> id])

\* Requests that are created, and that run, keep the graphs they have.
LEMMA OthersKeepGraphs ==
    ASSUME IInv, NEW r \in Requests,
           RequestStep(r), ~AcquirePooled(r), ~Release(r)
    PROVE  KeepsGraphs
<1>1. /\ req \in [Requests -> Executions] /\ req[r] \in Executions
      /\ def.pool \in Nat
  BY BoundsAssumption DEF IInv, Types, Definitions
<1>2. ASSUME \A q \in Requests : q # r => req'[q] = req[q],
             \/ Holds(r) /\ Holds(r)' /\ req'[r].key = req[r].key
             \/ ~Holds(r) /\ ~Holds(r)'
             \/ ~Holds(r) /\ req'[r].key.pool = 0
      PROVE  KeepsGraphs
  BY <1>2 DEF KeepsGraphs, Has, Holds
<1>3. CASE TakeGuard(r) \/ CheckAvailable(r)
  <2>1. /\ \A q \in Requests : q # r => req'[q] = req[q]
        /\ req[r].pc \in {"new", "guarded"}
        /\ req'[r].pc \in {"guarded", "acquire", "ended"}
    BY <1>1, <1>3 DEF TakeGuard, CheckAvailable, Executions
  <2> QED
    BY <1>2, <2>1 DEF Holds
<1>4. CASE CreateUnpooled(r)
  <2>1. /\ \A q \in Requests : q # r => req'[q] = req[q]
        /\ req[r].pc = "acquire" /\ req'[r].key = [pool |-> 0, id |-> r]
    BY <1>1, <1>4 DEF CreateUnpooled, Executions
  <2> QED
    BY <1>2, <2>1 DEF Holds
<1>5. CASE RefuseSidePackets(r) \/ StartFails(r) \/ Begin(r)
  <2>1. /\ \A q \in Requests : q # r => req'[q] = req[q]
        /\ req[r].pc = "begin" /\ req'[r].key = req[r].key
        /\ req'[r].pc \in {"release", "first"}
    BY <1>1, <1>5 DEF RefuseSidePackets, StartFails, Begin, Executions
  <2> QED
    BY <1>2, <2>1 DEF Holds
<1>6. CASE PushUnary(r)
  <2>1. /\ \A q \in Requests : q # r => req'[q] = req[q]
        /\ req[r].pc = "first" /\ req'[r].key = req[r].key
        /\ req'[r].pc \in {"wait", "fail"}
    BY <1>1, <1>6 DEF PushUnary, Executions
  <2> QED
    BY <1>2, <2>1 DEF Holds
<1>7. CASE PushStream(r) \/ PushStreamUnpooled(r)
  <2>1. /\ \A q \in Requests : q # r => req'[q] = req[q]
        /\ req[r].pc \in {"first", "read"} /\ req'[r].key = req[r].key
        /\ req'[r].pc \in {"wait", "read"}
    <3>1. PICK m \in Messages :
             LET valid == req[r].pc = "first" \/ ValidateSubsequentRequest(m)
                 push == CreateAndPushPackets(G(r), m, Later, r)
                 after == IF valid THEN push.g ELSE G(r)
             IN
             req' = [req EXCEPT ![r].sent = @ + 1,
                        ![r].partial = @ \/ /\ valid /\ Pooled(r) /\ ~push.g.err
                                            /\ push.created > 0
                                            /\ push.created < Cardinality(Inputs),
                        ![r].pc = IF @ = "read" /\ after.err THEN "wait" ELSE "read"]
      BY <1>7 DEF PushStream, PushStreamUnpooled, StreamMessage
    <3>2. req[r].pc \in {"first", "read"}
      BY <1>7 DEF PushStream, PushStreamUnpooled, StreamMessage
    <3> QED
      BY <1>1, <3>1, <3>2 DEF Executions
  <2> QED
    BY <1>2, <2>1 DEF Holds
<1>8. CASE CloseStream(r) \/ WaitUntilIdle(r) \/ PollOutputs(r) \/ WaitUntilDone(r)
  <2>1. /\ \A q \in Requests : q # r => req'[q] = req[q]
        /\ req[r].pc \in {"read", "wait"} /\ req'[r].key = req[r].key
        /\ req'[r].pc \in {"wait", "fail", "release"}
    BY <1>1, <1>8 DEF CloseStream, WaitUntilIdle, PollOutputs, WaitUntilDone, Executions
  <2> QED
    BY <1>2, <2>1 DEF Holds
<1>9. CASE CloseAllPacketSources(r)
  BY <1>9 DEF CloseAllPacketSources, KeepsGraphs, Has, Holds
<1>10. CASE Reinitialize(r)
  <2>1. /\ \A q \in Requests : q # r => req'[q] = req[q]
        /\ req[r].pc = "fail" /\ req'[r].key = req[r].key /\ req'[r].pc = "release"
    BY <1>1, <1>10 DEF Reinitialize, Executions
  <2> QED
    BY <1>2, <2>1 DEF Holds
<1> QED
  BY <1>3, <1>4, <1>5, <1>6, <1>7, <1>8, <1>9, <1>10
     DEF RequestStep, RequestGoesOn

\* The answer of a graph goes to a request, which keeps its graph.
LEMMA ProcessKeepsGraphs ==
    ASSUME IInv, NEW k \in Keys, NEW outcome, Process(k, outcome)
    PROVE  KeepsGraphs
<1>1. req \in [Requests -> Executions]
  BY DEF IInv, Types
<1>2. \A q \in Requests : req'[q].pc = req[q].pc /\ req'[q].key = req[q].key
  <2>1. CASE req' = req
    BY <2>1
  <2>2. CASE req' = [req EXCEPT ![graph[k].obs].got =
                       @ \cup {p.own : p \in {p \in graph[k].pending :
                                                 p.ts = NextSet(graph[k])}}]
    BY <1>1, <2>2 DEF Executions
  <2> QED
    BY <2>1, <2>2 DEF Process
<1> QED
  BY <1>2 DEF KeepsGraphs, Has, Holds

\* A request without a graph takes one that nobody has.
LEMMA AcquirePooledTakes ==
    ASSUME IInv, IInv', NEW r \in Requests, AcquirePooled(r), NEW n \in 1..MaxGen
    PROVE  Owners(n)' = Owners(n) \/ Queue(n)!Take(r)
<1>1. /\ req \in [Requests -> Executions] /\ req[r] \in Executions
      /\ idle \in [1..MaxGen -> SUBSET PoolIds] /\ def \in Definitions
      /\ req[r].pc = "acquire" /\ def.pool > 0
      /\ PoolConserved /\ PoolConserved'
  BY DEF IInv, Types, KeyInv, AcquirePooled
<1>2. def.pool \in 1..MaxGen
  BY <1>1, BoundsAssumption DEF Definitions
<1>3. PICK id \in idle[def.pool] :
        req' = [req EXCEPT ![r].pc = "begin", ![r].gen = def.gen,
                           ![r].key = [pool |-> def.pool, id |-> id]]
  BY DEF AcquirePooled
<1> DEFINE k == [pool |-> def.pool, id |-> id]
<1>4. /\ req'[r].pc = "begin" /\ req'[r].key = k
      /\ \A q \in Requests : q # r => req'[q] = req[q]
  BY <1>1, <1>3 DEF Executions
<1>5. /\ \A l : ~Has(r, l) /\ (Has(r, l)' <=> l = k)
      /\ \A l : \A q \in Requests : q # r => (Has(q, l)' <=> Has(q, l))
  BY <1>1, <1>4 DEF Has, Holds
<1>6. CASE n # def.pool
  <2>1. \A s \in PoolIds : [pool |-> n, id |-> s] # k
    BY <1>6
  <2>2. \A s \in PoolIds, q \in Requests :
            Has(q, [pool |-> n, id |-> s])' <=> Has(q, [pool |-> n, id |-> s])
    BY <1>5, <2>1
  <2> QED
    BY <1>1, <2>2, SameOwners
<1>7. CASE n = def.pool
  <2>1. id \in PoolIds
    BY <1>1, <1>2
  <2>2. \A q \in Requests : ~Has(q, k)
    <3>1. idle[def.pool] \cap {req[q].key.id : q \in
              {p \in Requests : Holds(p) /\ req[p].key.pool = def.pool}} = {}
      BY <1>1, <1>2 DEF PoolConserved
    <3> QED
      BY <3>1 DEF Has
  <2>3. Owners(n)[id] = None /\ \A s \in PoolIds : Owners(n)[s] # r
    <3>1. \A s \in PoolIds : Owners(n)[s] = Holder([pool |-> n, id |-> s])
      BY DEF Owners
    <3>2. [pool |-> n, id |-> id] = k
      BY <1>7
    <3>3. Holder(k) = None
      BY <1>1, <2>2, HolderIs
    <3>4. \A l : Holder(l) # r
      BY <1>1, <1>5, HolderIs, RequestsAssumption
    <3> QED
      BY <2>1, <3>1, <3>2, <3>3, <3>4
  <2>4. ASSUME NEW s \in PoolIds
        PROVE  Holder([pool |-> n, id |-> s])' =
                   IF s = id THEN r ELSE Holder([pool |-> n, id |-> s])
    <3> DEFINE l == [pool |-> n, id |-> s]
    <3>1. CASE s = id
      <4>1. l = k
        BY <1>7, <3>1
      <4>2. Has(r, l)'
        BY <1>5, <4>1
      <4> QED
        BY <1>1, <3>1, <4>2, HolderIsNext
    <3>2. CASE s # id
      <4>1. l # k
        BY <3>2
      <4>2. \A q \in Requests : Has(q, l)' <=> Has(q, l)
        BY <1>5, <4>1
      <4> QED
        BY <1>1, <3>2, <4>2, HolderIs, HolderIsNext
    <3> QED
      BY <3>1, <3>2
  <2>5. Owners(n)' = [Owners(n) EXCEPT ![id] = r]
    BY <2>4 DEF Owners
  <2> QED
    BY <2>1, <2>3, <2>5 DEF Queue!Take, Queue!OwnsNothing
<1> QED
  BY <1>6, <1>7

\* A request gives up the graph it has.
LEMMA ReleaseGivesBack ==
    ASSUME IInv, IInv', NEW r \in Requests, Release(r), NEW n \in 1..MaxGen
    PROVE  Owners(n)' = Owners(n) \/ Queue(n)!GiveBack(r)
<1>1. /\ req \in [Requests -> Executions] /\ req[r] \in Executions
      /\ req[r].pc = "release" /\ Holds(r) /\ req[r].key \in Keys
      /\ PoolConserved /\ PoolConserved'
  BY DEF IInv, Types, KeyInv, Release, Holds
<1> DEFINE k == req[r].key
<1>2. req'[r].pc = "ended" /\ \A q \in Requests : q # r => req'[q] = req[q]
  BY <1>1 DEF Release, Ended, Executions
<1>3. /\ \A l : ~Has(r, l)' /\ (Has(r, l) <=> l = k)
      /\ \A l : \A q \in Requests : q # r => (Has(q, l)' <=> Has(q, l))
  BY <1>1, <1>2 DEF Has, Holds
<1>4. CASE n # k.pool
  <2>1. \A s \in PoolIds : [pool |-> n, id |-> s] # k
    BY <1>4
  <2>2. \A s \in PoolIds, q \in Requests :
            Has(q, [pool |-> n, id |-> s])' <=> Has(q, [pool |-> n, id |-> s])
    BY <1>3, <2>1
  <2> QED
    BY <1>1, <2>2, SameOwners
<1>5. CASE n = k.pool
  <2>1. k.id \in PoolIds /\ k = [pool |-> n, id |-> k.id]
    BY <1>1, <1>5, KeyTypes
  <2>2. Owners(n)[k.id] = r
    BY <1>1, <1>3, <2>1, HolderIs DEF Owners
  <2>3. ASSUME NEW s \in PoolIds
        PROVE  Holder([pool |-> n, id |-> s])' =
                   IF s = k.id THEN None ELSE Holder([pool |-> n, id |-> s])
    <3> DEFINE l == [pool |-> n, id |-> s]
    <3>1. CASE s = k.id
      <4>1. l = k
        BY <2>1, <3>1
      <4>2. \A q \in Requests : ~Has(q, l)'
        BY <1>1, <1>3, <4>1, HolderIs
      <4> QED
        BY <1>1, <3>1, <4>2, HolderIsNext
    <3>2. CASE s # k.id
      <4>1. l # k
        BY <3>2
      <4>2. \A q \in Requests : Has(q, l)' <=> Has(q, l)
        BY <1>3, <4>1
      <4> QED
        BY <1>1, <3>2, <4>2, HolderIs, HolderIsNext
    <3> QED
      BY <3>1, <3>2
  <2>4. Owners(n)' = [Owners(n) EXCEPT ![k.id] = None]
    BY <2>3 DEF Owners
  <2> QED
    BY <2>1, <2>2, <2>4 DEF Queue!GiveBack
<1> QED
  BY <1>4, <1>5

\* A graph of a queue, of whatever generation, changes hands only between the
\* queue and one request: it is taken when nobody has it and stays with the
\* request until the request returns it, also when the queue is replaced.
THEOREM GraphsStayWithTheirRequest == Spec => GraphsChangeHands
<1>1. Init => \A n \in 1..MaxGen : Queue(n)!Init
  <2> SUFFICES ASSUME Init, NEW n \in 1..MaxGen PROVE Queue(n)!Init
    OBVIOUS
  <2>1. \A l : \A q \in Requests : ~Has(q, l)
    BY DEF Init, NoRequest, Has, Holds
  <2>2. \A l : Holder(l) = None
    BY <2>1 DEF Holder, Has
  <2> QED
    BY <2>2 DEF Owners, Queue!Init
<1>2. ASSUME IInv, IInv', [Next]_vars, NEW n \in 1..MaxGen
      PROVE  \/ UNCHANGED Owners(n)
             \/ \E r \in Requests : Queue(n)!Take(r) \/ Queue(n)!GiveBack(r)
  <2>1. PoolConserved /\ PoolConserved'
    BY <1>2 DEF IInv, KeyInv
  <2>2. KeepsGraphs => UNCHANGED Owners(n)
    BY <2>1, SameOwners DEF KeepsGraphs
  <2>3. CASE UNCHANGED req
    BY <2>2, <2>3 DEF KeepsGraphs, Has, Holds
  <2>4. Manager \/ UNCHANGED vars => UNCHANGED req
    BY DEF Manager, ManagerGoesOn, ReloadBegins, ResetQueue, ReloadApplies,
       RetireBegins, RetireApplies, vars
  <2>5. CASE GraphStep
    BY <1>2, <2>2, <2>5, ProcessKeepsGraphs DEF GraphStep
  <2>6. ASSUME NEW r \in Requests, RequestStep(r)
        PROVE  \/ UNCHANGED Owners(n)
               \/ Queue(n)!Take(r) \/ Queue(n)!GiveBack(r)
    BY <1>2, <2>2, <2>6, AcquirePooledTakes, ReleaseGivesBack, OthersKeepGraphs
  <2> QED
    BY <1>2, <2>3, <2>4, <2>5, <2>6 DEF Next
<1>3. IInv /\ IInv' /\ [Next]_vars =>
          [\A n \in 1..MaxGen :
             \/ UNCHANGED Owners(n)
             \/ \E r \in Requests : Queue(n)!Take(r) \/ Queue(n)!GiveBack(r)]_vars
  BY <1>2
<1> QED
  BY <1>1, <1>3, InitKeeps, StepKeeps, PTL DEF Spec, GraphsChangeHands
=============================================================================

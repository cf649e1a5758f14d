------------------------- MODULE ModelManagerProofs --------------------------
(***************************************************************************)
(* Theorems about the model manager: the versions of one model             *)
(* (ModelVersions) and the configuration file (ConfigReload).              *)
(*                                                                         *)
(* For every set of versions, policies and configurations: a request       *)
(* without a version is not sent to a version that reloadModelWithVersions *)
(* retires, whatever fails to load and however requests reload versions in *)
(* between, as long as version numbers fit an int; and an application of   *)
(* the configuration leaves the model serving what the policy chooses      *)
(* among the versions that load, the highest of them the default, but for  *)
(* the versions that requests have reloaded.                               *)
(*                                                                         *)
(* DefaultNotRetired is not inductive: RetireVersion would break it if the *)
(* version it takes could be the default.  RetiringInv says that between   *)
(* the update of the default and the end of the version it is not.         *)
(*                                                                         *)
(* PolicyServed speaks of the time between applications.  PolicyInv says   *)
(* what the lists of an application hold while it runs (ListsInv), what    *)
(* the version worked on is (StatusInv), where each requested version is   *)
(* (LoadingInv, RetireInv), and which version but that one may be above    *)
(* the default (HighestInv); RequestsInv says which versions requests may  *)
(* have in hand.  What fails to load is looked up among the available      *)
(* versions by std::binary_search.  In a listing in numeric order it is    *)
(* found; out of order it may stay available, and the application ends     *)
(* with an error (ListsInv, LoadingInv, DefaultIsStuck).                   *)
(*                                                                         *)
(* For every set of files, however they are edited while they are loaded:  *)
(* a name stands for one model, pipeline, graph or alias that was checked, *)
(* and a reload that is answered OK speaks of a file that was there during *)
(* the request.                                                            *)
(*                                                                         *)
(* NamesAreExclusive is not inductive, nor is Exclusive, which says the    *)
(* same of every two uses of a name: the graph of an entry is replaced in  *)
(* two steps, and a model that waits to be looked at again is made anew    *)
(* later in the load, without a check of its name.  TypeInv says what each *)
(* step of a load may find (LoadInv) and which graph is between its two    *)
(* steps (ReloadingInv), ModelsInv that the models a load remembers exist, *)
(* AliasInv that an alias is one its graph has.  A reload answers for the  *)
(* file it saw: SeesInv keeps, for each place a request waits at, what the *)
(* loads since it began can have read.                                     *)
(*                                                                         *)
(* A model that runs as the file says, and a graph that is as the file     *)
(* says, is left alone by every step of a load.  ReadInv says how far a    *)
(* load has come in its file: the names that were tried are known when the *)
(* models of the file are retired (ModelsReadInv), what is tried again is  *)
(* tried with the configuration of the file (GatedInv), and the graphs     *)
(* that were read are remembered (GraphsReadInv).                          *)
(*                                                                         *)
(* A load leaves the file applied.  LoadApplied speaks of a load that has  *)
(* ended; AppliedInv says the same of every entry as soon as it was        *)
(* handled (ModelsDone, PipelinesDone, GraphsDone), and each later step    *)
(* keeps it: retirement takes no name of the file, an entry of a name that *)
(* was handled is passed over, what is tried again is a model no pipeline  *)
(* uses.  ListedInv and EarlyInv say which names a load remembers.         *)
(***************************************************************************)
EXTENDS ModelVersions, ConfigReload, TLAPS, FiniteSetTheorems,
        WellFoundedInduction

(* The versions of a model *)

StateInv ==
    /\ vstate \in [Versions -> VersionStates]
    /\ default \in Versions \cup {0}

\* While a version is being retired, it is not the default.
RetiringInv ==
    pc \in {"retiring", "unloading"} =>
        \A v \in Versions : IsFirst(v, toRetire) => default # v

\* Every version number survives its conversion to int, as does 0 for none.
VersionsFitInt == \A v \in Versions \cup {0} : ToInt(v) = v

DefaultInv == StateInv /\ RetiringInv /\ DefaultNotRetired

\* A list has at most one first version.
LEMMA FirstIsUnique ==
    ASSUME NEW S, NEW v \in Versions, NEW w \in Versions,
           IsFirst(v, S), IsFirst(w, S)
    PROVE  v = w
BY VersionsAssumption DEF IsFirst

\* updateDefaultVersion chooses an available version, not the ignored one, or
\* none.
LEMMA UpdateChoosesAvailable ==
    ASSUME NEW ignored, UpdateDefault(ignored)
    PROVE  /\ default' \in Versions \cup {0}
           /\ default' # 0 => vstate[default'] = "available"
           /\ default' # 0 /\ ToInt(ignored) = ignored => default' # ignored
BY DEF UpdateDefault, IsHighest, Available

\* The steps that load, reload, retire or clean up one version keep the
\* invariant.
LEMMA StepKeepsDefault ==
    ASSUME VersionsFitInt, DefaultInv, NEW v \in Versions, ApplicationStep(v)
    PROVE  DefaultInv'
<1> USE VersionsAssumption DEF DefaultInv, StateInv, RetiringInv,
                               DefaultNotRetired, VersionStates, SetState,
                               states
<1>1. CASE AddVersion(v) \/ AddSucceeds(v) \/ AddFails(v)
  BY <1>1 DEF AddVersion, AddSucceeds, AddFails, lists
<1>2. CASE ReloadVersion(v) \/ ReloadSucceeds(v) \/ ReloadFails(v)
  BY <1>2 DEF ReloadVersion, ReloadSucceeds, ReloadFails, lists
<1>3. CASE AddUpdatesDefault(v) \/ ReloadUpdatesDefault(v)
           \/ CleanupUpdatesDefault(v) \/ RetireAllUpdatesDefault(v)
           \/ CleanupAllUpdatesDefault(v)
  BY <1>3, UpdateChoosesAvailable
     DEF AddUpdatesDefault, ReloadUpdatesDefault, CleanupUpdatesDefault,
         RetireAllUpdatesDefault, CleanupAllUpdatesDefault
<1>4. CASE RetireUpdatesDefault(v)
  <2>1. default' # v
    BY <1>4, UpdateChoosesAvailable, VersionsFitInt
       DEF RetireUpdatesDefault, VersionsFitInt
  <2>2. ASSUME NEW w \in Versions, IsFirst(w, toRetire)'
        PROVE  default' # w
    BY <1>4, <2>1, <2>2, FirstIsUnique
       DEF RetireUpdatesDefault, lists, IsFirst
  <2> QED
    BY <1>4, <2>2, UpdateChoosesAvailable DEF RetireUpdatesDefault
<1>5. CASE RetireVersion(v)
  BY <1>5 DEF RetireVersion, lists, IsFirst
<1>6. CASE RetireEnds(v)
  BY <1>6 DEF RetireEnds
<1>7. CASE CleanupFailedLoad(v) \/ CleanupAllNext(v)
  BY <1>7 DEF CleanupFailedLoad, CleanupAllNext
<1>8. CASE RetireAllNext(v) \/ RetireAllUnloaded(v)
  BY <1>8 DEF RetireAllNext, RetireAllUnloaded
<1> QED
  BY <1>1, <1>2, <1>3, <1>4, <1>5, <1>6, <1>7, <1>8 DEF ApplicationStep

\* No step breaks the invariant.
LEMMA NextKeepsDefault ==
    ASSUME VersionsFitInt, DefaultInv, [Next]_vars
    PROVE  DefaultInv'
<1> USE DEF DefaultInv, StateInv, RetiringInv, DefaultNotRetired, served, states
<1>1. CASE Environment
  BY <1>1 DEF Environment, VersionAppearsOrGoes, FilesChange,
              BlacklistChanges, ConfigurationChanges, EnvironmentChanges
<1>2. CASE Choice
  BY <1>2 DEF Choice, ReloadModelWithVersions, RetireAllVersions,
              CleanupAllVersions
<1>3. CASE ListDone
  BY <1>3 DEF ListDone, AllAdded, AddFallsBack, AllReloaded,
              ApplicationEnds, AllVersionsGone
<1>4. CASE \E v \in Versions : ApplicationStep(v)
  BY <1>4, StepKeepsDefault
<1>5. CASE \E v \in Versions : RequestStep(v)
  BY <1>5 DEF RequestStep, AsksForShape, StartsReshape, EndsReshape,
              VersionStates, lists, IsFirst
<1>6. CASE UNCHANGED vars
  BY <1>6 DEF vars, lists, IsFirst
<1> QED
  BY <1>1, <1>2, <1>3, <1>4, <1>5, <1>6 DEF Next, Application

\* retireVersions moves the default version before it retires it, so a request
\* without a version never gets one that is being or has been retired while
\* others remain; for every set of versions that fit the int parameter of
\* updateDefaultVersion.
THEOREM DefaultOutlivesRetirement ==
    ASSUME VersionsFitInt
    PROVE  Spec => []DefaultNotRetired
<1>1. Init => DefaultInv
  BY DEF Init, DefaultInv, StateInv, RetiringInv, DefaultNotRetired,
         VersionStates
<1>2. DefaultInv /\ [Next]_vars => DefaultInv'
  BY NextKeepsDefault
<1>3. DefaultInv => DefaultNotRetired
  BY DEF DefaultInv
<1> QED
  BY <1>1, <1>2, <1>3, PTL DEF Spec

-----------------------------------------------------------------------------
(* Searching the directories *)

\* Every nonempty set of numbers has a least one.
LEMMA LeastOf ==
    ASSUME NEW T \in SUBSET Nat, T # {}
    PROVE  \E m \in T : \A k \in T : m <= k
<1> DEFINE R == OpToRel(<, Nat)
<1>1. IsWellFoundedOn(R, Nat)
  BY NatLessThanWellFounded
<1>2. \A k, m \in Nat : k < m => <<k, m>> \in R
  BY DEF OpToRel
<1> HIDE DEF R
<1>3. PICK m \in T : \A k \in T : ~ (<<k, m>> \in R)
  BY <1>1, WFMin
<1>4. ASSUME NEW k \in T PROVE m <= k
  <2>1. k \in Nat /\ m \in Nat
    OBVIOUS
  <2>2. ~ (k < m)
    BY <2>1, <1>2, <1>3, Zenon
  <2> QED BY <2>1, <2>2
<1> QED
  BY <1>4

\* f is what the recursion from b by g defines on 0 .. n.
Recursive(f, n, S, b, g) ==
    /\ f \in [0 .. n -> S]
    /\ f[0] = b
    /\ \A i \in 1 .. n : f[i] = g[<<i, f[i - 1]>>]

\* A recursion over an interval defines a function.
LEMMA RecursionDefines ==
    ASSUME NEW n \in Nat, NEW S, NEW b \in S, NEW g \in [(1 .. n) \X S -> S]
    PROVE  \E f : Recursive(f, n, S, b, g)
<1> DEFINE Good(k, f) ==
              /\ f \in [0 .. k -> S]
              /\ f[0] = b
              /\ \A i \in 1 .. k : f[i] = g[<<i, f[i - 1]>>]
           Bad == {k \in 0 .. n : ~ \E f : Good(k, f)}
<1>1. SUFFICES ASSUME Bad # {} PROVE FALSE
  <2>1. n \in 0 .. n
    OBVIOUS
  <2>2. (\E f : Good(n, f)) => \E f : Recursive(f, n, S, b, g)
    BY DEF Recursive
  <2> HIDE DEF Good
  <2> QED BY <2>1, <2>2, Zenon
<1>2. PICK k \in Bad : \A j \in Bad : k <= j
  <2>1. Bad \in SUBSET Nat
    OBVIOUS
  <2> HIDE DEF Bad
  <2> QED BY <1>1, <2>1, LeastOf
<1>3. k # 0
  <2> SUFFICES ASSUME k = 0 PROVE FALSE
    OBVIOUS
  <2> DEFINE f == [i \in 0 .. 0 |-> b]
  <2>1. Good(0, f)
    OBVIOUS
  <2> QED BY <2>1
<1>4. PICK f : Good(k - 1, f)
  BY <1>2, <1>3
<1> DEFINE h == [i \in 0 .. k |-> IF i < k THEN f[i] ELSE g[<<k, f[k - 1]>>]]
<1>5. h \in [0 .. k -> S]
  <2>1. \A i \in 0 .. k : i < k => f[i] \in S
    BY <1>2, <1>3, <1>4
  <2>2. g[<<k, f[k - 1]>>] \in S
    <3>1. k \in 1 .. n /\ f[k - 1] \in S
      BY <1>2, <1>3, <2>1
    <3> QED BY <3>1
  <2> QED BY <2>1, <2>2
<1>6. Good(k, h)
  <2>1. h[0] = b
    BY <1>3, <1>4, <1>2
  <2>2. ASSUME NEW i \in 1 .. k
        PROVE  h[i] = g[<<i, h[i - 1]>>]
    <3>2. CASE i < k
      <4>1. h[i] = f[i] /\ h[i - 1] = f[i - 1]
        BY <3>2, <1>2
      <4>2. f[i] = g[<<i, f[i - 1]>>]
        BY <3>2, <1>4, <1>2
      <4> QED BY <4>1, <4>2
    <3>3. CASE i = k
      <4>1. h[i - 1] = f[k - 1] /\ h[i] = g[<<k, f[k - 1]>>]
        BY <3>3, <1>2, <1>3
      <4> QED BY <3>3, <4>1
    <3> QED BY <3>2, <3>3, <1>2
  <2> QED BY <2>1, <2>2, <1>5
<1> QED BY <1>2, <1>6

IsSorted(s) == \A i, j \in DOMAIN s : i < j => s[i] < s[j]

\* A listing is complete, and sorted if the versions are listed in order.
LEMMA ListedIsSorted ==
    ASSUME NEW A \in SUBSET Versions, ListedInOrder(A)
    PROVE  /\ Listed(A) \in Seq(Versions)
           /\ IsSorted(Listed(A))
           /\ \A v \in A : \E i \in DOMAIN Listed(A) : Listed(A)[i] = v
<1> DEFINE n == Len(DirOrder)
           IsList(l) == l = [i \in 0 .. n |->
                IF i = 0 THEN <<>>
                ELSE IF DirOrder[i] \in A THEN Append(l[i - 1], DirOrder[i])
                                          ELSE l[i - 1]]
           list == CHOOSE l : IsList(l)
           g == [x \in (1 .. n) \X Seq(Versions) |->
                    IF DirOrder[x[1]] \in A THEN Append(x[2], DirOrder[x[1]]) ELSE x[2]]
<1>0. n \in Nat /\ DOMAIN DirOrder = 1 .. n /\ \A i \in 1 .. n : DirOrder[i] \in Versions
  BY DirOrderAssumption
<1>1. PICK l : IsList(l)
  <2>1. g \in [(1 .. n) \X Seq(Versions) -> Seq(Versions)]
    BY <1>0
  <2>2. <<>> \in Seq(Versions)
    OBVIOUS
  <2> HIDE DEF g
  <2>3. PICK l : Recursive(l, n, Seq(Versions), <<>>, g)
    <3> HIDE DEF n
    <3> QED BY <1>0, <2>1, <2>2, RecursionDefines, Zenon
  <2>7. l \in [0 .. n -> Seq(Versions)]
    BY <2>3 DEF Recursive
  <2>4. \A i \in 1 .. n : g[<<i, l[i - 1]>>] =
            IF DirOrder[i] \in A THEN Append(l[i - 1], DirOrder[i]) ELSE l[i - 1]
    <3> TAKE i \in 1 .. n
    <3>1. i - 1 \in 0 .. n
      BY <1>0
    <3>2. l[i - 1] \in Seq(Versions)
      BY <3>1, <2>7
    <3>3. <<i, l[i - 1]>> \in (1 .. n) \X Seq(Versions)
      BY <3>2
    <3> QED BY <3>3 DEF g
  <2>5. ASSUME NEW i \in 0 .. n
        PROVE  l[i] = IF i = 0 THEN <<>>
                ELSE IF DirOrder[i] \in A THEN Append(l[i - 1], DirOrder[i])
                                          ELSE l[i - 1]
    <3> HIDE DEF n
    <3>1. l[0] = <<>> /\ \A j \in 1 .. n : l[j] = g[<<j, l[j - 1]>>]
      BY <2>3 DEF Recursive
    <3>2. i = 0 \/ i \in 1 .. n
      BY <1>0
    <3>3. 0 \notin 1 .. n
      OBVIOUS
    <3> QED BY <3>1, <3>2, <3>3, <2>4, Zenon
  <2>6. IsList(l)
    BY <2>7, <2>5
  <2> QED BY <2>6
<1>2. IsList(list)
  <2> HIDE DEF IsList
  <2> QED BY <1>1
<1>3. Listed(A) = list[n]
  BY DEF Listed
<1>L. /\ list[0] = <<>>
      /\ \A i \in 1 .. n :
           list[i] = IF DirOrder[i] \in A THEN Append(list[i - 1], DirOrder[i])
                                          ELSE list[i - 1]
  <2> HIDE DEF list, n
  <2>1. \A i \in 0 .. n : list[i] = IF i = 0 THEN <<>>
                ELSE IF DirOrder[i] \in A THEN Append(list[i - 1], DirOrder[i])
                                          ELSE list[i - 1]
    BY <1>2, Zenon
  <2> QED BY <2>1, <1>0
<1> HIDE DEF list, n
<1> DEFINE P(i) ==
        /\ list[i] \in Seq(Versions)
        /\ \A k \in 1 .. Len(list[i]) :
                \E j \in 1 .. i : list[i][k] = DirOrder[j] /\ DirOrder[j] \in A
        /\ IsSorted(list[i])
        /\ \A j \in 1 .. i : DirOrder[j] \in A =>
              \E k \in 1 .. Len(list[i]) : list[i][k] = DirOrder[j]
<1>4. P(0)
  BY <1>L, <1>0 DEF IsSorted
<1>5. ASSUME NEW i \in 1 .. n, P(i - 1) PROVE P(i)
  <2>1. CASE DirOrder[i] \notin A
    <3>1. list[i] = list[i - 1]
      BY <1>L, <2>1, <1>0
    <3>2. \A j \in 1 .. i : j # i => j \in 1 .. i - 1
      BY <1>0
    <3>3. \A j \in 1 .. i - 1 : j \in 1 .. i
      BY <1>0
    <3> QED BY <3>1, <3>2, <3>3, <1>5, <2>1
  <2>2. CASE DirOrder[i] \in A
    <3> DEFINE a == list[i - 1]
               d == DirOrder[i]
    <3>1. list[i] = Append(a, d)
      BY <1>L, <2>2, <1>0
    <3>2. a \in Seq(Versions) /\ d \in Versions
      BY <1>5, <1>0
    <3>3. \A k \in 1 .. Len(a) : a[k] < d
      <4> TAKE k \in 1 .. Len(a)
      <4>1. PICK j \in 1 .. i - 1 : a[k] = DirOrder[j] /\ DirOrder[j] \in A
        BY <1>5
      <4>2. j \in DOMAIN DirOrder /\ i \in DOMAIN DirOrder /\ j < i
        BY <4>1, <1>0
      <4> QED BY <4>1, <4>2, <2>2 DEF ListedInOrder
    <3>4. P(i - 1)
      BY <1>5
    <3> HIDE DEF a, d
    <3>5. /\ Len(Append(a, d)) = Len(a) + 1
          /\ Append(a, d) \in Seq(Versions)
          /\ Append(a, d)[Len(a) + 1] = d
          /\ \A k \in 1 .. Len(a) : Append(a, d)[k] = a[k]
          /\ DOMAIN a = 1 .. Len(a)
          /\ DOMAIN Append(a, d) = 1 .. Len(a) + 1
          /\ Len(a) \in Nat
      BY <3>2
    <3>6. IsSorted(a)
      BY <3>4 DEF a
    <3>7. IsSorted(Append(a, d))
      BY <3>3, <3>5, <3>6, <3>2, VersionsAssumption DEF IsSorted
    <3>8. \A k \in 1 .. Len(a) + 1 :
              \E j \in 1 .. i : Append(a, d)[k] = DirOrder[j] /\ DirOrder[j] \in A
      <4> TAKE k \in 1 .. Len(a) + 1
      <4>1. CASE k = Len(a) + 1
        BY <4>1, <3>5, <1>0, <2>2 DEF d
      <4>2. CASE k \in 1 .. Len(a)
        <5>1. PICK j \in 1 .. i - 1 : a[k] = DirOrder[j] /\ DirOrder[j] \in A
          BY <4>2, <3>4 DEF a
        <5>2. j \in 1 .. i
          BY <1>0
        <5> QED BY <5>1, <5>2, <4>2, <3>5
      <4> QED BY <4>1, <4>2, <3>5
    <3>9. \A j \in 1 .. i : DirOrder[j] \in A =>
              \E k \in 1 .. Len(a) + 1 : Append(a, d)[k] = DirOrder[j]
      <4> TAKE j \in 1 .. i
      <4>1. CASE j = i
        BY <4>1, <3>5 DEF d
      <4>2. CASE j \in 1 .. i - 1
        <5>1. DirOrder[j] \in A => \E k \in 1 .. Len(a) : a[k] = DirOrder[j]
          BY <4>2, <3>4 DEF a
        <5> QED BY <5>1, <3>5
      <4>3. j = i \/ j \in 1 .. i - 1
        BY <1>0
      <4> QED BY <4>1, <4>2, <4>3
    <3>10. Len(Append(a, d)) = Len(a) + 1 /\ list[i] = Append(a, d)
      BY <3>5, <3>1 DEF a, d
    <3> QED BY <3>10, <3>5, <3>7, <3>8, <3>9
  <2> QED BY <2>1, <2>2
<1>6. P(n)
  <2> DEFINE Bad == {i \in 0 .. n : ~ P(i)}
  <2> HIDE DEF P
  <2>1. SUFFICES Bad = {}
    <3> HIDE DEF n
    <3>1. n \in 0 .. n
      BY <1>0
    <3> QED BY <3>1, Zenon
  <2>2. SUFFICES ASSUME Bad # {} PROVE FALSE
    OBVIOUS
  <2>3. PICK i \in Bad : \A j \in Bad : i <= j
    <3>1. Bad \in SUBSET Nat
      OBVIOUS
    <3> HIDE DEF Bad
    <3> QED BY <2>2, <3>1, LeastOf
  <2>4. i # 0
    BY <1>4, <2>3
  <2>5. i \in 1 .. n /\ P(i - 1)
    BY <2>3, <2>4, <1>0
  <2> QED BY <2>5, <1>5, <2>3
<1>7. \A v \in A : \E k \in DOMAIN list[n] : list[n][k] = v
  <2> TAKE v \in A
  <2>1. PICK j \in 1 .. n : DirOrder[j] = v
    BY <1>0, DirOrderAssumption
  <2>2. PICK k \in 1 .. Len(list[n]) : list[n][k] = DirOrder[j]
    BY <1>6, <2>1
  <2>3. DOMAIN list[n] = 1 .. Len(list[n])
    BY <1>6
  <2> QED BY <2>1, <2>2, <2>3
<1> QED
  BY <1>6, <1>3, <1>7

\* Bisection of the len elements of s from first on.
Bisection(bound, len, s, v) ==
    [first \in 1 .. Len(s) + 1 - len |->
        IF len = 0 THEN first
        ELSE IF s[first + len \div 2] < v
             THEN bound[len - len \div 2 - 1][first + len \div 2 + 1]
             ELSE bound[len \div 2][first]]

\* The middle of a range of a list is in the list.
LEMMA HalfInside ==
    ASSUME NEW n \in Nat, NEW len \in 0 .. n, NEW first \in 1 .. n + 1 - len,
           NEW half \in 0 .. len - 1
    PROVE  first + half \in 1 .. n /\ half \in Nat
OBVIOUS

\* Both halves of a bisection are shorter.
LEMMA Halves ==
    ASSUME NEW len \in Nat, len > 0
    PROVE  /\ len \div 2 \in 0 .. len - 1
           /\ len - len \div 2 - 1 \in 0 .. len - 1
OBVIOUS

\* The recursion of the bisection defines a function: each of its values
\* depends on those of shorter ranges.
LEMMA BisectionDefines ==
    ASSUME NEW s \in Seq(Nat), NEW v \in Nat
    PROVE  \E f : f = [len \in 0 .. Len(s) |-> Bisection(f, len, s, v)]
<1> DEFINE n == Len(s)
           Good(k, f) == f = [len \in 0 .. k |-> Bisection(f, len, s, v)]
           Bad == {k \in 0 .. n : ~ \E f : Good(k, f)}
<1>0. n \in Nat
  OBVIOUS
<1> HIDE DEF n
<1>1. SUFFICES ASSUME Bad # {} PROVE FALSE
  <2>1. n \in 0 .. n
    BY <1>0
  <2>2. (\E f : Good(n, f)) => \E f : f = [len \in 0 .. Len(s) |-> Bisection(f, len, s, v)]
    BY DEF n
  <2> HIDE DEF Good
  <2> QED BY <2>1, <2>2, Zenon
<1>2. PICK k \in Bad : \A j \in Bad : k <= j
  <2>1. Bad \in SUBSET Nat
    OBVIOUS
  <2> HIDE DEF Bad
  <2> QED BY <1>1, <2>1, LeastOf
<1>3. k \in 0 .. n /\ k \in Nat /\ ~ \E f : Good(k, f)
  BY <1>2
<1>4. \E f : \A len \in 0 .. k - 1 : f[len] = Bisection(f, len, s, v)
  <2>1. CASE k = 0
    BY <2>1
  <2>2. CASE k # 0
    <3>1. k - 1 \in 0 .. n
      BY <1>3, <1>0, <2>2
    <3>2. k - 1 \notin Bad
      BY <1>2, <1>3
    <3>3. PICK f : Good(k - 1, f)
      <4> HIDE DEF Good
      <4> QED BY <3>1, <3>2
    <3>4. \A len \in 0 .. k - 1 : f[len] = Bisection(f, len, s, v)
      <4> DEFINE B(x) == Bisection(f, x, s, v)
      <4> HIDE DEF B
      <4>1. f = [len \in 0 .. k - 1 |-> B(len)]
        BY <3>3 DEF B
      <4>2. \A len \in 0 .. k - 1 : f[len] = B(len)
        BY <4>1
      <4> QED BY <4>2 DEF B
    <3> QED BY <3>4
  <2> QED BY <2>1, <2>2
<1>5. PICK f : \A len \in 0 .. k - 1 : f[len] = Bisection(f, len, s, v)
  BY <1>4
<1> DEFINE h == [len \in 0 .. k |-> IF len < k THEN f[len] ELSE Bisection(f, k, s, v)]
<1>6. ASSUME NEW len \in 0 .. k PROVE Bisection(h, len, s, v) = Bisection(f, len, s, v)
  <2>1. CASE len = 0
    BY <2>1 DEF Bisection
  <2>2. CASE len # 0
    <3>1. len \div 2 \in 0 .. k - 1 /\ len - len \div 2 - 1 \in 0 .. k - 1
      BY <2>2, <1>3, Halves
    <3>2. \A m \in 0 .. k - 1 : h[m] = f[m]
      BY <1>3
    <3> HIDE DEF h
    <3> DEFINE a == len \div 2
               c == len - len \div 2 - 1
    <3>3. h[a] = f[a] /\ h[c] = f[c]
      BY <3>1, <3>2
    <3>4. Bisection(h, len, s, v) =
            [first \in 1 .. Len(s) + 1 - len |->
               IF len = 0 THEN first
               ELSE IF s[first + a] < v THEN h[c][first + a + 1] ELSE h[a][first]]
      BY Zenon DEF Bisection
    <3>5. Bisection(f, len, s, v) =
            [first \in 1 .. Len(s) + 1 - len |->
               IF len = 0 THEN first
               ELSE IF s[first + a] < v THEN f[c][first + a + 1] ELSE f[a][first]]
      BY Zenon DEF Bisection
    <3> QED BY <3>3, <3>4, <3>5
  <2> QED BY <2>1, <2>2
<1>7. Good(k, h)
  <2> DEFINE B(x) == Bisection(f, x, s, v)
             C(x) == Bisection(h, x, s, v)
  <2>1. \A len \in 0 .. k : C(len) = B(len)
    BY <1>6
  <2>2. \A len \in 0 .. k - 1 : f[len] = B(len)
    BY <1>5
  <2>3. h = [len \in 0 .. k |-> IF len < k THEN f[len] ELSE B(k)]
    OBVIOUS
  <2> HIDE DEF B, C, h
  <2>4. h = [len \in 0 .. k |-> B(len)]
    BY <2>2, <2>3, <1>3
  <2>5. h = [len \in 0 .. k |-> C(len)]
    BY <2>1, <2>4
  <2> QED BY <2>5 DEF C
<1> QED BY <1>7, <1>3

\* b is the position, among the len elements of s from first on, of the first
\* that is at least v.
IsLowerBound(b, s, v, first, len) ==
    /\ b \in first .. first + len
    /\ \A i \in first .. b - 1 : s[i] < v
    /\ \A i \in b .. first + len - 1 : v <= s[i]

\* std::lower_bound finds the first element that is at least v in a sorted
\* list.
LEMMA LowerBoundOfSorted ==
    ASSUME NEW s \in Seq(Nat), IsSorted(s), NEW v \in Nat
    PROVE  IsLowerBound(LowerBound(s, v), s, v, 1, Len(s))
<1> DEFINE n == Len(s)
           IsBound(f) == f = [len \in 0 .. Len(s) |-> Bisection(f, len, s, v)]
           bound == CHOOSE f : IsBound(f)
<1>0. n \in Nat /\ DOMAIN s = 1 .. n /\ \A i \in 1 .. n : s[i] \in Nat
  OBVIOUS
<1>1. IsBound(bound)
  <2>1. \E f : IsBound(f)
    BY BisectionDefines
  <2> HIDE DEF IsBound
  <2> QED BY <2>1
<1>2. LowerBound(s, v) = bound[n][1]
  BY DEF LowerBound, Bisection
<1>3. \A len \in 0 .. n : bound[len] = Bisection(bound, len, s, v)
  <2> DEFINE B(x) == Bisection(bound, x, s, v)
  <2>1. bound = [len \in 0 .. n |-> B(len)]
    BY <1>1
  <2> HIDE DEF B, bound, n
  <2>2. \A len \in 0 .. n : bound[len] = B(len)
    BY <2>1
  <2> QED BY <2>2 DEF B
<1> HIDE DEF bound, n
<1> DEFINE Q(len) == \A first \in 1 .. n + 1 - len :
                        IsLowerBound(bound[len][first], s, v, first, len)
           Bad == {len \in 0 .. n : ~ Q(len)}
<1>4. Bad = {}
  <2>1. SUFFICES ASSUME Bad # {} PROVE FALSE
    OBVIOUS
  <2>2. PICK len \in Bad : \A j \in Bad : len <= j
    <3>1. Bad \in SUBSET Nat
      BY <1>0
    <3> HIDE DEF Bad
    <3> QED BY <2>1, <3>1, LeastOf
  <2>3. len \in 0 .. n /\ ~ Q(len) /\ len \in Nat
    <3> HIDE DEF Q
    <3>1. len \in 0 .. n /\ ~ Q(len)
      OBVIOUS
    <3> QED BY <3>1, <1>0
  <2>4. \A j \in 0 .. len - 1 : Q(j)
    <3> TAKE j \in 0 .. len - 1
    <3>1. j \in 0 .. n /\ ~ (len <= j)
      BY <2>3, <1>0
    <3>2. j \notin Bad
      BY <2>2, <3>1
    <3> HIDE DEF Q
    <3> QED BY <3>1, <3>2
  <2>5. PICK first \in 1 .. n + 1 - len :
            ~ IsLowerBound(bound[len][first], s, v, first, len)
    BY <2>3
  <2> DEFINE b == bound[len][first]
             half == len \div 2
  <2>6. b = IF len = 0 THEN first
            ELSE IF s[first + half] < v THEN bound[len - half - 1][first + half + 1]
                 ELSE bound[half][first]
    <3>1. bound[len] = Bisection(bound, len, s, v)
      BY <2>3, <1>3
    <3>2. first \in 1 .. Len(s) + 1 - len
      BY DEF n
    <3> QED BY <3>1, <3>2 DEF Bisection
  <2>7. len # 0
    BY <2>5, <2>6 DEF IsLowerBound
  <2>8. half \in 0 .. len - 1 /\ len - half - 1 \in 0 .. len - 1
    BY <2>3, <2>7, Halves
  <2>9. Q(half) /\ Q(len - half - 1)
    BY <2>4, <2>8
  <2> HIDE DEF b, half
  <2>10. first + half \in 1 .. n /\ half \in Nat
    <3>1. n \in Nat /\ len \in 0 .. n /\ first \in 1 .. n + 1 - len
      BY <2>3, <1>0
    <3>2. half \in 0 .. len - 1
      BY <2>8
    <3> QED
      BY <3>1, <3>2, HalfInside
  <2>11. \A i, j \in 1 .. n : i < j => s[i] < s[j]
    BY <1>0 DEF IsSorted
  <2>14. ASSUME NEW i \in 1 .. n, NEW j \in 1 .. n, i <= j PROVE s[i] <= s[j]
    <3>1. CASE i = j
      BY <3>1, <1>0
    <3>2. CASE i < j
      BY <3>2, <1>0, <2>11
    <3> QED BY <3>1, <3>2, <2>14, <1>0
  <2>12. CASE s[first + half] < v
    <3>1. b = bound[len - half - 1][first + half + 1]
      BY <2>6, <2>7, <2>12
    <3>2. first + half + 1 \in 1 .. n + 1 - (len - half - 1)
      BY <2>8, <2>3, <1>0
    <3>3. IsLowerBound(b, s, v, first + half + 1, len - half - 1)
      BY <3>1, <3>2, <2>9
    <3>4. b \in first .. first + len /\ b \in first + half + 1 .. first + len
      BY <3>3, <2>10, <2>3, <2>8, <1>0 DEF IsLowerBound
    <3>5. ASSUME NEW i \in first .. b - 1 PROVE s[i] < v
      <4>1. CASE i \in first + half + 1 .. b - 1
        BY <4>1, <3>3 DEF IsLowerBound
      <4>2. CASE i <= first + half
        <5>1. i \in 1 .. n
          BY <2>10, <4>2, <1>0, <3>4, <2>3
        <5>2. s[i] <= s[first + half]
          BY <5>1, <2>10, <2>14, <4>2, <1>0
        <5>3. s[first + half] \in Int /\ s[i] \in Int /\ v \in Int
          BY <5>1, <2>10, <1>0
        <5> QED BY <5>2, <5>3, <2>12
      <4> QED BY <4>1, <4>2, <3>4, <2>10, <2>3
    <3>6. ASSUME NEW i \in b .. first + len - 1 PROVE v <= s[i]
      <4>1. i \in b .. (first + half + 1) + (len - half - 1) - 1
        BY <2>10, <2>3
      <4> QED BY <4>1, <3>3 DEF IsLowerBound
    <3> QED BY <3>4, <3>5, <3>6, <2>5 DEF IsLowerBound, b
  <2>13. CASE ~ (s[first + half] < v)
    <3>1. b = bound[half][first]
      BY <2>6, <2>7, <2>13
    <3>2. first \in 1 .. n + 1 - half
      BY <2>8, <2>3, <1>0
    <3>3. IsLowerBound(b, s, v, first, half)
      BY <3>1, <3>2, <2>9
    <3>4. b \in first .. first + half /\ b \in first .. first + len
      BY <3>3, <2>10, <2>3, <2>8, <1>0 DEF IsLowerBound
    <3>5. \A i \in first .. b - 1 : s[i] < v
      BY <3>3 DEF IsLowerBound
    <3>6. ASSUME NEW i \in b .. first + len - 1 PROVE v <= s[i]
      <4>1. CASE i \in b .. first + half - 1
        BY <4>1, <3>3 DEF IsLowerBound
      <4>2. CASE i >= first + half
        <5>1. i \in 1 .. n
          BY <2>10, <4>2, <1>0, <3>4, <2>3
        <5>2. s[first + half] <= s[i]
          BY <5>1, <2>10, <2>14, <4>2, <1>0
        <5>3. s[first + half] \in Int /\ s[i] \in Int /\ v \in Int
          BY <5>1, <2>10, <1>0
        <5> QED BY <5>2, <5>3, <2>13
      <4> QED BY <4>1, <4>2, <3>4, <2>10, <2>3
    <3> QED BY <3>4, <3>5, <3>6, <2>5 DEF IsLowerBound, b
  <2> QED BY <2>12, <2>13
<1>5. Q(n)
  <2>1. n \in 0 .. n /\ n \notin Bad
    BY <1>0, <1>4
  <2> HIDE DEF Q
  <2> QED BY <2>1
<1>6. 1 \in 1 .. n + 1 - n
  BY <1>0
<1> QED
  BY <1>5, <1>6, <1>2 DEF n

\* std::binary_search finds what a sorted list holds.
LEMMA SearchFinds ==
    ASSUME NEW s \in Seq(Nat), IsSorted(s), NEW i \in DOMAIN s
    PROVE  BinarySearch(s, s[i])
<1> DEFINE v == s[i]
           b == LowerBound(s, v)
<1>1. v \in Nat /\ Len(s) \in Nat /\ DOMAIN s = 1 .. Len(s)
        /\ \A j \in 1 .. Len(s) : s[j] \in Nat
  OBVIOUS
<1>2. IsLowerBound(b, s, v, 1, Len(s))
  BY <1>1, LowerBoundOfSorted
<1> HIDE DEF b
<1>3. b \in 1 .. i
  BY <1>1, <1>2 DEF IsLowerBound
<1>4. s[b] <= v
  <2>1. CASE b = i
    BY <2>1, <1>1
  <2>2. CASE b < i
    BY <2>2, <1>1, <1>3 DEF IsSorted
  <2> QED BY <2>1, <2>2, <1>3, <1>1
<1>5. b <= Len(s)
  BY <1>1, <1>3
<1> QED
  BY <1>4, <1>5 DEF BinarySearch, b

\* The binary search finds a failed version among available ones in order.
LEMMA WithoutRemoves ==
    ASSUME NEW rest \in SUBSET Versions, NEW v \in Versions, ListedInOrder(rest)
    PROVE  WithoutFailed(rest, v) = rest \ {v}
<1>1. CASE v \in rest
  <2> DEFINE s == Listed(rest)
  <2>1. s \in Seq(Versions) /\ IsSorted(s)
    BY ListedIsSorted
  <2>2. PICK i \in DOMAIN s : s[i] = v
    BY <1>1, ListedIsSorted
  <2> HIDE DEF s
  <2>3. s \in Seq(Nat)
    <3>1. Versions \subseteq Nat
      BY VersionsAssumption
    <3>2. Len(s) \in Nat /\ s \in [1 .. Len(s) -> Versions]
      BY <2>1
    <3>3. s \in [1 .. Len(s) -> Nat]
      BY <3>1, <3>2
    <3> QED BY <3>2, <3>3
  <2>4. BinarySearch(s, s[i])
    BY <2>1, <2>3, SearchFinds
  <2> QED BY <2>2, <2>4 DEF WithoutFailed, s
<1>2. CASE v \notin rest
  BY <1>2 DEF WithoutFailed
<1> QED BY <1>1, <1>2

\* Found or not, nothing else goes.
LEMMA WithoutBounds ==
    ASSUME NEW rest, NEW v
    PROVE  rest \ {v} \subseteq WithoutFailed(rest, v) /\ WithoutFailed(rest, v) \subseteq rest
BY DEF WithoutFailed

\* Some of a listing in order are in order.
LEMMA InOrderOfSome ==
    ASSUME NEW A, NEW B \in SUBSET A, ListedInOrder(A)
    PROVE  ListedInOrder(B)
BY DEF ListedInOrder

Failures == {failed[i] : i \in DOMAIN failed}

\* What is left after failures is what did not fail, and what the search
\* missed in a listing out of order.
LEMMA FailuresRemoved ==
    ASSUME available \in SUBSET Versions, failed \in Seq(Versions)
    PROVE  /\ available \ Failures \subseteq AfterFailures
           /\ AfterFailures \subseteq available
           /\ ListedInOrder(available) => AfterFailures = available \ Failures
<1> DEFINE n == Len(failed)
           IsLeft(f) == f = [i \in 0 .. Len(failed) |->
                IF i = 0 THEN available ELSE WithoutFailed(f[i - 1], failed[i])]
           left == CHOOSE f : IsLeft(f)
           S == SUBSET Versions
           g == [x \in (1 .. n) \X S |-> WithoutFailed(x[2], failed[x[1]])]
<1>0. n \in Nat /\ DOMAIN failed = 1 .. n /\ \A i \in 1 .. n : failed[i] \in Versions
  OBVIOUS
<1>1. IsLeft(left)
  <2>1. g \in [(1 .. n) \X S -> S]
    <3>1. ASSUME NEW x \in (1 .. n) \X S PROVE WithoutFailed(x[2], failed[x[1]]) \in S
      <4>1. x[2] \in SUBSET Versions /\ failed[x[1]] \in Versions
        BY <1>0
      <4> QED BY <4>1, WithoutBounds
    <3> QED BY <3>1
  <2> HIDE DEF g
  <2>2. PICK f : Recursive(f, n, S, available, g)
    <3> HIDE DEF n, S
    <3>1. n \in Nat /\ available \in S
      BY <1>0 DEF S
    <3> QED BY <3>1, <2>1, RecursionDefines, Zenon
  <2>3. /\ f \in [0 .. n -> S] /\ f[0] = available
        /\ \A i \in 1 .. n : f[i] = g[<<i, f[i - 1]>>]
    BY <2>2 DEF Recursive
  <2>4. ASSUME NEW i \in 1 .. n PROVE f[i] = WithoutFailed(f[i - 1], failed[i])
    <3>1. f[i - 1] \in S
      <4>1. i - 1 \in 0 .. n
        BY <1>0
      <4> HIDE DEF S, n
      <4> QED BY <4>1, <2>3
    <3>2. <<i, f[i - 1]>> \in (1 .. n) \X S
      BY <3>1
    <3>3. f[i] = g[<<i, f[i - 1]>>]
      BY <2>3
    <3> HIDE DEF S, n
    <3> QED BY <3>2, <3>3 DEF g
  <2>5. ASSUME NEW i \in 0 .. n
        PROVE  f[i] = IF i = 0 THEN available ELSE WithoutFailed(f[i - 1], failed[i])
    <3> HIDE DEF n
    <3>1. i = 0 \/ i \in 1 .. n
      BY <1>0
    <3>2. 0 \notin 1 .. n
      OBVIOUS
    <3> QED BY <3>1, <3>2, <2>3, <2>4, Zenon
  <2>6. IsLeft(f)
    <3> DEFINE B(i) == IF i = 0 THEN available ELSE WithoutFailed(f[i - 1], failed[i])
    <3>1. \A i \in 0 .. n : f[i] = B(i)
      BY <2>5
    <3> HIDE DEF B, S
    <3>2. f = [i \in 0 .. n |-> B(i)]
      BY <3>1, <2>3
    <3> QED BY <3>2 DEF B
  <2> HIDE DEF IsLeft
  <2> QED BY <2>6
<1>2. AfterFailures = left[n]
  BY DEF AfterFailures
<1>3. /\ left[0] = available
      /\ \A i \in 1 .. n : left[i] = WithoutFailed(left[i - 1], failed[i])
  <2> DEFINE B(i) == IF i = 0 THEN available ELSE WithoutFailed(left[i - 1], failed[i])
  <2>1. left = [i \in 0 .. n |-> B(i)]
    BY <1>1
  <2> HIDE DEF B, left, n
  <2>2. \A i \in 0 .. n : left[i] = B(i)
    BY <2>1
  <2>3. 0 \in 0 .. n /\ \A i \in 1 .. n : i \in 0 .. n /\ i # 0
    BY <1>0
  <2> QED BY <2>2, <2>3, Zenon DEF B
<1> HIDE DEF left, n
<1> DEFINE P(i) ==
        /\ available \ {failed[j] : j \in 1 .. i} \subseteq left[i]
        /\ left[i] \subseteq available
        /\ ListedInOrder(available) => left[i] = available \ {failed[j] : j \in 1 .. i}
           Bad == {i \in 0 .. n : ~ P(i)}
<1>4. Bad = {}
  <2>1. SUFFICES ASSUME Bad # {} PROVE FALSE
    OBVIOUS
  <2>2. PICK i \in Bad : \A j \in Bad : i <= j
    <3>1. Bad \in SUBSET Nat
      BY <1>0
    <3> HIDE DEF Bad
    <3> QED BY <2>1, <3>1, LeastOf
  <2>3. i # 0
    <3>1. P(0)
      BY <1>3
    <3> HIDE DEF P
    <3> QED BY <3>1, <2>2
  <2>4. i \in 1 .. n /\ i - 1 \in 0 .. n /\ ~ (i <= i - 1)
    BY <2>2, <2>3, <1>0
  <2>5. P(i - 1)
    <3>1. i - 1 \notin Bad
      BY <2>2, <2>4
    <3> HIDE DEF P
    <3> QED BY <3>1, <2>4
  <2>6. /\ left[i - 1] \ {failed[i]} \subseteq left[i] /\ left[i] \subseteq left[i - 1]
        /\ ListedInOrder(available) => left[i] = left[i - 1] \ {failed[i]}
    <3>1. left[i - 1] \in SUBSET Versions /\ left[i - 1] \in SUBSET available
      BY <2>5
    <3>2. left[i] = WithoutFailed(left[i - 1], failed[i]) /\ failed[i] \in Versions
      BY <2>4, <1>0, <1>3
    <3>3. ListedInOrder(available) => ListedInOrder(left[i - 1])
      BY <3>1, InOrderOfSome
    <3>4. left[i - 1] \ {failed[i]} \subseteq left[i] /\ left[i] \subseteq left[i - 1]
      BY <3>2, WithoutBounds
    <3>5. ListedInOrder(available) => left[i] = left[i - 1] \ {failed[i]}
      BY <3>1, <3>2, <3>3, WithoutRemoves
    <3> QED BY <3>4, <3>5
  <2>7. \A j : j \in 1 .. i <=> j \in 1 .. i - 1 \/ j = i
    BY <2>4, <1>0
  <2>8. P(i)
    BY <2>5, <2>6, <2>7
  <2> QED BY <2>8, <2>2
<1>5. P(n)
  <2>1. n \in 0 .. n
    BY <1>0
  <2> HIDE DEF P
  <2> QED BY <2>1, <1>4
<1> QED BY <1>5, <1>2, <1>0 DEF Failures

-----------------------------------------------------------------------------
(* The invariant of an application *)

Loading == {"add", "adding", "added", "reload", "reloading", "reloaded"}
Retiring == {"retire", "retiring", "unloading", "cleanup"}
Gone == {"all", "all_unloading", "all_ended", "clean_all", "all_cleaned"}

\* Requests reload registered versions, and none that failed in this
\* application, unless the application has failed to reload one.
RequestsInv ==
    /\ reshaping \subseteq byRequest
    /\ asked \cup byRequest \subseteq Registered
    /\ pc \in {"unloading", "all_unloading"} =>
            \A v \in Versions : IsFirst(v, toRetire) => v \notin byRequest
    /\ pc = "adding" =>
            \A v \in Versions : IsFirst(v, toStart) => v \notin asked \cup byRequest
    /\ \/ pc \in {"add", "adding", "added"}
       \/ pc \in Loading \cup Retiring /\ result = "OK"
       => (Failures \cup allFailed) \cap (asked \cup byRequest) = {}

\* What the lists of an application hold.
ListsInv ==
    /\ available \subseteq disk
    /\ toStart \cup toReload \subseteq available
    /\ toStart \cap toReload = {}
    /\ (Failures \cup allFailed) \cap (good \cup (Available \ byRequest)) = {}
    /\ ListedInOrder(disk) => available \cap allFailed = {}
    /\ pc \in Loading \cup Retiring =>
            disk \subseteq available \cup allFailed /\ toCleanup \subseteq allFailed
    /\ pc \notin Loading \cup Retiring =>
            available = {} /\ failed = <<>> /\ allFailed = {}

\* The status of the versions on the lists to start and to reload.
StatusInv ==
    /\ \A v \in Versions :
          \/ pc = "adding" /\ IsFirst(v, toStart)
          \/ pc = "reloading" /\ IsFirst(v, toReload)
          => vstate[v] = "loading" /\ v \notin byRequest
    /\ \A v \in Versions \ byRequest : vstate[v] = "loading" =>
            \/ pc = "adding" /\ IsFirst(v, toStart)
            \/ pc = "reloading" /\ IsFirst(v, toReload)
    /\ pc \in {"add", "adding", "added"} =>
            \A v \in toStart : \/ v \notin Registered
                               \/ pc # "add" /\ IsFirst(v, toStart)
    /\ pc \in {"reload", "reloading", "reloaded"} => toStart = {}
    /\ \A v \in Versions : \/ pc = "added" /\ IsFirst(v, toStart)
                           \/ pc = "reloaded" /\ IsFirst(v, toReload)
            => v \in Available \cup byRequest

\* What has been done of the lists to start and to reload.
LoadingInv ==
    /\ pc \in Loading =>
            /\ \A v \in Failures \ byRequest :
                    \/ vstate[v] = "failed"
                    \/ pc = "reloading" /\ IsFirst(v, toReload)
            /\ Requested(available) \subseteq
                    toStart \cup toReload \cup Failures \cup Available \cup byRequest
    /\ pc \in {"reload", "reloading", "reloaded"} /\ result = "OK" => failed = <<>>

\* What is served while versions are retired.
RetireInv ==
    /\ pc \in Retiring =>
            /\ (toRetire \cup toCleanup) \cap Requested(available) = {}
            /\ Available \ byRequest \subseteq Requested(available) \cup toRetire
            /\ result = "OK" => Requested(available) \subseteq Available \cup byRequest
    /\ pc \in Gone => result = "none"

\* The default version failed to reload, and the binary search missed it.
DefaultIsStuck ==
    default # 0 /\ vstate[default] = "failed" /\ ~ ListedInOrder(Versions)

\* The default version is the highest one, but for the version being worked on
\* and those in the hands of requests.
HighestInv ==
    /\ \/ default \in Available \cup byRequest \cup {0}
       \/ DefaultIsStuck
       \/ pc \in {"reload", "reloading", "reloaded"} /\ default \in Failures
       \/ pc = "reloading" /\ IsFirst(default, toReload)
       \/ pc = "retire" /\ default \in toCleanup
       \/ pc \in {"all_unloading", "all_ended"} /\ IsFirst(default, toRetire)
       \/ pc = "all_cleaned" /\ IsFirst(default, toCleanup)
    /\ \A v \in Versions : \/ pc \in {"retiring", "unloading"} /\ IsFirst(v, toRetire)
                           \/ pc = "cleanup" /\ IsFirst(v, toCleanup)
            => default # v
    /\ \A v \in Available \ byRequest :
            \/ v <= default
            \/ pc = "added" /\ IsFirst(v, toStart)
            \/ pc = "reloaded" /\ IsFirst(v, toReload)
            \/ pc = "retiring" /\ IsFirst(v, toRetire)

\* What an application that ended well has served: the policy's choice among
\* directories that had every version that loads.
Served(A) ==
    /\ {v \in disk : v \in good \cup asked \cup byRequest \cup Available} \subseteq A
    /\ Filter(policy, A) \subseteq Available \cup byRequest
    /\ Available \ byRequest \subseteq Filter(policy, A)

OkInv ==
    pc = "idle" /\ result = "OK" /\ blacklist = {} =>
        \E A \in SUBSET disk : Served(A)

PolicyInv ==
    /\ TypeOK
    /\ RequestsInv
    /\ ListsInv
    /\ StatusInv
    /\ LoadingInv
    /\ RetireInv
    /\ HighestInv
    /\ OkInv

\* A policy chooses among the versions there are.
LEMMA FilterChooses ==
    ASSUME NEW p \in Policies, NEW S
    PROVE  Filter(p, S) \subseteq S
<1>1. p.kind \in {"all", "latest", "specific"}
  BY PoliciesAssumption
<1>2. CASE p.kind = "all"
  BY <1>2 DEF Filter
<1>3. CASE p.kind = "latest"
  BY <1>3 DEF Filter
<1>4. CASE p.kind = "specific"
  BY <1>4 DEF Filter
<1> QED BY <1>1, <1>2, <1>3, <1>4

\* A version that fails is one of the failures.
LEMMA FailureAppended ==
    ASSUME failed \in Seq(Versions), NEW v \in Versions,
           failed' = Append(failed, v)
    PROVE  Failures' = Failures \cup {v} /\ failed' \in Seq(Versions) /\ failed' # <<>>
<1>1. /\ Len(failed) \in Nat /\ DOMAIN failed = 1 .. Len(failed)
      /\ DOMAIN failed' = 1 .. Len(failed) + 1
      /\ \A i \in 1 .. Len(failed) : failed'[i] = failed[i]
      /\ failed'[Len(failed) + 1] = v
      /\ failed' \in Seq(Versions) /\ failed' # <<>>
  OBVIOUS
<1>2. \A i : i \in DOMAIN failed' <=> i \in DOMAIN failed \/ i = Len(failed) + 1
  BY <1>1
<1>3. Failures' = {failed'[i] : i \in DOMAIN failed'}
  BY DEF Failures
<1> QED BY <1>1, <1>2, <1>3 DEF Failures

\* A version that becomes registered is all that may no longer be requested.
LEMMA RequestedShrinks ==
    ASSUME NEW v, UNCHANGED <<available, policy, blacklist>>,
           Registered' = Registered \cup {v}
    PROVE  /\ Requested(available)' \subseteq Requested(available)
           /\ Requested(available) \ {v} \subseteq Requested(available)'
BY DEF Requested

\* What the invariant says of the sets of versions.
SetsAreVersions ==
    /\ Versions \subseteq Nat
    /\ Available \subseteq Versions
    /\ Registered \subseteq Versions
    /\ Failures \subseteq Versions
    /\ Requested(available) \subseteq available
    /\ \A v \in Versions : /\ v \in Registered <=> vstate[v] # "none"
                           /\ v \in Available <=> vstate[v] = "available"

\* The invariant bounds the sets of versions.
LEMMA InvSets == PolicyInv => SetsAreVersions
<1> SUFFICES ASSUME PolicyInv PROVE SetsAreVersions
  OBVIOUS
<1>1. \A i \in DOMAIN failed : failed[i] \in Versions
  BY DEF PolicyInv, TypeOK
<1>2. Requested(available) \subseteq available
  BY FilterChooses DEF Requested, PolicyInv, TypeOK
<1> QED
  BY <1>1, <1>2, VersionsAssumption
     DEF SetsAreVersions, Failures, Available, Registered

\* v is the one version of a list that is worked on.
IsOnlyFirst(v, S) ==
    /\ IsFirst(v, S)
    /\ v \in S
    /\ \A w \in Versions : IsFirst(w, S) => w = v

\* The first version of a list is the only first one.
LEMMA FirstIsOnly ==
    ASSUME NEW S, NEW v \in Versions, IsFirst(v, S)
    PROVE  IsOnlyFirst(v, S)
BY FirstIsUnique DEF IsOnlyFirst, IsFirst

\* The status of a version becomes s.
Becomes(v, s) ==
    /\ vstate' \in [Versions -> VersionStates]
    /\ vstate'[v] = s
    /\ \A w \in Versions \ {v} : vstate'[w] = vstate[w]
    /\ byRequest' = byRequest \ {v}
    /\ Registered' = Registered \cup {v}
    /\ Available' = IF s = "available" THEN Available \cup {v}
                                       ELSE Available \ {v}
    /\ Requested(available)' \subseteq Requested(available)
    /\ Requested(available) \ {v} \subseteq Requested(available)'

\* A change of status changes no other version.
LEMMA SetStateBecomes ==
    ASSUME TypeOK, NEW v \in Versions, NEW s \in VersionStates \ {"none"},
           SetState(v, s), UNCHANGED <<available, policy, blacklist>>
    PROVE  Becomes(v, s)
<1>1. Registered' = Registered \cup {v}
  BY DEF SetState, Registered, VersionStates, TypeOK
<1>2. Available' = IF s = "available" THEN Available \cup {v} ELSE Available \ {v}
  BY DEF SetState, Available, VersionStates, TypeOK
<1> QED
  BY <1>1, <1>2, RequestedShrinks DEF Becomes, SetState, TypeOK, VersionStates

\* The default moves to the highest version but one.
MovesFrom(v) ==
    /\ default' \in Versions \cup {0}
    /\ IsHighest(default', Available \ {v})
    /\ Registered' = Registered
    /\ Available' = Available
    /\ byRequest' = byRequest
    /\ Requested(available)' = Requested(available)

\* updateDefaultVersion takes the highest version but the ignored one.
LEMMA UpdateMoves ==
    ASSUME VersionsFitInt, NEW v \in Versions \cup {0}, UpdateDefault(v),
           UNCHANGED <<states, available, policy, blacklist>>
    PROVE  MovesFrom(v)
BY DEF MovesFrom, UpdateDefault, states, VersionsFitInt, Registered, Available, Requested

\* A version that is added is not served yet.
LEMMA AddVersionKeeps ==
    ASSUME PolicyInv, NEW v \in Versions, AddVersion(v)
    PROVE  PolicyInv'
<1> USE DEF PolicyInv, TypeOK, AddVersion, environment, states, served, lists, requests,
            Loading, Retiring, Gone, Control, VersionStates
<1>1. SetsAreVersions
  BY InvSets
<1>2. IsOnlyFirst(v, toStart)
  BY FirstIsOnly
<1>3. Becomes(v, "loading")
  BY SetStateBecomes
<1>4. Failures' = Failures
  BY DEF Failures
<1> USE DEF SetsAreVersions, IsOnlyFirst, Becomes
<1>5. TypeOK' /\ RequestsInv'
  <2>1. TypeOK'
    <3>1. byRequest' \in SUBSET Versions /\ loadedWith' \in [Versions -> Revisions]
      BY <1>3
    <3>2. vstate' \in [Versions -> VersionStates] /\ pc' \in Control
      BY <1>3
    <3> HIDE DEF Becomes, SetsAreVersions, IsOnlyFirst
    <3> QED BY <3>1, <3>2
  <2>2. RequestsInv'
    BY <1>1, <1>2, <1>3, <1>4 DEF RequestsInv, ListsInv, StatusInv, LoadingInv
  <2> QED BY <2>1, <2>2
<1>6. ListsInv'
  BY <1>1, <1>2, <1>3, <1>4 DEF ListsInv, RequestsInv, StatusInv, LoadingInv
<1>7. StatusInv'
  BY <1>1, <1>2, <1>3, <1>4 DEF StatusInv, ListsInv, RequestsInv
<1>8. LoadingInv'
  BY <1>1, <1>2, <1>3, <1>4 DEF LoadingInv, StatusInv, ListsInv, RequestsInv
<1>9. RetireInv'
  BY <1>1, <1>2, <1>3, <1>4 DEF RetireInv, ListsInv, RequestsInv
<1>10. HighestInv'
  BY <1>1, <1>2, <1>3, <1>4 DEF HighestInv, DefaultIsStuck, ListsInv, StatusInv, LoadingInv, RequestsInv
<1>11. OkInv'
  BY DEF OkInv
<1> QED
  BY <1>5, <1>6, <1>7, <1>8, <1>9, <1>10, <1>11

\* A version that has loaded is served before it may become the default.
LEMMA AddSucceedsKeeps ==
    ASSUME PolicyInv, NEW v \in Versions, AddSucceeds(v)
    PROVE  PolicyInv'
<1> USE DEF PolicyInv, TypeOK, AddSucceeds, environment, states, served, lists, requests,
            Loading, Retiring, Gone, Control, VersionStates
<1>1. SetsAreVersions
  BY InvSets
<1>2. IsOnlyFirst(v, toStart)
  BY FirstIsOnly
<1>3. Becomes(v, "available")
  BY SetStateBecomes
<1>4. Failures' = Failures
  BY DEF Failures
<1> USE DEF SetsAreVersions, IsOnlyFirst, Becomes
<1>5. TypeOK' /\ RequestsInv'
  BY <1>1, <1>2, <1>3, <1>4 DEF RequestsInv, ListsInv, StatusInv, LoadingInv
<1>6. ListsInv'
  BY <1>1, <1>2, <1>3, <1>4 DEF ListsInv, RequestsInv, StatusInv, LoadingInv
<1>7. StatusInv'
  BY <1>1, <1>2, <1>3, <1>4 DEF StatusInv, ListsInv, RequestsInv
<1>8. LoadingInv'
  BY <1>1, <1>2, <1>3, <1>4 DEF LoadingInv, StatusInv, ListsInv, RequestsInv
<1>9. RetireInv'
  BY <1>1, <1>2, <1>3, <1>4 DEF RetireInv, ListsInv, RequestsInv
<1>10. HighestInv'
  BY <1>1, <1>2, <1>3, <1>4 DEF HighestInv, DefaultIsStuck, ListsInv, StatusInv, LoadingInv, RequestsInv
<1>11. OkInv'
  BY DEF OkInv
<1> QED
  BY <1>5, <1>6, <1>7, <1>8, <1>9, <1>10, <1>11

\* A version that does not load joins the failed ones.
LEMMA AddFailsKeeps ==
    ASSUME PolicyInv, NEW v \in Versions, AddFails(v)
    PROVE  PolicyInv'
<1> USE DEF PolicyInv, TypeOK, AddFails, environment, states, served, lists, requests,
            Loading, Retiring, Gone, Control, VersionStates
<1>1. SetsAreVersions
  BY InvSets
<1>2. IsOnlyFirst(v, toStart)
  BY FirstIsOnly
<1>3. Becomes(v, "failed")
  BY SetStateBecomes
<1>4. Failures' = Failures \cup {v} /\ failed' \in Seq(Versions) /\ failed' # <<>>
  BY FailureAppended
<1> USE DEF SetsAreVersions, IsOnlyFirst, Becomes
<1>5. TypeOK' /\ RequestsInv'
  BY <1>1, <1>2, <1>3, <1>4 DEF RequestsInv, ListsInv, StatusInv, LoadingInv
<1>6. ListsInv'
  BY <1>1, <1>2, <1>3, <1>4 DEF ListsInv, RequestsInv, StatusInv, LoadingInv
<1>7. StatusInv'
  BY <1>1, <1>2, <1>3, <1>4 DEF StatusInv, ListsInv, RequestsInv
<1>8. LoadingInv'
  BY <1>1, <1>2, <1>3, <1>4 DEF LoadingInv, StatusInv, ListsInv, RequestsInv
<1>9. RetireInv'
  BY <1>1, <1>2, <1>3, <1>4 DEF RetireInv, ListsInv, RequestsInv
<1>10. HighestInv'
  BY <1>1, <1>2, <1>3, <1>4 DEF HighestInv, DefaultIsStuck, ListsInv, StatusInv, LoadingInv, RequestsInv
<1>11. OkInv'
  BY DEF OkInv
<1> QED
  BY <1>5, <1>6, <1>7, <1>8, <1>9, <1>10, <1>11

\* A version that was added may become the default.
LEMMA AddUpdatesDefaultKeeps ==
    ASSUME VersionsFitInt, PolicyInv, NEW v \in Versions, AddUpdatesDefault(v)
    PROVE  PolicyInv'
<1> USE DEF PolicyInv, TypeOK, AddUpdatesDefault, environment, states, served, lists, requests,
            Loading, Retiring, Gone, Control, VersionStates
<1>1. SetsAreVersions
  BY InvSets
<1>2. IsOnlyFirst(v, toStart)
  BY FirstIsOnly
<1>3. MovesFrom(0)
  BY UpdateMoves
<1>4. Failures' = Failures
  BY DEF Failures
<1> USE DEF SetsAreVersions, IsOnlyFirst, MovesFrom, IsHighest
<1>5. TypeOK' /\ RequestsInv'
  BY <1>1, <1>2, <1>3, <1>4 DEF RequestsInv, ListsInv, StatusInv, LoadingInv
<1>6. ListsInv'
  BY <1>1, <1>2, <1>3, <1>4 DEF ListsInv, RequestsInv, StatusInv, LoadingInv
<1>7. StatusInv'
  BY <1>1, <1>2, <1>3, <1>4 DEF StatusInv, ListsInv, RequestsInv
<1>8. LoadingInv'
  BY <1>1, <1>2, <1>3, <1>4 DEF LoadingInv, StatusInv, ListsInv, RequestsInv
<1>9. RetireInv'
  BY <1>1, <1>2, <1>3, <1>4 DEF RetireInv, ListsInv, RequestsInv
<1>10. HighestInv'
  BY <1>1, <1>2, <1>3, <1>4 DEF HighestInv, DefaultIsStuck, ListsInv, StatusInv, LoadingInv, RequestsInv
<1>11. OkInv'
  BY DEF OkInv
<1> QED
  BY <1>5, <1>6, <1>7, <1>8, <1>9, <1>10, <1>11

\* A version that is reloaded, the default perhaps, is not served meanwhile.
LEMMA ReloadVersionKeeps ==
    ASSUME PolicyInv, NEW v \in Versions, ReloadVersion(v)
    PROVE  PolicyInv'
<1> USE DEF PolicyInv, TypeOK, ReloadVersion, environment, states, served, lists, requests,
            Loading, Retiring, Gone, Control, VersionStates
<1>1. SetsAreVersions
  BY InvSets
<1>2. IsOnlyFirst(v, toReload)
  BY FirstIsOnly
<1>3. Becomes(v, "loading")
  BY SetStateBecomes
<1>4. Failures' = Failures
  BY DEF Failures
<1> USE DEF SetsAreVersions, IsOnlyFirst, Becomes
<1>5. TypeOK' /\ RequestsInv'
  <2>1. TypeOK'
    <3>1. byRequest' \in SUBSET Versions /\ loadedWith' \in [Versions -> Revisions]
      BY <1>3
    <3>2. vstate' \in [Versions -> VersionStates] /\ pc' \in Control
      BY <1>3
    <3> HIDE DEF Becomes, SetsAreVersions, IsOnlyFirst
    <3> QED BY <3>1, <3>2
  <2>2. RequestsInv'
    BY <1>1, <1>2, <1>3, <1>4 DEF RequestsInv, ListsInv, StatusInv, LoadingInv
  <2> QED BY <2>1, <2>2
<1>6. ListsInv'
  BY <1>1, <1>2, <1>3, <1>4 DEF ListsInv, RequestsInv, StatusInv, LoadingInv
<1>7. StatusInv'
  BY <1>1, <1>2, <1>3, <1>4 DEF StatusInv, ListsInv, RequestsInv
<1>8. LoadingInv'
  BY <1>1, <1>2, <1>3, <1>4 DEF LoadingInv, StatusInv, ListsInv, RequestsInv
<1>9. RetireInv'
  BY <1>1, <1>2, <1>3, <1>4 DEF RetireInv, ListsInv, RequestsInv
<1>10. HighestInv'
  <2>1. \/ default \in Available \cup byRequest \cup {0}
        \/ DefaultIsStuck
        \/ default \in Failures
    BY DEF HighestInv
  <2>2. CASE default = v
    BY <1>1, <1>2, <1>3, <1>4, <2>2 DEF HighestInv
  <2>3. CASE default # v
    <3>1. DefaultIsStuck => DefaultIsStuck'
      BY <1>3, <2>3 DEF DefaultIsStuck
    <3>2. /\ default' = default /\ pc' = "reloading"
          /\ Available' = Available \ {v} /\ byRequest' = byRequest \ {v}
      BY <1>3
    <3> QED BY <1>1, <1>4, <2>1, <2>3, <3>1, <3>2 DEF HighestInv
  <2> QED BY <2>2, <2>3
<1>11. OkInv'
  BY DEF OkInv
<1> QED
  BY <1>5, <1>6, <1>7, <1>8, <1>9, <1>10, <1>11

\* A reloaded version is served again.
LEMMA ReloadSucceedsKeeps ==
    ASSUME PolicyInv, NEW v \in Versions, ReloadSucceeds(v)
    PROVE  PolicyInv'
<1> USE DEF PolicyInv, TypeOK, ReloadSucceeds, environment, states, served, lists, requests,
            Loading, Retiring, Gone, Control, VersionStates
<1>1. SetsAreVersions
  BY InvSets
<1>2. IsOnlyFirst(v, toReload)
  BY FirstIsOnly
<1>3. Becomes(v, "available")
  BY SetStateBecomes
<1>4. Failures' = Failures
  BY DEF Failures
<1> USE DEF SetsAreVersions, IsOnlyFirst, Becomes
<1>5. TypeOK' /\ RequestsInv'
  BY <1>1, <1>2, <1>3, <1>4 DEF RequestsInv, ListsInv, StatusInv, LoadingInv
<1>6. ListsInv'
  BY <1>1, <1>2, <1>3, <1>4 DEF ListsInv, RequestsInv, StatusInv, LoadingInv
<1>7. StatusInv'
  BY <1>1, <1>2, <1>3, <1>4 DEF StatusInv, ListsInv, RequestsInv
<1>8. LoadingInv'
  BY <1>1, <1>2, <1>3, <1>4 DEF LoadingInv, StatusInv, ListsInv, RequestsInv
<1>9. RetireInv'
  BY <1>1, <1>2, <1>3, <1>4 DEF RetireInv, ListsInv, RequestsInv
<1>10. HighestInv'
  BY <1>1, <1>2, <1>3, <1>4 DEF HighestInv, DefaultIsStuck, ListsInv, StatusInv, LoadingInv, RequestsInv
<1>11. OkInv'
  BY DEF OkInv
<1> QED
  BY <1>5, <1>6, <1>7, <1>8, <1>9, <1>10, <1>11

\* A default that does not reload stays the default until the retirement.
LEMMA ReloadFailsKeeps ==
    ASSUME PolicyInv, NEW v \in Versions, ReloadFails(v)
    PROVE  PolicyInv'
<1> USE DEF PolicyInv, TypeOK, ReloadFails, environment, states, served, lists, requests,
            Loading, Retiring, Gone, Control, VersionStates
<1>1. SetsAreVersions
  BY InvSets
<1>2. IsOnlyFirst(v, toReload)
  BY FirstIsOnly
<1>3. Becomes(v, "failed")
  BY SetStateBecomes
<1>4. Failures' = Failures \cup {v} /\ failed' \in Seq(Versions) /\ failed' # <<>>
  BY FailureAppended
<1> USE DEF SetsAreVersions, IsOnlyFirst, Becomes
<1>5. TypeOK' /\ RequestsInv'
  BY <1>1, <1>2, <1>3, <1>4 DEF RequestsInv, ListsInv, StatusInv, LoadingInv
<1>6. ListsInv'
  BY <1>1, <1>2, <1>3, <1>4 DEF ListsInv, RequestsInv, StatusInv, LoadingInv
<1>7. StatusInv'
  BY <1>1, <1>2, <1>3, <1>4 DEF StatusInv, ListsInv, RequestsInv
<1>8. LoadingInv'
  BY <1>1, <1>2, <1>3, <1>4 DEF LoadingInv, StatusInv, ListsInv, RequestsInv
<1>9. RetireInv'
  BY <1>1, <1>2, <1>3, <1>4 DEF RetireInv, ListsInv, RequestsInv
<1>10. HighestInv'
  BY <1>1, <1>2, <1>3, <1>4 DEF HighestInv, DefaultIsStuck, ListsInv, StatusInv, LoadingInv, RequestsInv
<1>11. OkInv'
  BY DEF OkInv
<1> QED
  BY <1>5, <1>6, <1>7, <1>8, <1>9, <1>10, <1>11

\* A reloaded version may become the default.
LEMMA ReloadUpdatesDefaultKeeps ==
    ASSUME VersionsFitInt, PolicyInv, NEW v \in Versions, ReloadUpdatesDefault(v)
    PROVE  PolicyInv'
<1> USE DEF PolicyInv, TypeOK, ReloadUpdatesDefault, environment, states, served, lists, requests,
            Loading, Retiring, Gone, Control, VersionStates
<1>1. SetsAreVersions
  BY InvSets
<1>2. IsOnlyFirst(v, toReload)
  BY FirstIsOnly
<1>3. MovesFrom(0)
  BY UpdateMoves
<1>4. Failures' = Failures
  BY DEF Failures
<1> USE DEF SetsAreVersions, IsOnlyFirst, MovesFrom, IsHighest
<1>5. TypeOK' /\ RequestsInv'
  BY <1>1, <1>2, <1>3, <1>4 DEF RequestsInv, ListsInv, StatusInv, LoadingInv
<1>6. ListsInv'
  BY <1>1, <1>2, <1>3, <1>4 DEF ListsInv, RequestsInv, StatusInv, LoadingInv
<1>7. StatusInv'
  BY <1>1, <1>2, <1>3, <1>4 DEF StatusInv, ListsInv, RequestsInv
<1>8. LoadingInv'
  BY <1>1, <1>2, <1>3, <1>4 DEF LoadingInv, StatusInv, ListsInv, RequestsInv
<1>9. RetireInv'
  BY <1>1, <1>2, <1>3, <1>4 DEF RetireInv, ListsInv, RequestsInv
<1>10. HighestInv'
  BY <1>1, <1>2, <1>3, <1>4 DEF HighestInv, DefaultIsStuck, ListsInv, StatusInv, LoadingInv, RequestsInv
<1>11. OkInv'
  BY DEF OkInv
<1> QED
  BY <1>5, <1>6, <1>7, <1>8, <1>9, <1>10, <1>11

\* The default moves away from the version to retire.
LEMMA RetireUpdatesDefaultKeeps ==
    ASSUME VersionsFitInt, PolicyInv, NEW v \in Versions, RetireUpdatesDefault(v)
    PROVE  PolicyInv'
<1> USE DEF PolicyInv, TypeOK, RetireUpdatesDefault, environment, states, served, lists, requests,
            Loading, Retiring, Gone, Control, VersionStates
<1>1. SetsAreVersions
  BY InvSets
<1>2. IsOnlyFirst(v, toRetire)
  BY FirstIsOnly
<1>3. MovesFrom(v)
  BY UpdateMoves
<1>4. Failures' = Failures
  BY DEF Failures
<1> USE DEF SetsAreVersions, IsOnlyFirst, MovesFrom, IsHighest
<1>5. TypeOK' /\ RequestsInv'
  BY <1>1, <1>2, <1>3, <1>4 DEF RequestsInv, ListsInv, StatusInv, LoadingInv
<1>6. ListsInv'
  BY <1>1, <1>2, <1>3, <1>4 DEF ListsInv, RequestsInv, StatusInv, LoadingInv
<1>7. StatusInv'
  BY <1>1, <1>2, <1>3, <1>4 DEF StatusInv, ListsInv, RequestsInv
<1>8. LoadingInv'
  BY <1>1, <1>2, <1>3, <1>4 DEF LoadingInv, StatusInv, ListsInv, RequestsInv
<1>9. RetireInv'
  BY <1>1, <1>2, <1>3, <1>4 DEF RetireInv, ListsInv, RequestsInv
<1>10. HighestInv'
  <2>1. \A w \in Versions : IsFirst(w, toRetire)' => default' # w
    <3>1. default' # v
      BY <1>3, VersionsAssumption
    <3> QED BY <1>2, <3>1 DEF IsFirst
  <2>2. default' \in Available' \cup byRequest' \cup {0}
    BY <1>3
  <2>3. \A w \in Available' : w <= default' \/ IsFirst(w, toRetire)'
    BY <1>1, <1>2, <1>3
  <2> QED BY <2>1, <2>2, <2>3 DEF HighestInv, DefaultIsStuck
<1>11. OkInv'
  BY DEF OkInv
<1> QED
  BY <1>5, <1>6, <1>7, <1>8, <1>9, <1>10, <1>11

\* The version that is retired is not the default.
LEMMA RetireVersionKeeps ==
    ASSUME PolicyInv, NEW v \in Versions, RetireVersion(v)
    PROVE  PolicyInv'
<1> USE DEF PolicyInv, TypeOK, RetireVersion, environment, states, served, lists, requests,
            Loading, Retiring, Gone, Control, VersionStates
<1>1. SetsAreVersions
  BY InvSets
<1>2. IsOnlyFirst(v, toRetire)
  BY FirstIsOnly
<1>3. Becomes(v, "unloading")
  BY SetStateBecomes
<1>4. Failures' = Failures
  BY DEF Failures
<1> USE DEF SetsAreVersions, IsOnlyFirst, Becomes
<1>5. TypeOK' /\ RequestsInv'
  BY <1>1, <1>2, <1>3, <1>4 DEF RequestsInv, ListsInv, StatusInv, LoadingInv
<1>6. ListsInv'
  BY <1>1, <1>2, <1>3, <1>4 DEF ListsInv, RequestsInv, StatusInv, LoadingInv
<1>7. StatusInv'
  BY <1>1, <1>2, <1>3, <1>4 DEF StatusInv, ListsInv, RequestsInv
<1>8. LoadingInv'
  BY <1>1, <1>2, <1>3, <1>4 DEF LoadingInv, StatusInv, ListsInv, RequestsInv
<1>9. RetireInv'
  <2>1. v \notin Requested(available)
    BY <1>2 DEF RetireInv
  <2> QED BY <1>1, <1>2, <1>3, <1>4, <2>1 DEF RetireInv, ListsInv, RequestsInv
<1>10. HighestInv'
  BY <1>1, <1>2, <1>3, <1>4 DEF HighestInv, DefaultIsStuck, ListsInv, StatusInv, LoadingInv, RequestsInv
<1>11. OkInv'
  BY DEF OkInv
<1> QED
  BY <1>5, <1>6, <1>7, <1>8, <1>9, <1>10, <1>11

\* A retired version is not requested.
LEMMA RetireEndsKeeps ==
    ASSUME PolicyInv, NEW v \in Versions, RetireEnds(v)
    PROVE  PolicyInv'
<1> USE DEF PolicyInv, TypeOK, RetireEnds, environment, states, served, lists, requests,
            Loading, Retiring, Gone, Control, VersionStates
<1>1. SetsAreVersions
  BY InvSets
<1>2. IsOnlyFirst(v, toRetire)
  BY FirstIsOnly
<1>3. Becomes(v, "end")
  BY SetStateBecomes
<1>4. Failures' = Failures
  BY DEF Failures
<1> USE DEF SetsAreVersions, IsOnlyFirst, Becomes
<1>5. TypeOK' /\ RequestsInv'
  BY <1>1, <1>2, <1>3, <1>4 DEF RequestsInv, ListsInv, StatusInv, LoadingInv
<1>6. ListsInv'
  BY <1>1, <1>2, <1>3, <1>4 DEF ListsInv, RequestsInv, StatusInv, LoadingInv
<1>7. StatusInv'
  BY <1>1, <1>2, <1>3, <1>4 DEF StatusInv, ListsInv, RequestsInv
<1>8. LoadingInv'
  BY <1>1, <1>2, <1>3, <1>4 DEF LoadingInv, StatusInv, ListsInv, RequestsInv
<1>9. RetireInv'
  <2>1. v \notin Requested(available)
    BY <1>2 DEF RetireInv
  <2> QED BY <1>1, <1>2, <1>3, <1>4, <2>1 DEF RetireInv, ListsInv, RequestsInv
<1>10. HighestInv'
  BY <1>1, <1>2, <1>3, <1>4 DEF HighestInv, DefaultIsStuck, ListsInv, StatusInv, LoadingInv, RequestsInv
<1>11. OkInv'
  BY DEF OkInv
<1> QED
  BY <1>5, <1>6, <1>7, <1>8, <1>9, <1>10, <1>11

\* The default moves away from a failed version.
LEMMA CleanupUpdatesDefaultKeeps ==
    ASSUME VersionsFitInt, PolicyInv, NEW v \in Versions, CleanupUpdatesDefault(v)
    PROVE  PolicyInv'
<1> USE DEF PolicyInv, TypeOK, CleanupUpdatesDefault, environment, states, served, lists, requests,
            Loading, Retiring, Gone, Control, VersionStates
<1>1. SetsAreVersions
  BY InvSets
<1>2. IsOnlyFirst(v, toCleanup)
  BY FirstIsOnly
<1>3. MovesFrom(v)
  BY UpdateMoves
<1>4. Failures' = Failures
  BY DEF Failures
<1> USE DEF SetsAreVersions, IsOnlyFirst, MovesFrom, IsHighest
<1>5. TypeOK' /\ RequestsInv'
  BY <1>1, <1>2, <1>3, <1>4 DEF RequestsInv, ListsInv, StatusInv, LoadingInv
<1>6. ListsInv'
  BY <1>1, <1>2, <1>3, <1>4 DEF ListsInv, RequestsInv, StatusInv, LoadingInv
<1>7. StatusInv'
  BY <1>1, <1>2, <1>3, <1>4 DEF StatusInv, ListsInv, RequestsInv
<1>8. LoadingInv'
  BY <1>1, <1>2, <1>3, <1>4 DEF LoadingInv, StatusInv, ListsInv, RequestsInv
<1>9. RetireInv'
  BY <1>1, <1>2, <1>3, <1>4 DEF RetireInv, ListsInv, RequestsInv
<1>10. HighestInv'
  <2>1. \A w \in Versions : IsFirst(w, toCleanup)' => default' # w
    <3>1. default' # v
      BY <1>3, VersionsAssumption
    <3> QED BY <1>2, <3>1 DEF IsFirst
  <2>2. default' \in Available' \cup byRequest' \cup {0}
    BY <1>3
  <2>3. \A w \in Available' \ byRequest' : w <= default'
    BY <1>1, <1>2, <1>3 DEF ListsInv
  <2> QED BY <2>1, <2>2, <2>3 DEF HighestInv
<1>11. OkInv'
  BY DEF OkInv
<1> QED
  BY <1>5, <1>6, <1>7, <1>8, <1>9, <1>10, <1>11

\* A failed version is not served.
LEMMA CleanupFailedLoadKeeps ==
    ASSUME PolicyInv, NEW v \in Versions, CleanupFailedLoad(v)
    PROVE  PolicyInv'
<1> USE DEF PolicyInv, TypeOK, CleanupFailedLoad, environment, states, served, lists, requests,
            Loading, Retiring, Gone, Control, VersionStates
<1>1. SetsAreVersions
  BY InvSets
<1>2. IsOnlyFirst(v, toCleanup)
  BY FirstIsOnly
<1>3. Becomes(v, "failed")
  BY SetStateBecomes
<1>4. Failures' = Failures
  BY DEF Failures
<1> USE DEF SetsAreVersions, IsOnlyFirst, Becomes
<1>5. TypeOK' /\ RequestsInv'
  BY <1>1, <1>2, <1>3, <1>4 DEF RequestsInv, ListsInv, StatusInv, LoadingInv
<1>6. ListsInv'
  BY <1>1, <1>2, <1>3, <1>4 DEF ListsInv, RequestsInv, StatusInv, LoadingInv
<1>7. StatusInv'
  BY <1>1, <1>2, <1>3, <1>4 DEF StatusInv, ListsInv, RequestsInv
<1>8. LoadingInv'
  BY <1>1, <1>2, <1>3, <1>4 DEF LoadingInv, StatusInv, ListsInv, RequestsInv
<1>9. RetireInv'
  <2>1. v \notin Requested(available)
    BY <1>2 DEF RetireInv
  <2> QED BY <1>1, <1>2, <1>3, <1>4, <2>1 DEF RetireInv, ListsInv, RequestsInv
<1>10. HighestInv'
  BY <1>1, <1>2, <1>3, <1>4 DEF HighestInv, DefaultIsStuck, ListsInv, StatusInv, LoadingInv, RequestsInv
<1>11. OkInv'
  BY DEF OkInv
<1> QED
  BY <1>5, <1>6, <1>7, <1>8, <1>9, <1>10, <1>11

\* When all versions go, so may the default.
LEMMA RetireAllNextKeeps ==
    ASSUME PolicyInv, NEW v \in Versions, RetireAllNext(v)
    PROVE  PolicyInv'
<1> USE DEF PolicyInv, TypeOK, RetireAllNext, environment, states, served, lists, requests,
            Loading, Retiring, Gone, Control, VersionStates
<1>1. SetsAreVersions
  BY InvSets
<1>2. IsOnlyFirst(v, toRetire)
  BY FirstIsOnly
<1>3. Becomes(v, "unloading")
  BY SetStateBecomes
<1>4. Failures' = Failures
  BY DEF Failures
<1> USE DEF SetsAreVersions, IsOnlyFirst, Becomes
<1>5. TypeOK' /\ RequestsInv'
  BY <1>1, <1>2, <1>3, <1>4 DEF RequestsInv, ListsInv, StatusInv, LoadingInv
<1>6. ListsInv'
  BY <1>1, <1>2, <1>3, <1>4 DEF ListsInv, RequestsInv, StatusInv, LoadingInv
<1>7. StatusInv'
  BY <1>1, <1>2, <1>3, <1>4 DEF StatusInv, ListsInv, RequestsInv
<1>8. LoadingInv'
  BY <1>1, <1>2, <1>3, <1>4 DEF LoadingInv, StatusInv, ListsInv, RequestsInv
<1>9. RetireInv'
  BY <1>1, <1>2, <1>3, <1>4 DEF RetireInv, ListsInv, RequestsInv
<1>10. HighestInv'
  BY <1>1, <1>2, <1>3, <1>4 DEF HighestInv, DefaultIsStuck, ListsInv, StatusInv, LoadingInv, RequestsInv
<1>11. OkInv'
  BY DEF OkInv
<1> QED
  BY <1>5, <1>6, <1>7, <1>8, <1>9, <1>10, <1>11

\* A version has gone.
LEMMA RetireAllUnloadedKeeps ==
    ASSUME PolicyInv, NEW v \in Versions, RetireAllUnloaded(v)
    PROVE  PolicyInv'
<1> USE DEF PolicyInv, TypeOK, RetireAllUnloaded, environment, states, served, lists, requests,
            Loading, Retiring, Gone, Control, VersionStates
<1>1. SetsAreVersions
  BY InvSets
<1>2. IsOnlyFirst(v, toRetire)
  BY FirstIsOnly
<1>3. Becomes(v, "end")
  BY SetStateBecomes
<1>4. Failures' = Failures
  BY DEF Failures
<1> USE DEF SetsAreVersions, IsOnlyFirst, Becomes
<1>5. TypeOK' /\ RequestsInv'
  BY <1>1, <1>2, <1>3, <1>4 DEF RequestsInv, ListsInv, StatusInv, LoadingInv
<1>6. ListsInv'
  BY <1>1, <1>2, <1>3, <1>4 DEF ListsInv, RequestsInv, StatusInv, LoadingInv
<1>7. StatusInv'
  BY <1>1, <1>2, <1>3, <1>4 DEF StatusInv, ListsInv, RequestsInv
<1>8. LoadingInv'
  BY <1>1, <1>2, <1>3, <1>4 DEF LoadingInv, StatusInv, ListsInv, RequestsInv
<1>9. RetireInv'
  BY <1>1, <1>2, <1>3, <1>4 DEF RetireInv, ListsInv, RequestsInv
<1>10. HighestInv'
  BY <1>1, <1>2, <1>3, <1>4 DEF HighestInv, DefaultIsStuck, ListsInv, StatusInv, LoadingInv, RequestsInv
<1>11. OkInv'
  BY DEF OkInv
<1> QED
  BY <1>5, <1>6, <1>7, <1>8, <1>9, <1>10, <1>11

\* The default follows.
LEMMA RetireAllUpdatesDefaultKeeps ==
    ASSUME VersionsFitInt, PolicyInv, NEW v \in Versions, RetireAllUpdatesDefault(v)
    PROVE  PolicyInv'
<1> USE DEF PolicyInv, TypeOK, RetireAllUpdatesDefault, environment, states, served, lists, requests,
            Loading, Retiring, Gone, Control, VersionStates
<1>1. SetsAreVersions
  BY InvSets
<1>2. IsOnlyFirst(v, toRetire)
  BY FirstIsOnly
<1>3. MovesFrom(0)
  BY UpdateMoves
<1>4. Failures' = Failures
  BY DEF Failures
<1> USE DEF SetsAreVersions, IsOnlyFirst, MovesFrom, IsHighest
<1>5. TypeOK' /\ RequestsInv'
  BY <1>1, <1>2, <1>3, <1>4 DEF RequestsInv, ListsInv, StatusInv, LoadingInv
<1>6. ListsInv'
  BY <1>1, <1>2, <1>3, <1>4 DEF ListsInv, RequestsInv, StatusInv, LoadingInv
<1>7. StatusInv'
  BY <1>1, <1>2, <1>3, <1>4 DEF StatusInv, ListsInv, RequestsInv
<1>8. LoadingInv'
  BY <1>1, <1>2, <1>3, <1>4 DEF LoadingInv, StatusInv, ListsInv, RequestsInv
<1>9. RetireInv'
  BY <1>1, <1>2, <1>3, <1>4 DEF RetireInv, ListsInv, RequestsInv
<1>10. HighestInv'
  BY <1>1, <1>2, <1>3, <1>4 DEF HighestInv, DefaultIsStuck, ListsInv, StatusInv, LoadingInv, RequestsInv
<1>11. OkInv'
  BY DEF OkInv
<1> QED
  BY <1>5, <1>6, <1>7, <1>8, <1>9, <1>10, <1>11

\* When all versions are cleaned up, so may the default be.
LEMMA CleanupAllNextKeeps ==
    ASSUME PolicyInv, NEW v \in Versions, CleanupAllNext(v)
    PROVE  PolicyInv'
<1> USE DEF PolicyInv, TypeOK, CleanupAllNext, environment, states, served, lists, requests,
            Loading, Retiring, Gone, Control, VersionStates
<1>1. SetsAreVersions
  BY InvSets
<1>2. IsOnlyFirst(v, toCleanup)
  BY FirstIsOnly
<1>3. Becomes(v, "failed")
  BY SetStateBecomes
<1>4. Failures' = Failures
  BY DEF Failures
<1> USE DEF SetsAreVersions, IsOnlyFirst, Becomes
<1>5. TypeOK' /\ RequestsInv'
  BY <1>1, <1>2, <1>3, <1>4 DEF RequestsInv, ListsInv, StatusInv, LoadingInv
<1>6. ListsInv'
  BY <1>1, <1>2, <1>3, <1>4 DEF ListsInv, RequestsInv, StatusInv, LoadingInv
<1>7. StatusInv'
  BY <1>1, <1>2, <1>3, <1>4 DEF StatusInv, ListsInv, RequestsInv
<1>8. LoadingInv'
  BY <1>1, <1>2, <1>3, <1>4 DEF LoadingInv, StatusInv, ListsInv, RequestsInv
<1>9. RetireInv'
  BY <1>1, <1>2, <1>3, <1>4 DEF RetireInv, ListsInv, RequestsInv
<1>10. HighestInv'
  BY <1>1, <1>2, <1>3, <1>4 DEF HighestInv, DefaultIsStuck, ListsInv, StatusInv, LoadingInv, RequestsInv
<1>11. OkInv'
  BY DEF OkInv
<1> QED
  BY <1>5, <1>6, <1>7, <1>8, <1>9, <1>10, <1>11

\* The default follows.
LEMMA CleanupAllUpdatesDefaultKeeps ==
    ASSUME VersionsFitInt, PolicyInv, NEW v \in Versions, CleanupAllUpdatesDefault(v)
    PROVE  PolicyInv'
<1> USE DEF PolicyInv, TypeOK, CleanupAllUpdatesDefault, environment, states, served, lists, requests,
            Loading, Retiring, Gone, Control, VersionStates
<1>1. SetsAreVersions
  BY InvSets
<1>2. IsOnlyFirst(v, toCleanup)
  BY FirstIsOnly
<1>3. MovesFrom(0)
  BY UpdateMoves
<1>4. Failures' = Failures
  BY DEF Failures
<1> USE DEF SetsAreVersions, IsOnlyFirst, MovesFrom, IsHighest
<1>5. TypeOK' /\ RequestsInv'
  BY <1>1, <1>2, <1>3, <1>4 DEF RequestsInv, ListsInv, StatusInv, LoadingInv
<1>6. ListsInv'
  BY <1>1, <1>2, <1>3, <1>4 DEF ListsInv, RequestsInv, StatusInv, LoadingInv
<1>7. StatusInv'
  BY <1>1, <1>2, <1>3, <1>4 DEF StatusInv, ListsInv, RequestsInv
<1>8. LoadingInv'
  BY <1>1, <1>2, <1>3, <1>4 DEF LoadingInv, StatusInv, ListsInv, RequestsInv
<1>9. RetireInv'
  BY <1>1, <1>2, <1>3, <1>4 DEF RetireInv, ListsInv, RequestsInv
<1>10. HighestInv'
  BY <1>1, <1>2, <1>3, <1>4 DEF HighestInv, DefaultIsStuck, ListsInv, StatusInv, LoadingInv, RequestsInv
<1>11. OkInv'
  BY DEF OkInv
<1> QED
  BY <1>5, <1>6, <1>7, <1>8, <1>9, <1>10, <1>11

\* Nothing failed: what is requested is served or on the list to reload.
LEMMA AllAddedKeeps ==
    ASSUME PolicyInv, AllAdded
    PROVE  PolicyInv'
<1> USE DEF PolicyInv, TypeOK, AllAdded, environment, states, served, lists, requests,
            Loading, Retiring, Gone, Control, VersionStates
<1>1. SetsAreVersions
  BY InvSets
<1>2. /\ Failures' = Failures
      /\ Available' = Available
      /\ Registered' = Registered
      /\ Requested(available)' = Requested(available)
  BY DEF Failures, Available, Registered, Requested
<1> USE DEF SetsAreVersions
<1>3. TypeOK' /\ RequestsInv'
  <2>1. TypeOK'
    OBVIOUS
  <2>2. RequestsInv'
    BY <1>1, <1>2 DEF RequestsInv, ListsInv, StatusInv, LoadingInv
  <2> QED BY <2>1, <2>2
<1>4. ListsInv'
  BY <1>1, <1>2 DEF ListsInv, RequestsInv, StatusInv, LoadingInv
<1>5. StatusInv'
  BY <1>1, <1>2 DEF StatusInv, ListsInv, RequestsInv
<1>6. LoadingInv'
  BY <1>1, <1>2 DEF LoadingInv, StatusInv, ListsInv, RequestsInv
<1>7. RetireInv'
  BY <1>1, <1>2 DEF RetireInv, ListsInv, RequestsInv
<1>8. HighestInv'
  BY <1>1, <1>2 DEF HighestInv, DefaultIsStuck, ListsInv, StatusInv, LoadingInv, RequestsInv
<1>9. OkInv'
  BY DEF OkInv
<1> QED
  BY <1>3, <1>4, <1>5, <1>6, <1>7, <1>8, <1>9

\* The lists are computed from versions that did not fail.
LEMMA ListsComputed ==
    ASSUME PolicyInv, NEW S \in SUBSET Versions
    PROVE  /\ Requested(S) \subseteq S
           /\ VersionsToStart(S) = Requested(S) \ Registered
           /\ VersionsToReload(S) \subseteq Requested(S) \cap Registered
           /\ \A v \in (Requested(S) \cap Registered) \ VersionsToReload(S) :
                    vstate[v] \in {"loading", "available"}
           /\ VersionsToRetire(S) \subseteq Registered \ Requested(S)
           /\ \A v \in (Registered \ Requested(S)) \ VersionsToRetire(S) :
                    vstate[v] \in {"unloading", "end"}
<1>1. Requested(S) \subseteq S
  BY FilterChooses DEF Requested, PolicyInv, TypeOK
<1>2. vstate \in [Versions -> VersionStates]
  BY DEF PolicyInv, TypeOK
<1> QED
  BY <1>1, <1>2 DEF VersionsToStart, VersionsToReload, VersionsToRetire,
        NeedsReload, Registered, VersionStates

\* What failed is taken away, and the lists are computed again.
LEMMA AddFallsBackKeeps ==
    ASSUME PolicyInv, AddFallsBack
    PROVE  PolicyInv'
<1> DEFINE S == AfterFailures
<1> USE DEF PolicyInv, TypeOK, environment, states, served, requests,
            Loading, Retiring, Gone, Control, VersionStates
<1>1. SetsAreVersions
  BY InvSets
<1>2. /\ available \ Failures \subseteq S /\ S \subseteq available
      /\ ListedInOrder(available) => S = available \ Failures
      /\ ListedInOrder(disk) => ListedInOrder(available)
      /\ ListedInOrder(Versions) => ListedInOrder(available)
  BY FailuresRemoved, InOrderOfSome DEF ListsInv
<1> HIDE DEF S
<1>3. /\ S \in SUBSET Versions
      /\ available' = S /\ allFailed' = allFailed \cup Failures
      /\ toStart' = VersionsToStart(S)
      /\ toReload' = VersionsToReload(S)
      /\ toRetire' = VersionsToRetire(S)
      /\ UNCHANGED <<environment, states, served, toCleanup, requests>>
  BY <1>1, <1>2 DEF S, Failures, AddFallsBack
<1>4. /\ Available' = Available
      /\ Registered' = Registered
      /\ Requested(available)' = Requested(S)
  BY <1>3 DEF Available, Registered, Requested
<1>6. /\ Requested(S) \subseteq S
      /\ VersionsToStart(S) = Requested(S) \ Registered
      /\ VersionsToReload(S) \subseteq Requested(S) \cap Registered
      /\ \A v \in (Requested(S) \cap Registered) \ VersionsToReload(S) :
              vstate[v] \in {"loading", "available"}
      /\ VersionsToRetire(S) \subseteq Registered
  BY <1>3, ListsComputed
<1> USE DEF SetsAreVersions
<1>7. /\ pc = "add"
      /\ result' = "error"
      /\ \/ pc' = "reload" /\ toStart' = {} /\ failed' = failed /\ Failures' = Failures
         \/ pc' = "add" /\ Failures' = {} /\ failed' = <<>>
  BY <1>3 DEF S, Failures, AddFallsBack
<1>8. TypeOK' /\ RequestsInv'
  <2>1. /\ available' \in SUBSET Versions /\ toStart' \in SUBSET Versions
        /\ toReload' \in SUBSET Versions /\ toRetire' \in SUBSET Versions
        /\ toCleanup' \in SUBSET Versions /\ allFailed' \in SUBSET Versions
    BY <1>1, <1>3, <1>6
  <2>2. failed' \in Seq(Versions)
    <3>1. <<>> \in Seq(Versions)
      OBVIOUS
    <3>2. failed' = failed \/ failed' = <<>>
      BY <1>7
    <3> QED BY <3>1, <3>2
  <2>8. TypeOK'
    BY <1>3, <1>7, <2>1, <2>2
  <2>9. RequestsInv'
    BY <1>3, <1>7, <2>1, <2>2, <1>1, <1>2, <1>4 DEF RequestsInv, ListsInv, StatusInv, LoadingInv
  <2> QED BY <2>8, <2>9
<1>9. ListsInv'
  BY <1>1, <1>2, <1>3, <1>4, <1>6, <1>7 DEF ListsInv, RequestsInv, StatusInv, LoadingInv
<1>10. StatusInv'
  BY <1>1, <1>2, <1>3, <1>4, <1>6, <1>7 DEF StatusInv, ListsInv, RequestsInv
<1>11. LoadingInv'
  <2>1. \A v \in Versions \ byRequest : vstate[v] # "loading"
    BY <1>7 DEF StatusInv
  <2>2. Requested(S) \subseteq toStart' \cup toReload' \cup Available \cup byRequest
    BY <1>1, <1>3, <1>6, <2>1
  <2>3. \A v \in Failures' \ byRequest : vstate'[v] = "failed"
    BY <1>3, <1>7 DEF LoadingInv
  <2> QED BY <1>3, <1>4, <1>7, <2>2, <2>3 DEF LoadingInv
<1>12. RetireInv'
  BY <1>3, <1>7 DEF RetireInv
<1>13. HighestInv'
  BY <1>1, <1>3, <1>4, <1>7 DEF HighestInv, DefaultIsStuck
<1>14. OkInv'
  BY <1>3, <1>7 DEF OkInv
<1> QED
  BY <1>8, <1>9, <1>10, <1>11, <1>12, <1>13, <1>14

\* The lists to retire and to clean up hold nothing that is requested, and
\* everything else that is served.
LEMMA AllReloadedKeeps ==
    ASSUME PolicyInv, AllReloaded
    PROVE  PolicyInv'
<1> DEFINE S == AfterFailures
<1> USE DEF PolicyInv, TypeOK, environment, states, served, requests,
            Loading, Retiring, Gone, Control, VersionStates
<1>1. SetsAreVersions
  BY InvSets
<1>2. /\ available \ Failures \subseteq S /\ S \subseteq available
      /\ ListedInOrder(available) => S = available \ Failures
      /\ ListedInOrder(disk) => ListedInOrder(available)
      /\ ListedInOrder(Versions) => ListedInOrder(available)
  BY FailuresRemoved, InOrderOfSome DEF ListsInv
<1> HIDE DEF S
<1>3. /\ S \in SUBSET Versions
      /\ available' = S /\ allFailed' = allFailed \cup Failures
      /\ toStart' = VersionsToStart(S)
      /\ toReload' = VersionsToReload(S)
      /\ toRetire' = VersionsToRetire(S) \ allFailed'
      /\ toCleanup' = VersionsToRetire(S) \cap allFailed'
      /\ UNCHANGED <<environment, states, served, failed, result, requests>>
  BY <1>1, <1>2 DEF S, Failures, AllReloaded
<1>4. /\ Available' = Available
      /\ Registered' = Registered
      /\ Requested(available)' = Requested(S)
      /\ Failures' = Failures
  BY <1>3 DEF Available, Registered, Requested, Failures
<1>6. /\ Requested(S) \subseteq S
      /\ VersionsToStart(S) = Requested(S) \ Registered
      /\ VersionsToReload(S) \subseteq Requested(S) \cap Registered
      /\ VersionsToRetire(S) \subseteq Registered \ Requested(S)
      /\ \A v \in (Registered \ Requested(S)) \ VersionsToRetire(S) :
              vstate[v] \in {"unloading", "end"}
  BY <1>3, ListsComputed
<1> USE DEF SetsAreVersions
<1>7. pc = "reload" /\ pc' = "retire" /\ result' = result /\ toStart = {} /\ toReload = {}
  BY <1>3 DEF StatusInv, AllReloaded
<1>8. TypeOK' /\ RequestsInv'
  <2>1. /\ available' \in SUBSET Versions /\ toStart' \in SUBSET Versions
        /\ toReload' \in SUBSET Versions /\ toRetire' \in SUBSET Versions
        /\ toCleanup' \in SUBSET Versions /\ allFailed' \in SUBSET Versions
    BY <1>1, <1>3, <1>6
  <2>2. failed' \in Seq(Versions)
    BY <1>3, <1>7
  <2>8. TypeOK'
    BY <1>3, <1>7, <2>1, <2>2
  <2>9. RequestsInv'
    BY <1>3, <1>7, <2>1, <2>2, <1>1, <1>2, <1>4 DEF RequestsInv, ListsInv, StatusInv, LoadingInv
  <2> QED BY <2>8, <2>9
<1>9. ListsInv'
  BY <1>1, <1>2, <1>3, <1>4, <1>6, <1>7 DEF ListsInv, RequestsInv, StatusInv, LoadingInv
<1>10. StatusInv'
  BY <1>1, <1>2, <1>3, <1>4, <1>6, <1>7 DEF StatusInv, ListsInv, RequestsInv
<1>11. LoadingInv'
  BY <1>3, <1>7 DEF LoadingInv
<1>12. RetireInv'
  <2>1. result = "OK" => S = available /\ Failures = {}
    <3>1. result = "OK" => failed = <<>>
      BY <1>7 DEF LoadingInv
    <3>2. result = "OK" => Failures = {}
      BY <3>1 DEF Failures
    <3> QED BY <1>2, <3>2
  <2>2. result = "OK" => Requested(S) \subseteq Available \cup byRequest
    BY <2>1, <1>7 DEF LoadingInv
  <2>3. Available \ byRequest \subseteq Requested(S) \cup toRetire'
    BY <1>1, <1>2, <1>3, <1>6 DEF ListsInv, RequestsInv, StatusInv, LoadingInv
  <2> QED BY <1>3, <1>4, <1>6, <1>7, <2>2, <2>3 DEF RetireInv
<1>13. HighestInv'
  <2>1. default \in Failures \ byRequest => default \in toCleanup' \/ DefaultIsStuck
    <3> SUFFICES ASSUME default \in Failures \ byRequest, ~ DefaultIsStuck
                 PROVE  default \in toCleanup'
      OBVIOUS
    <3>1. vstate[default] = "failed" /\ default \in Versions
      BY <1>1, <1>7 DEF LoadingInv
    <3>2. default # 0
      BY <1>1, <3>1
    <3>3. ListedInOrder(Versions)
      BY <3>1, <3>2 DEF DefaultIsStuck
    <3>4. S = available \ Failures
      BY <1>2, <3>3
    <3> QED BY <1>1, <1>3, <1>6, <3>1, <3>4
  <2> QED BY <1>1, <1>3, <1>4, <1>7, <2>1 DEF HighestInv, DefaultIsStuck
<1>14. OkInv'
  BY <1>3, <1>7 DEF OkInv
<1> QED
  BY <1>8, <1>9, <1>10, <1>11, <1>12, <1>13, <1>14

\* Among versions of which at least the policy's choice is left, the policy
\* chooses the same.
LEMMA SameChoice ==
    ASSUME NEW p \in Policies, NEW S \in SUBSET Versions, NEW T \in SUBSET S,
           Filter(p, S) \subseteq T
    PROVE  Filter(p, T) = Filter(p, S)
<1>1. p.kind \in {"all", "latest", "specific"}
  BY PoliciesAssumption
<1>2. CASE p.kind = "all"
  BY <1>2 DEF Filter
<1>3. CASE p.kind = "specific"
  BY <1>3 DEF Filter
<1>4. CASE p.kind = "latest"
  <2> DEFINE Above(A, v) == {w \in A : w > v}
  <2>1. \A A : Filter(p, A) = {v \in A : Cardinality(Above(A, v)) < p.n}
    BY <1>4, Zenon DEF Filter
  <2>2. p.n \in Nat
    BY <1>4, PoliciesAssumption
  <2>3. \A A \in SUBSET S : \A v : /\ IsFiniteSet(Above(A, v))
                                   /\ Cardinality(Above(A, v)) \in Nat
    <3> TAKE A \in SUBSET S
    <3> TAKE v
    <3>1. Above(A, v) \subseteq Versions
      OBVIOUS
    <3> QED BY <3>1, FinitenessAssumption, FS_Subset, FS_CardinalityType
  <2>4. \A A, B \in SUBSET S : \A v, u : Above(A, v) \subseteq Above(B, u) =>
            Cardinality(Above(A, v)) <= Cardinality(Above(B, u))
    BY <2>3, FS_Subset
  <2>5. S \subseteq Nat /\ T \subseteq S /\ T \in SUBSET S
    BY VersionsAssumption
  <2>6. \A v, u \in S : u > v => Cardinality(Above(S, u)) < Cardinality(Above(S, v))
    <3> TAKE v, u \in S
    <3> HAVE u > v
    <3>4. \A w \in S : w > u => w > v
      BY <2>5
    <3>1. /\ Above(S, u) \subseteq Above(S, v) /\ u \in Above(S, v)
          /\ u \notin Above(S, u)
      <4>1. u \in S /\ u > v /\ ~ (u > u)
        BY <2>5
      <4> QED BY <3>4, <4>1
    <3>2. Above(S, u) # Above(S, v)
      BY <3>1
    <3> HIDE DEF Above
    <3> QED BY <2>3, <3>1, <3>2, FS_Subset
  <2>7. ASSUME NEW v \in Filter(p, S) PROVE v \in Filter(p, T)
    <3>1. Above(T, v) \subseteq Above(S, v)
      OBVIOUS
    <3>2. v \in S /\ Cardinality(Above(S, v)) < p.n /\ v \in T
      BY <2>1
    <3>3. Cardinality(Above(T, v)) < p.n
      <4>1. Cardinality(Above(T, v)) <= Cardinality(Above(S, v))
        BY <2>4, <2>5, <3>1
      <4>2. Cardinality(Above(T, v)) \in Nat /\ Cardinality(Above(S, v)) \in Nat
        BY <2>3, <2>5
      <4> HIDE DEF Above
      <4> QED BY <2>2, <3>2, <4>1, <4>2
    <3> QED BY <2>1, <3>2, <3>3
  <2>8. ASSUME NEW v \in Filter(p, T), v \notin Filter(p, S) PROVE FALSE
    <3>1. v \in T /\ Cardinality(Above(T, v)) < p.n
      BY <2>1
    <3>2. ~ (Cardinality(Above(S, v)) < p.n)
      BY <2>1, <2>8, <3>1
    <3> DEFINE Lost == {u \in S \ T : u > v}
               Ranks == {Cardinality(Above(S, u)) : u \in Lost}
    <3>3. Lost # {}
      <4>1. SUFFICES ASSUME Lost = {} PROVE FALSE
        OBVIOUS
      <4>2. Above(S, v) \subseteq Above(T, v)
        BY <4>1
      <4> QED BY <2>2, <2>3, <2>4, <3>1, <3>2, <4>2
    <3>4. PICK u \in Lost : \A w \in Lost : Cardinality(Above(S, u)) <= Cardinality(Above(S, w))
      <4>1. Ranks \in SUBSET Nat /\ Ranks # {}
        <5>1. \A w \in Lost : Cardinality(Above(S, w)) \in Nat
          BY <2>3
        <5> HIDE DEF Above, Lost
        <5> QED BY <3>3, <5>1
      <4>2. PICK m \in Ranks : \A k \in Ranks : m <= k
        <5> HIDE DEF Ranks
        <5> QED BY <4>1, LeastOf
      <4>3. PICK u \in Lost : m = Cardinality(Above(S, u))
        OBVIOUS
      <4>4. \A w \in Lost : Cardinality(Above(S, w)) \in Ranks
        OBVIOUS
      <4> HIDE DEF Above, Lost, Ranks
      <4> QED BY <4>2, <4>3, <4>4
    <3>5. Above(S, u) \subseteq Above(T, v)
      <4> SUFFICES ASSUME NEW w \in Above(S, u) PROVE w \in Above(T, v)
        OBVIOUS
      <4>3. w \in S /\ w > u /\ u > v /\ u \in S /\ v \in T
        BY <3>1
      <4>1. w \in S /\ w > u /\ u > v /\ w > v /\ u \in S
        BY <2>5, <4>3
      <4>2. w \in T
        <5>1. SUFFICES ASSUME w \notin T PROVE FALSE
          OBVIOUS
        <5>2. w \in Lost
          BY <4>1, <5>1
        <5>3. Cardinality(Above(S, u)) <= Cardinality(Above(S, w))
          BY <3>4, <5>2
        <5>4. Cardinality(Above(S, w)) < Cardinality(Above(S, u))
          BY <2>6, <4>1
        <5>5. Cardinality(Above(S, w)) \in Nat /\ Cardinality(Above(S, u)) \in Nat
          BY <2>3
        <5> HIDE DEF Above
        <5> QED BY <5>3, <5>4, <5>5
      <4> QED BY <4>1, <4>2
    <3>6. u \notin Filter(p, S) /\ u \in S
      OBVIOUS
    <3>7. ~ (Cardinality(Above(S, u)) < p.n)
      BY <2>1, <3>6
    <3>8. Cardinality(Above(S, u)) <= Cardinality(Above(T, v))
      <4>1. T \in SUBSET S /\ S \in SUBSET S
        BY <2>5
      <4> HIDE DEF Above
      <4> QED BY <2>4, <3>5, <4>1
    <3>9. Cardinality(Above(T, v)) \in Nat /\ Cardinality(Above(S, u)) \in Nat
      BY <2>3, <2>5
    <3> HIDE DEF Above
    <3> QED BY <2>2, <3>1, <3>7, <3>8, <3>9
  <2> QED BY <2>7, <2>8
<1> QED BY <1>1, <1>2, <1>3, <1>4

\* What is left is what the policy requests of the available versions; those
\* that failed do not load, and no request has them in hand.
LEMMA ApplicationEndsKeeps ==
    ASSUME PolicyInv, ApplicationEnds
    PROVE  PolicyInv'
<1> USE DEF PolicyInv, TypeOK, ApplicationEnds, ClearLists, environment, states, served,
            requests, Loading, Retiring, Gone, Control, VersionStates
<1>1. SetsAreVersions
  BY InvSets
<1>2. Available' = Available /\ Registered' = Registered
  BY DEF Available, Registered
<1>3. Failures' = {} /\ failed' = <<>> /\ failed' \in Seq(Versions)
  BY DEF Failures
<1> USE DEF SetsAreVersions
<1>4. TypeOK' /\ RequestsInv'
  <2>1. \A s \in {available', toStart', toReload', toRetire', toCleanup',
                  allFailed'} : s = {}
    OBVIOUS
  <2>8. TypeOK'
    BY <1>3, <2>1
  <2>9. RequestsInv'
    BY <1>3, <2>1, <1>2 DEF RequestsInv, ListsInv, StatusInv, LoadingInv
  <2> QED BY <2>8, <2>9
<1>5. ListsInv'
  BY <1>1, <1>2, <1>3 DEF ListsInv, RequestsInv, StatusInv, LoadingInv
<1>6. StatusInv' /\ LoadingInv' /\ RetireInv'
  BY <1>1, <1>2, <1>3 DEF StatusInv, LoadingInv, RetireInv
<1>7. HighestInv'
  BY <1>1, <1>2, <1>3 DEF HighestInv, DefaultIsStuck
<1>8. OkInv'
  <2> SUFFICES ASSUME result = "OK", blacklist = {} PROVE Served(available)
    <3>1. available \in SUBSET disk
      BY DEF ListsInv
    <3>2. Served(available) => Served(available)' \/ \E A \in SUBSET disk' : Served(A)'
      BY <1>2, <3>1 DEF Served
    <3> QED BY <3>1, <3>2, <1>2 DEF OkInv, Served
  <2>1. Requested(available) = Filter(policy, available)
    BY DEF Requested
  <2>2. /\ Available \ byRequest \subseteq Requested(available) \cup toRetire /\ toRetire = {}
        /\ Requested(available) \subseteq Available \cup byRequest
    BY DEF RetireInv
  <2>3. \A v \in disk : v \in good \cup asked \cup byRequest \cup Available => v \in available
    BY <1>1 DEF ListsInv, RequestsInv
  <2> QED BY <2>1, <2>2, <2>3 DEF Served
<1> QED
  BY <1>4, <1>5, <1>6, <1>7, <1>8

\* No version is left.
LEMMA AllVersionsGoneKeeps ==
    ASSUME PolicyInv, AllVersionsGone
    PROVE  PolicyInv'
<1> USE DEF PolicyInv, TypeOK, AllVersionsGone, ClearLists, environment, states, served,
            requests, Loading, Retiring, Gone, Control, VersionStates
<1>1. SetsAreVersions
  BY InvSets
<1>2. Available' = Available /\ Registered' = Registered
  BY DEF Available, Registered
<1>3. Failures' = {} /\ failed' = <<>> /\ failed' \in Seq(Versions)
  BY DEF Failures
<1> USE DEF SetsAreVersions
<1>4. TypeOK' /\ RequestsInv'
  <2>1. \A s \in {available', toStart', toReload', toRetire', toCleanup',
                  allFailed'} : s = {}
    OBVIOUS
  <2>8. TypeOK'
    BY <1>3, <2>1
  <2>9. RequestsInv'
    BY <1>3, <2>1, <1>2 DEF RequestsInv, ListsInv, StatusInv, LoadingInv
  <2> QED BY <2>8, <2>9
<1>5. ListsInv'
  BY <1>1, <1>2, <1>3 DEF ListsInv, RequestsInv, StatusInv, LoadingInv
<1>6. StatusInv' /\ LoadingInv' /\ RetireInv'
  BY <1>1, <1>2, <1>3 DEF StatusInv, LoadingInv, RetireInv
<1>7. HighestInv'
  BY <1>1, <1>2, <1>3 DEF HighestInv, DefaultIsStuck
<1>8. OkInv'
  BY DEF OkInv, RetireInv
<1> QED
  BY <1>4, <1>5, <1>6, <1>7, <1>8

\* An application starts with what the policy requests on its lists.
LEMMA ReloadModelWithVersionsKeeps ==
    ASSUME PolicyInv, ReloadModelWithVersions
    PROVE  PolicyInv'
<1> USE DEF PolicyInv, TypeOK, environment, states, served, requests,
            Loading, Retiring, Gone, Control, VersionStates
<1>1. SetsAreVersions
  BY InvSets
<1>2. /\ pc = "idle" /\ result' = "OK"
      /\ available' = disk /\ allFailed' = {} /\ toCleanup' = {} /\ failed' = <<>>
      /\ toStart' = VersionsToStart(disk)
      /\ toReload' = VersionsToReload(disk)
      /\ toRetire' = VersionsToRetire(disk)
      /\ UNCHANGED <<environment, states, served, requests>>
      /\ \/ pc' = "reload" /\ toStart' = {}
         \/ pc' = "add"
  BY DEF ReloadModelWithVersions
<1>3. /\ Available' = Available /\ Registered' = Registered
      /\ Failures' = {} /\ Requested(available)' = Requested(disk)
      /\ failed' \in Seq(Versions)
  BY <1>2 DEF Available, Registered, Requested, Failures
<1>4. /\ Requested(disk) \subseteq disk
      /\ VersionsToStart(disk) = Requested(disk) \ Registered
      /\ VersionsToReload(disk) \subseteq Requested(disk) \cap Registered
      /\ \A v \in (Requested(disk) \cap Registered) \ VersionsToReload(disk) :
              vstate[v] \in {"loading", "available"}
      /\ VersionsToRetire(disk) \subseteq Registered
  BY ListsComputed
<1> USE DEF SetsAreVersions
<1>5. TypeOK' /\ RequestsInv'
  <2>1. /\ available' \in SUBSET Versions /\ toStart' \in SUBSET Versions
        /\ toReload' \in SUBSET Versions /\ toRetire' \in SUBSET Versions
        /\ toCleanup' \in SUBSET Versions /\ allFailed' \in SUBSET Versions
    BY <1>1, <1>2, <1>4
  <2> QED BY <1>2, <1>3, <2>1 DEF RequestsInv, ListsInv, StatusInv, LoadingInv
<1>6. ListsInv'
  BY <1>1, <1>2, <1>3, <1>4 DEF ListsInv, RequestsInv, StatusInv, LoadingInv
<1>7. StatusInv'
  BY <1>1, <1>2, <1>3, <1>4 DEF StatusInv
<1>8. LoadingInv'
  <2>1. \A v \in Versions \ byRequest : vstate[v] # "loading"
    BY <1>2 DEF StatusInv
  <2>2. Requested(disk) \subseteq toStart' \cup toReload' \cup Available \cup byRequest
    BY <1>1, <1>2, <1>4, <2>1
  <2> QED BY <1>2, <1>3, <2>2 DEF LoadingInv
<1>9. RetireInv' /\ OkInv'
  BY <1>2 DEF RetireInv, OkInv
<1>10. HighestInv'
  BY <1>1, <1>2, <1>3 DEF HighestInv, DefaultIsStuck
<1> QED
  BY <1>5, <1>6, <1>7, <1>8, <1>9, <1>10

\* A model that goes altogether is not applied.
LEMMA AllVersionsKeeps ==
    ASSUME PolicyInv, RetireAllVersions \/ CleanupAllVersions
    PROVE  PolicyInv'
<1> USE DEF PolicyInv, TypeOK, RetireAllVersions, CleanupAllVersions, environment,
            states, served, requests, Loading, Retiring, Gone, Control, VersionStates
<1>1. SetsAreVersions
  BY InvSets
<1>2. /\ Available' = Available /\ Registered' = Registered
      /\ Failures' = Failures
  BY DEF Available, Registered, Failures
<1> USE DEF SetsAreVersions
<1>3. TypeOK' /\ RequestsInv'
  <2>1. TypeOK'
    BY <1>1
  <2>2. RequestsInv'
    BY <1>1, <1>2 DEF RequestsInv, ListsInv, StatusInv, LoadingInv
  <2> QED BY <2>1, <2>2
<1>4. ListsInv'
  BY <1>1, <1>2 DEF ListsInv, RequestsInv, StatusInv, LoadingInv
<1>5. StatusInv' /\ LoadingInv' /\ RetireInv'
  BY <1>1, <1>2 DEF StatusInv, LoadingInv, RetireInv
<1>6. HighestInv'
  BY <1>1, <1>2 DEF HighestInv, DefaultIsStuck
<1>7. OkInv'
  BY DEF OkInv
<1> QED
  BY <1>3, <1>4, <1>5, <1>6, <1>7

\* The environment changes between applications only.
LEMMA EnvironmentKeeps ==
    ASSUME PolicyInv, Environment
    PROVE  PolicyInv'
<1> USE DEF PolicyInv, TypeOK, EnvironmentChanges,
            states, served, lists, requests, Loading, Retiring, Gone, Control, VersionStates
<1>1. /\ EnvironmentChanges
      /\ disk' \in SUBSET Versions /\ good' \in SUBSET Versions
      /\ policy' \in Policies /\ revision' \in Revisions
      /\ blacklist' \in SUBSET Versions
  BY DEF Environment, VersionAppearsOrGoes, FilesChange, BlacklistChanges,
         ConfigurationChanges
<1>2. /\ Available' = Available /\ Registered' = Registered
      /\ Failures' = Failures /\ Failures = {}
  BY <1>1 DEF Available, Registered, Failures, ListsInv
<1>3. TypeOK' /\ RequestsInv'
  <2>1. TypeOK'
    BY <1>1
  <2>2. RequestsInv'
    BY <1>1, <1>2 DEF RequestsInv, ListsInv, StatusInv, LoadingInv
  <2> QED BY <2>1, <2>2
<1>4. ListsInv'
  BY <1>1, <1>2 DEF ListsInv, RequestsInv, StatusInv, LoadingInv
<1>5. StatusInv' /\ LoadingInv' /\ RetireInv' /\ OkInv'
  BY <1>1, <1>2 DEF StatusInv, LoadingInv, RetireInv, OkInv
<1>6. HighestInv'
  BY <1>1, <1>2 DEF HighestInv, DefaultIsStuck
<1> QED
  BY <1>3, <1>4, <1>5, <1>6

\* A request that finds a version available may ask for its reload; it is not
\* one that failed.
LEMMA AsksForShapeKeeps ==
    ASSUME PolicyInv, NEW v \in Versions, AsksForShape(v)
    PROVE  PolicyInv'
<1> USE DEF PolicyInv, TypeOK, AsksForShape, environment, states, served, lists,
            Loading, Retiring, Gone, Control, VersionStates
<1>1. SetsAreVersions
  BY InvSets
<1>2. /\ Available' = Available /\ Registered' = Registered
      /\ Failures' = Failures /\ Requested(available)' = Requested(available)
      /\ v \in Available
  BY DEF Available, Registered, Failures, Requested
<1> USE DEF SetsAreVersions
<1>3. TypeOK' /\ RequestsInv'
  BY <1>1, <1>2 DEF RequestsInv, ListsInv, StatusInv
<1>4. ListsInv' /\ StatusInv' /\ LoadingInv' /\ RetireInv'
  BY <1>1, <1>2 DEF ListsInv, StatusInv, LoadingInv, RetireInv
<1>5. HighestInv'
  BY <1>1, <1>2 DEF HighestInv, DefaultIsStuck
<1>6. OkInv'
  <2>1. \A A : Served(A) => Served(A)'
    BY <1>2 DEF Served
  <2> QED BY <2>1 DEF OkInv
<1> QED
  BY <1>3, <1>4, <1>5, <1>6

\* A version in the hands of a request, which the lists leave out.
IsTaken(v) ==
    /\ v \in Registered /\ v \in byRequest'
    /\ vstate' \in [Versions -> VersionStates]
    /\ vstate'[v] # "none"
    /\ \A w \in Versions \ {v} : vstate'[w] = vstate[w]
    /\ byRequest' = byRequest \cup {v}
    /\ Registered' = Registered
    /\ Available' \ {v} = Available \ {v}
    /\ Failures' = Failures
    /\ Requested(available)' = Requested(available)

\* Its reload changes the status of no other version.
LEMMA RequestTakes ==
    ASSUME PolicyInv, NEW v \in Versions, StartsReshape(v) \/ EndsReshape(v)
    PROVE  IsTaken(v)
<1> USE DEF PolicyInv, TypeOK, StartsReshape, EndsReshape, environment, lists
<1>1. v \in Registered /\ byRequest' = byRequest \cup {v}
  BY DEF RequestsInv
<1>2. /\ vstate' \in [Versions -> VersionStates]
      /\ vstate'[v] # "none"
      /\ \A w \in Versions \ {v} : vstate'[w] = vstate[w]
  BY DEF VersionStates
<1>3. Registered' = Registered /\ Available' \ {v} = Available \ {v}
  BY <1>1, <1>2 DEF Registered, Available
<1>4. Failures' = Failures /\ Requested(available)' = Requested(available)
  BY <1>3 DEF Failures, Requested
<1> QED
  BY <1>1, <1>2, <1>3, <1>4 DEF IsTaken

\* A request that reloads a version takes it out of what is claimed.
LEMMA ReshapeKeeps ==
    ASSUME PolicyInv, NEW v \in Versions, StartsReshape(v) \/ EndsReshape(v)
    PROVE  PolicyInv'
<1> USE DEF PolicyInv, TypeOK, environment, lists,
            Loading, Retiring, Gone, Control, VersionStates
<1>1. SetsAreVersions
  BY InvSets
<1>2. IsTaken(v)
  BY RequestTakes
<1>3. /\ UNCHANGED <<environment, loadedWith, default, pc, lists, result>>
      /\ v \in asked \/ v \in byRequest
      /\ v \notin byRequest => v \notin Locked
      /\ asked' \subseteq asked
      /\ reshaping' \subseteq reshaping \cup {v}
  BY DEF StartsReshape, EndsReshape, RequestsInv
<1>4. asked' \cup byRequest' = asked \cup byRequest
  BY <1>2 DEF StartsReshape, EndsReshape, IsTaken, RequestsInv
<1> USE DEF SetsAreVersions, IsTaken
<1>5. TypeOK' /\ RequestsInv'
  <2>1. TypeOK'
    BY <1>1, <1>2, <1>3, <1>4
  <2>2. RequestsInv'
    BY <1>1, <1>2, <1>3, <1>4 DEF RequestsInv, Locked
  <2> QED BY <2>1, <2>2
<1>6. ListsInv'
  BY <1>1, <1>2, <1>3 DEF ListsInv
<1>7. StatusInv'
  BY <1>1, <1>2, <1>3 DEF StatusInv, Locked
<1>8. LoadingInv' /\ RetireInv'
  <2>1. /\ Available' \ byRequest' \subseteq Available \ byRequest
        /\ Available \cup byRequest \subseteq Available' \cup byRequest'
    BY <1>1, <1>2
  <2>2. LoadingInv'
    BY <1>1, <1>2, <1>3, <2>1 DEF LoadingInv
  <2>3. RetireInv'
    <3>1. /\ UNCHANGED <<pc, toRetire, toCleanup, result>>
          /\ Requested(available)' = Requested(available)
      BY <1>2, <1>3
    <3> HIDE DEF IsTaken, SetsAreVersions, TypeOK
    <3> QED BY <3>1, <2>1 DEF RetireInv
  <2> QED BY <2>2, <2>3
<1>9. HighestInv'
  BY <1>1, <1>2, <1>3 DEF HighestInv, DefaultIsStuck
<1>10. OkInv'
  <2>1. \A A : Served(A) => Served(A)'
    BY <1>1, <1>2, <1>3, <1>4 DEF Served
  <2> QED BY <2>1, <1>3 DEF OkInv
<1> QED
  BY <1>5, <1>6, <1>7, <1>8, <1>9, <1>10

\* No version is known at first.
LEMMA InitPolicy == Init => PolicyInv
<1> SUFFICES ASSUME Init PROVE PolicyInv
  OBVIOUS
<1> USE DEF Init
<1>1. Available = {} /\ Registered = {} /\ Failures = {} /\ failed \in Seq(Versions)
  BY DEF Available, Registered, Failures
<1>2. TypeOK /\ RequestsInv
  BY <1>1 DEF TypeOK, RequestsInv, VersionStates, Control
<1>3. ListsInv /\ StatusInv /\ LoadingInv /\ RetireInv /\ HighestInv /\ OkInv
  BY <1>1 DEF ListsInv, StatusInv, LoadingInv, RetireInv, HighestInv,
              OkInv, DefaultIsStuck, Loading, Retiring, Gone
<1> QED
  BY <1>2, <1>3 DEF PolicyInv

\* Every step keeps the invariant.
LEMMA NextKeepsPolicy ==
    ASSUME VersionsFitInt, PolicyInv, [Next]_vars
    PROVE  PolicyInv'
<1>1. CASE \E v \in Versions : ApplicationStep(v)
  BY <1>1, AddVersionKeeps, AddSucceedsKeeps, AddFailsKeeps,
     AddUpdatesDefaultKeeps, ReloadVersionKeeps, ReloadSucceedsKeeps,
     ReloadFailsKeeps, ReloadUpdatesDefaultKeeps, RetireUpdatesDefaultKeeps,
     RetireVersionKeeps, RetireEndsKeeps, CleanupUpdatesDefaultKeeps,
     CleanupFailedLoadKeeps, RetireAllNextKeeps, RetireAllUnloadedKeeps,
     RetireAllUpdatesDefaultKeeps, CleanupAllNextKeeps,
     CleanupAllUpdatesDefaultKeeps
     DEF ApplicationStep
<1>2. CASE ListDone
  BY <1>2, AllAddedKeeps, AddFallsBackKeeps, AllReloadedKeeps,
     ApplicationEndsKeeps, AllVersionsGoneKeeps DEF ListDone
<1>3. CASE Environment
  BY <1>3, EnvironmentKeeps
<1>4. CASE Choice
  BY <1>4, ReloadModelWithVersionsKeeps, AllVersionsKeeps DEF Choice
<1>5. CASE \E v \in Versions : RequestStep(v)
  BY <1>5, AsksForShapeKeeps, ReshapeKeeps DEF RequestStep
<1>6. CASE UNCHANGED vars
  BY <1>6 DEF vars, environment, states, served, lists, requests, PolicyInv, TypeOK,
     RequestsInv, ListsInv, StatusInv, LoadingInv, RetireInv, HighestInv,
     DefaultIsStuck, OkInv, Served, Available, Registered, Failures, Requested,
     IsFirst
<1> QED
  BY <1>1, <1>2, <1>3, <1>4, <1>5, <1>6 DEF Next, Application

\* Between applications nothing is left of the exceptions but what requests
\* have reloaded.
LEMMA PolicyInvServes == PolicyInv => PolicyServed
<1> SUFFICES ASSUME PolicyInv PROVE PolicyServed
  OBVIOUS
<1> USE DEF PolicyInv
<1>1. DefaultIsHighest
  BY DEF HighestInv, DefaultIsHighest, DefaultIsStuck
<1>2. OkMeansServed
  <2> SUFFICES ASSUME pc = "idle", result = "OK", blacklist = {}
               PROVE  Available \ byRequest = Expected \ byRequest
    BY DEF OkMeansServed
  <2> DEFINE T == {v \in disk : v \in good \cup byRequest \/ vstate[v] = "available"}
  <2>1. PICK A \in SUBSET disk : Served(A)
    BY DEF OkInv
  <2>2. A \in SUBSET Versions /\ T \in SUBSET A /\ policy \in Policies
    BY <2>1 DEF Served, TypeOK, Available
  <2>3. Filter(policy, A) \subseteq A
    BY <2>2, FilterChooses
  <2>4. Filter(policy, A) \subseteq T
    BY <2>1, <2>3 DEF Served, Available
  <2>5. Filter(policy, T) = Filter(policy, A)
    <3> HIDE DEF T
    <3> QED BY <2>2, <2>4, SameChoice
  <2>6. Expected = Filter(policy, A)
    BY <2>5 DEF Expected
  <2> QED BY <2>1, <2>6 DEF Served
<1>3. FailedAreRemoved
  BY DEF FailedAreRemoved, ListsInv
<1> QED
  BY <1>1, <1>2, <1>3 DEF PolicyServed

\* After an application the model serves what the policy chooses among the
\* versions that load, and the default is the highest of them; whatever fails to
\* load on the way, however the directories are listed and whatever versions
\* requests reload meanwhile, with the exceptions that DefaultIsHighest and
\* OkMeansServed name; for every set of versions, policies and configurations,
\* if version numbers fit an int.
THEOREM PolicyIsServed ==
    ASSUME VersionsFitInt
    PROVE  Spec => []PolicyServed
<1>1. PolicyInv /\ [Next]_vars => PolicyInv'
  BY NextKeepsPolicy
<1> QED
  BY <1>1, InitPolicy, PolicyInvServes, PTL DEF Spec

\* In an application in which nothing failed, a version is retired only when
\* all that the policy asks for is available or in the hands of a request; for
\* every set of versions that fit an int, in every order of the listing.
THEOREM ReplacementsComeFirst ==
    ASSUME VersionsFitInt
    PROVE  Spec => ReplacedBeforeRetired
<1>1. PolicyInv /\ [Next]_vars => PolicyInv'
  BY NextKeepsPolicy
<1>2. PolicyInv /\ [Next]_vars
        => [pc = "retiring" /\ pc' = "unloading" /\ result = "OK" =>
              \A w \in Requested(available) \ byRequest :
                  vstate[w] = "available"]_vars
  BY DEF PolicyInv, RetireInv, Retiring, Available
<1> QED
  BY <1>1, <1>2, InitPolicy, PTL DEF Spec, ReplacedBeforeRetired

-----------------------------------------------------------------------------
(* The configuration file: what is in the registries and in the variables *)
(* of a load.                                                             *)

ModelStates == {"none", "new", "available", "failed", "retired"}
PipelineStates == {"none", "available", "failed", "stale", "failed_stale",
                   "retired"}
GraphStates == {"none", "available", "failed", "retired", "reloading"}

ModelEntries == {e \in MainEntries \cup SubEntries : e.kind = "model"}
Configs == {Config(e) : e \in ModelEntries} \cup {NoConfig}

Models == [state : ModelStates, config : Configs]
Pipelines == [state : PipelineStates, uses : SUBSET Names,
              library : {p.library : p \in PipelineEntries} \cup {NoName},
              subs : SUBSET Names]
GraphVersions == {g.ver : g \in GraphEntries} \cup {0}
Graphs == [state : GraphStates, ver : GraphVersions]

RegistriesInv ==
    /\ models \in [Names -> Models]
    /\ pipelines \in [Names -> Pipelines]
    /\ \A n \in Names : pipelines[n].subs \subseteq pipelines[n].uses
    /\ graphs \in [Names -> Graphs]
    /\ aliases \in [Names -> Names \cup {NoName}]
    /\ unchecked \subseteq Names
    /\ servedConfigs \in [Names -> Configs]

Errors == {"OK", "CONFIG_FILE_INVALID", "JSON_INVALID", "MODEL_NAME_OCCUPIED",
           "INVALID_METRICS_ENDPOINT", "CUSTOM_LOADER_LIBRARY_INVALID",
           "MODEL_CONFIG_INVALID", "PLUGIN_CONFIG_INVALID",
           "REQUESTED_DYNAMIC_PARAMETERS_ON_SUBSCRIBED_MODEL",
           "MODEL_LOAD_FAILED", "PIPELINE_DEFINITION_INVALID",
           "PIPELINE_DEFINITION_ALREADY_EXIST",
           "MEDIAPIPE_GRAPH_NAME_OCCUPIED",
           "MEDIAPIPE_GRAPH_INITIALIZATION_ERROR", "INTERNAL_ERROR"}

AllEntries == MainEntries \cup SubEntries \cup GraphEntries \cup PipelineEntries
Gated == [name : Names, config : Configs]

Loads == [stage : Stages, doc : Files \cup {EmptyFile}, reads : Nat,
          error : Errors, todo : Seq(AllEntries),
          after : {"none", "subs", "more", "retire", "graphs", "reload"},
          inFile : SUBSET Names, invalid : SUBSET Names,
          fresh : [Names -> Configs], gated : Seq(Gated),
          graphs : Seq(GraphEntries), subs : Seq(GraphEntries)]

\* What is left to do in each section is of that section.
TodoInv ==
    /\ load.stage = "models" =>
          \/ load.after = "subs" /\ load.todo \in Seq(MainEntries)
          \/ load.after = "more" /\ load.todo \in Seq(SubEntries)
    /\ load.stage = "pipelines" => load.todo \in Seq(PipelineEntries)
    /\ load.stage = "graphs" => load.todo \in Seq(GraphEntries)

\* Whoever loads, and the watcher until it is done, holds configMtx.
OwnerInv ==
    /\ file \in Contents /\ md5 \in Contents
    /\ owner \in Threads \cup {NoOne}
    /\ at \in [Threads -> {"start", "idle", "load", "update", "stopped",
                           "check", "wait"}]
    /\ \A c \in Clients : at[c] # "start"
    /\ \A t \in Threads : at[t] \in {"start", "load"} => owner = t
    /\ at[Watcher] \in {"update", "stopped"} => owner = Watcher
    /\ (load.stage # "none") = (\E t \in Threads : at[t] \in {"start", "load"})

LoadInv == load \in Loads /\ TodoInv

\* One graph at most is between the two steps of its reload, the graph the
\* entry at the head of the list stands for.
ReloadingInv ==
    /\ load.stage = "graphs" /\ load.after = "reload" =>
          /\ load.todo # <<>>
          /\ \E n \in Names : graphs[n].state = "reloading"
    /\ \A n \in Names :
          graphs[n].state = "reloading" =>
              /\ load.stage = "graphs" /\ load.after = "reload"
              /\ \/ n = Head(load.todo).name
                 \/ aliases[Head(load.todo).name] = n
    /\ \A m, n \in Names :
          graphs[m].state = "reloading" /\ graphs[n].state = "reloading"
          => m = n

TypeInv == RegistriesInv /\ LoadInv /\ OwnerInv /\ ReloadingInv

\* A request sees the file in every load it waits for, and in its own.
SeesInv ==
    /\ sees \in [Clients -> SUBSET Contents]
    /\ \A c \in Clients :
          /\ at[c] # "idle" => file \in sees[c]
          /\ at[c] = "update" => md5 \in sees[c]
          /\ at[c] = "load" /\ (load.stage # "read" \/ load.reads > 0)
                => md5 \in sees[c]

\* A model is never forgotten, so one that serves, or was refused, is there.
ModelsInv ==
    /\ \A n \in Names : servedConfigs[n] # NoConfig => ModelExists(n)
    /\ \A n \in Names : load.fresh[n] # NoConfig => ModelExists(n)
    /\ \A i \in DOMAIN load.gated : ModelExists(load.gated[i].name)

\* An alias was asked for by a graph of its name.
AliasInv ==
    \A n \in Names :
        aliases[n] # NoName =>
            \E g \in GraphEntries : g.name = aliases[n] /\ n \in g.aliases

Exclusive ==
    \A n \in Names :
        /\ ModelExists(n) => ~PipelineExists(n)
        /\ IsRegistered(graphs, n) => ~ModelExists(n) /\ ~PipelineExists(n)
        /\ aliases[n] # NoName /\ n \notin unchecked =>
              /\ ~ModelExists(n) /\ ~PipelineExists(n)
              /\ ~IsRegistered(graphs, n)

NamesInv ==
    TypeInv /\ ModelsInv /\ AliasInv /\ Exclusive

-----------------------------------------------------------------------------
(* The files *)

LEMMA SeqSubset ==
    ASSUME NEW S, NEW T, S \subseteq T, NEW s \in Seq(S)
    PROVE  s \in Seq(T)
<1>1. s \in [1 .. Len(s) -> S] /\ Len(s) \in Nat
  OBVIOUS
<1>2. s \in [1 .. Len(s) -> T]
  BY <1>1
<1> QED
  BY <1>1, <1>2

LEMMA HeadAndTail ==
    ASSUME NEW S, NEW s \in Seq(S), s # <<>>
    PROVE  Head(s) \in S /\ Tail(s) \in Seq(S)
OBVIOUS

\* The lists of a file hold its entries, those of an empty one none.
LEMMA FilesAreLists ==
    ASSUME NEW f \in Files \cup {EmptyFile}
    PROVE  /\ f.models \in Seq(MainEntries)
           /\ f.graphs \in Seq(GraphEntries)
           /\ f.pipelines \in Seq(PipelineEntries)
<1>1. CASE f = EmptyFile
  BY <1>1 DEF EmptyFile
<1>2. CASE f \in Files
  <2>1. /\ f.models \in Seq(Entries(f.models))
        /\ f.graphs \in Seq(Entries(f.graphs))
        /\ f.pipelines \in Seq(Entries(f.pipelines))
    BY <1>2, FilesAssumption DEF IsArray
  <2>2. /\ Entries(f.models) \subseteq MainEntries
        /\ Entries(f.graphs) \subseteq GraphEntries
        /\ Entries(f.pipelines) \subseteq PipelineEntries
    BY <1>2 DEF MainEntries, GraphEntries, PipelineEntries
  <2> QED
    BY <2>1, <2>2, SeqSubset
<1> QED
  BY <1>1, <1>2

LEMMA SubsAreLists ==
    ASSUME NEW g \in GraphEntries
    PROVE  g.sub \in Seq(SubEntries)
<1>1. g.sub \in Seq(Entries(g.sub)) /\ Entries(g.sub) \subseteq SubEntries
  BY FilesAssumption DEF IsArray, SubEntries
<1> QED
  BY <1>1, SeqSubset

\* Names and configurations of the entries.
LEMMA EntriesTyped ==
    /\ \A e \in AllEntries : e.name \in Names
    /\ \A e \in MainEntries \cup SubEntries :
          e.kind = "model" => Config(e) \in Configs
    /\ \A e \in MainEntries : e.kind = "graph" => e \in GraphEntries
    /\ \A g \in GraphEntries : g.aliases \subseteq Names /\ g.ver \in GraphVersions
    /\ \A p \in PipelineEntries :
          /\ p.uses \subseteq Names
          /\ p.library \in {q.library : q \in PipelineEntries} \cup {NoName}
    /\ NoConfig \in Configs
<1>1. \A e \in AllEntries : e.name \in Names
  BY FilesAssumption DEF AllEntries
<1>2. \A e \in MainEntries \cup SubEntries :
         e.kind = "model" => Config(e) \in Configs
  BY DEF Configs, ModelEntries
<1>3. \A e \in MainEntries : e.kind = "graph" => e \in GraphEntries
  BY DEF GraphEntries
<1>4. \A g \in GraphEntries : g.aliases \subseteq Names /\ g.ver \in GraphVersions
  BY FilesAssumption DEF GraphVersions
<1>5. \A p \in PipelineEntries : p.uses \subseteq Names
  BY FilesAssumption
<1> QED
  BY <1>1, <1>2, <1>3, <1>4, <1>5 DEF Configs

\* The types do not depend on the state.
LEMMA TypesConstant ==
    Loads' = Loads /\ Models' = Models /\ Pipelines' = Pipelines /\ Graphs' = Graphs
BY DEF Loads, Stages, EmptyFile, Errors, AllEntries, MainEntries, SubEntries,
       GraphEntries, PipelineEntries, Entries, Configs, ModelEntries, Config,
       NoConfig, Gated, Models, ModelStates, Pipelines, PipelineStates, Graphs,
       GraphStates, GraphVersions

-----------------------------------------------------------------------------
(* One model *)

\* What becomes of a model is a model, and a model that was there stays.
LEMMA ReloadedModel ==
    ASSUME RegistriesInv, NEW n \in Names, NEW c \in Configs
    PROVE  /\ Reloaded(n, c).model \in Models
           /\ Reloaded(n, c).status \in Errors \cup {"OK_RELOADED", "OK_NOT_RELOADED"}
           /\ ModelExists(n) => Reloaded(n, c).model.state # "none"
           /\ Reloaded(n, c).status
                 # "REQUESTED_DYNAMIC_PARAMETERS_ON_SUBSCRIBED_MODEL"
                 => Reloaded(n, c).model.state # "none"
<1> DEFINE m == models[n]
<1>1. m \in Models
  BY DEF RegistriesInv
<1>2. /\ [m EXCEPT !.state = IF @ \in {"none", "new"} THEN "new" ELSE "retired"]
            \in Models
      /\ [m EXCEPT !.state = IF @ \in {"none", "new"} THEN "new" ELSE "retired"].state
            # "none"
  BY <1>1 DEF Models, ModelStates
<1>3. /\ [state |-> "failed", config |-> c] \in Models
      /\ [state |-> "available", config |-> c] \in Models
  BY DEF Models, ModelStates
<1> QED
  BY <1>1, <1>2, <1>3 DEF Reloaded, ModelExists, IsRegistered, Serves, Errors

\* A notification changes the state of a pipeline that is there.
LEMMA NotifiedPipelines ==
    ASSUME RegistriesInv, NEW changed
    PROVE  /\ Notified(changed) \in [Names -> Pipelines]
           /\ \A n \in Names :
                 /\ Notified(changed)[n].state = "none"
                       <=> pipelines[n].state = "none"
                 /\ Notified(changed)[n].uses = pipelines[n].uses
                 /\ Notified(changed)[n].subs = pipelines[n].subs
                 /\ Notified(changed)[n].library = pipelines[n].library
<1> SUFFICES ASSUME NEW n \in Names
             PROVE  /\ Notified(changed)[n] \in Pipelines
                    /\ Notified(changed)[n].state = "none"
                          <=> pipelines[n].state = "none"
                    /\ Notified(changed)[n].uses = pipelines[n].uses
                    /\ Notified(changed)[n].subs = pipelines[n].subs
                    /\ Notified(changed)[n].library = pipelines[n].library
  BY DEF Notified
<1> DEFINE p == pipelines[n]
           s == CASE p.state = "available" -> "stale"
                  [] p.state = "failed" -> "failed_stale"
                  [] OTHER -> p.state
<1>1. p \in Pipelines
  BY DEF RegistriesInv
<1>2. Notified(changed)[n] = IF p.subs \cap changed = {} THEN p
                             ELSE [p EXCEPT !.state = s]
  BY DEF Notified
<1>3. s \in PipelineStates /\ (s = "none" <=> p.state = "none")
  BY <1>1 DEF Pipelines, PipelineStates
<1> HIDE DEF p, s
<1>4. Notified(changed)[n] \in Pipelines
  BY <1>1, <1>2, <1>3 DEF Pipelines
<1> QED
  BY <1>1, <1>2, <1>3, <1>4 DEF p, Pipelines

-----------------------------------------------------------------------------
(* The steps of a load *)

LEMMA LoadStepFrame ==
    ASSUME LoadInv, md5 \in Contents, file \in Contents, LoadStep
    PROVE  /\ load.stage # "none" /\ load'.stage # "none"
           /\ UNCHANGED <<threads, outside>> /\ md5' \in Contents
<1> USE DEF LoadInv, outside, threads, registries, Contents, EndLoad
<1> HIDE DEF LoadInv
<1>1. load \in Loads
  BY DEF LoadInv
<1>2. CASE ParseConfig
  BY <1>1, <1>2 DEF ParseConfig, Loads
<1>3. CASE LoadCustomLoadersConfig \/ ParseMediapipeConfig
  BY <1>1, <1>3 DEF LoadCustomLoadersConfig, ParseMediapipeConfig, Loads
<1>4. CASE LoadModel
  BY <1>1, <1>4 DEF LoadModel, SkipInvalid, ReloadListed, Loads
<1>5. CASE LoadMediapipeSubConfigModels
  <2>1. PICK s \in Stages \ {"none"} : load.stage # "none" /\ load'.stage = s
    <3>1. CASE load.stage = "models" /\ load' = [load EXCEPT !.stage = "subs",
                  !.subs = IF load.after = "subs" THEN load.graphs ELSE @]
      BY <1>1, <3>1 DEF Loads, Stages
    <3>2. CASE load.stage = "subs" /\ load' = [load EXCEPT !.stage = "models",
                  !.after = "more", !.todo = Head(load.subs).sub, !.subs = Tail(@)]
      BY <1>1, <3>2 DEF Loads, Stages
    <3>3. CASE load.stage = "subs" /\ load' = [load EXCEPT !.subs = <<>>]
      BY <1>1, <3>3 DEF Loads, Stages
    <3>4. CASE load.stage = "subs" /\ load' = [load EXCEPT !.stage = "retire"]
      BY <1>1, <3>4 DEF Loads, Stages
    <3> QED
      BY <1>5, <3>1, <3>2, <3>3, <3>4 DEF LoadMediapipeSubConfigModels
  <2> QED
    BY <1>5, <2>1 DEF LoadMediapipeSubConfigModels
<1>9. CASE RetireModelsRemovedFromConfigFile \/ LoadCustomNodeLibrariesConfig
  BY <1>1, <1>9
     DEF RetireModelsRemovedFromConfigFile, LoadCustomNodeLibrariesConfig, Loads
<1>6. CASE ProcessPipelineConfig \/ RetirePipelinesOtherThan
           \/ RetireGraphsOtherThan
  BY <1>1, <1>6
     DEF ProcessPipelineConfig, RetirePipelinesOtherThan, RetireGraphsOtherThan,
         Loads
<1>7. CASE ProcessMediapipeConfig
  BY <1>1, <1>7
     DEF ProcessMediapipeConfig, CreateGraph, ClearLoraAliases, ReloadGraph,
         NextGraph, Loads
<1>8. CASE TryReloadGatedModelConfigs \/ FinishLoad
  BY <1>1, <1>8 DEF TryReloadGatedModelConfigs, FinishLoad, Loads
<1> QED
  BY <1>2, <1>3, <1>4, <1>5, <1>6, <1>7, <1>8, <1>9 DEF LoadStep

\* The first bad entry of a list is one of its entries.
LEMMA MinIsThere ==
    ASSUME NEW S \in SUBSET Nat, S # {}
    PROVE  Min(S) \in S
BY LeastOf DEF Min

\* The steps before the sections of the registries.
LEMMA ReadingTyped ==
    ASSUME RegistriesInv, LoadInv,
           ParseConfig \/ LoadCustomLoadersConfig \/ ParseMediapipeConfig
    PROVE  RegistriesInv' /\ LoadInv'
<1> USE DEF LoadInv, TodoInv
<1>1. UNCHANGED <<models, pipelines, graphs, aliases, unchecked, servedConfigs>>
  BY DEF ParseConfig, LoadCustomLoadersConfig, ParseMediapipeConfig, registries
<1>2. RegistriesInv'
  BY <1>1 DEF RegistriesInv
<1> HIDE DEF LoadInv, TodoInv
<1>3. CASE ParseConfig
  <2>1. load \in Loads
    BY DEF LoadInv
  <2>2. load' \in Loads /\ load'.stage \notin {"models", "pipelines", "graphs"}
    <3>1. CASE load.stage = "read" /\ load' = [load EXCEPT !.reads = @ + 1]
      <4>1. load.reads + 1 \in Nat
        BY <2>1 DEF Loads
      <4> DEFINE k == load.reads + 1
      <4> HIDE DEF k
      <4>2. k \in Nat /\ load' = [load EXCEPT !.reads = k]
        BY <3>1, <4>1 DEF k
      <4> QED
        BY <2>1, <3>1, <4>2 DEF Loads
    <3>2. CASE EndLoad("CONFIG_FILE_INVALID")
      BY <2>1, <3>2 DEF EndLoad, Loads, Stages, Errors
    <3>3. CASE EndLoad("JSON_INVALID")
      BY <2>1, <3>3 DEF EndLoad, Loads, Stages, Errors
    <3>4. CASE load' = [load EXCEPT !.stage = "ended",
                           !.error = "INVALID_METRICS_ENDPOINT"]
      BY <2>1, <3>4 DEF Loads, Stages, Errors
    <3>5. CASE file \in Files /\ load' = [load EXCEPT !.stage = "loaders", !.doc = file]
      BY <2>1, <3>5 DEF Loads, Stages
    <3> QED
      BY <1>3, <3>1, <3>2, <3>3, <3>4, <3>5 DEF ParseConfig
  <2> QED
    BY <1>2, <2>2, TypesConstant DEF LoadInv, TodoInv
<1>4. CASE LoadCustomLoadersConfig
  <2>1. load \in Loads
    BY DEF LoadInv
  <2>2. PICK e \in Errors : load' = [load EXCEPT !.stage = "parse", !.error = e]
    BY <1>4, <2>1 DEF LoadCustomLoadersConfig, Loads, Errors
  <2>3. load' \in Loads /\ load'.stage = "parse"
    BY <2>1, <2>2 DEF Loads, Stages
  <2> QED
    BY <1>2, <2>3, TypesConstant DEF LoadInv, TodoInv
<1>5. CASE ParseMediapipeConfig
  <2> DEFINE list == load.doc.graphs
             bad == {i \in DOMAIN list : list[i].kind = "invalid"}
             valid == IF bad = {} THEN list ELSE SubSeq(list, 1, Min(bad) - 1)
  <2>1. load.doc.models \in Seq(MainEntries) /\ list \in Seq(GraphEntries)
    BY FilesAreLists DEF LoadInv, Loads
  <2>2. valid \in Seq(GraphEntries)
    <3>1. CASE bad = {}
      BY <2>1, <3>1
    <3>2. CASE bad # {}
      <4>1. bad \subseteq Nat /\ bad \subseteq 1 .. Len(list)
        BY <2>1
      <4>2. Min(bad) \in bad
        BY <3>2, <4>1, MinIsThere
      <4> HIDE DEF bad, list
      <4>3. Min(bad) \in 1 .. Len(list)
        BY <4>1, <4>2
      <4>4. Len(list) \in Nat
        BY <2>1
      <4> QED
        BY <2>1, <3>2, <4>3, <4>4
    <3> QED
      BY <3>1, <3>2
  <2>3. load' = [load EXCEPT !.stage = "models", !.after = "subs",
                    !.todo = load.doc.models, !.graphs = valid,
                    !.error = IF bad = {} THEN @ ELSE FirstError(@, "JSON_INVALID")]
    BY <1>5 DEF ParseMediapipeConfig
  <2>4. load.doc.models \in Seq(AllEntries)
    BY <2>1, SeqSubset DEF AllEntries
  <2> HIDE DEF valid, bad, list
  <2>5. load \in Loads
    BY DEF LoadInv
  <2>6. PICK e \in Errors :
           load' = [load EXCEPT !.stage = "models", !.after = "subs",
                       !.todo = load.doc.models, !.graphs = valid, !.error = e]
    BY <2>3, <2>5 DEF Loads, FirstError, Errors
  <2>7. load' \in Loads
    BY <2>2, <2>4, <2>5, <2>6 DEF Loads, Stages
  <2>8. load'.stage = "models" /\ load'.after = "subs"
           /\ load'.todo = load.doc.models
    BY <2>5, <2>6 DEF Loads
  <2> QED
    BY <1>2, <2>1, <2>7, <2>8, TypesConstant DEF LoadInv, TodoInv
<1> QED
  BY <1>2, <1>3, <1>4, <1>5

\* The entries of a list of models are taken one by one.
LEMMA ListOfModels ==
    ASSUME LoadInv, load.stage = "models", load.todo # <<>>
    PROVE  /\ \/ load.after = "subs" /\ Head(load.todo) \in MainEntries
                 /\ Tail(load.todo) \in Seq(MainEntries)
              \/ load.after = "more" /\ Head(load.todo) \in SubEntries
                 /\ Tail(load.todo) \in Seq(SubEntries)
           /\ Tail(load.todo) \in Seq(AllEntries)
           /\ Head(load.todo).name \in Names
           /\ Head(load.todo).kind = "model" => Config(Head(load.todo)) \in Configs
<1>1. \/ load.after = "subs" /\ load.todo \in Seq(MainEntries)
      \/ load.after = "more" /\ load.todo \in Seq(SubEntries)
  BY DEF LoadInv, TodoInv
<1>2. Head(load.todo) \in AllEntries
         /\ Head(load.todo) \in MainEntries \cup SubEntries
  BY <1>1, HeadAndTail DEF AllEntries
<1>3. Tail(load.todo) \in Seq(AllEntries)
  <2>1. MainEntries \subseteq AllEntries /\ SubEntries \subseteq AllEntries
    BY DEF AllEntries
  <2> QED
    BY <1>1, <2>1, HeadAndTail, SeqSubset
<1> QED
  BY <1>1, <1>2, <1>3, HeadAndTail, EntriesTyped

LEMMA ErrorsKept ==
    ASSUME load \in Loads, NEW s \in Errors
    PROVE  FirstError(load.error, s) \in Errors /\ ModelError(s) \in Errors
BY DEF Loads, FirstError, ModelError

\* A model of a list becomes m, which the pipelines of changed are told; its
\* configuration is kept for later, or for the watcher.
Tried(n, m, changed, e, g, f) ==
    /\ models' = [models EXCEPT ![n] = m]
    /\ ModelExists(n) => m.state # "none"
    /\ pipelines' = Notified(changed)
    /\ \/ servedConfigs' = servedConfigs
       \/ servedConfigs' = [servedConfigs EXCEPT ![n] = NoConfig]
    /\ load' = [load EXCEPT !.todo = Tail(load.todo),
                   !.inFile = load.inFile \cup {n}, !.error = e, !.gated = g,
                   !.fresh = [load.fresh EXCEPT ![n] = f]]
    /\ \/ m.state # "none" /\ g = load.gated
       \/ /\ servedConfigs[n] # NoConfig /\ f = servedConfigs[n]
          /\ \E x \in Gated : x.name = n /\ g = Append(load.gated, x)
       \/ f = load.fresh[n] /\ g = load.gated

LEMMA ReloadListedDoes ==
    ASSUME RegistriesInv, LoadInv, load.stage = "models", load.todo # <<>>,
           NEW n \in Names, NEW c \in Configs, ReloadListed(n, c)
    PROVE  \E m \in Models, changed \in SUBSET Names, e \in Errors,
              g \in Seq(Gated), f \in Configs : Tried(n, m, changed, e, g, f)
<1> DEFINE r == Reloaded(n, c)
           isGated == r.status = "REQUESTED_DYNAMIC_PARAMETERS_ON_SUBSCRIBED_MODEL"
           retry == isGated /\ servedConfigs[n] # NoConfig
           x == [name |-> n, config |-> c]
           g == IF retry THEN Append(load.gated, x) ELSE load.gated
           f == IF retry THEN servedConfigs[n]
                ELSE IF isGated THEN load.fresh[n] ELSE c
           e == IF OkStatus(r.status) THEN load.error ELSE ModelError(r.status)
           changed == IF r.model = models[n] THEN {} ELSE {n}
<1>1. /\ r.model \in Models
      /\ ModelExists(n) => r.model.state # "none"
      /\ ~isGated => r.model.state # "none"
  BY ReloadedModel
<1>2. e \in Errors
  <2>1. r.status \in Errors \/ OkStatus(r.status)
    BY ReloadedModel DEF OkStatus
  <2> QED
    BY <2>1, ErrorsKept DEF LoadInv, Loads
<1>3. x \in Gated /\ load.gated \in Seq(Gated)
  BY DEF Gated, LoadInv, Loads
<1>4. g \in Seq(Gated)
  BY <1>3
<1>5. load.fresh \in [Names -> Configs] /\ servedConfigs \in [Names -> Configs]
  BY DEF LoadInv, Loads, RegistriesInv
<1>6. f \in Configs
  BY <1>5
<1>7. /\ models' = [models EXCEPT ![n] = r.model]
      /\ pipelines' = Notified(changed)
      /\ servedConfigs' = IF retry THEN [servedConfigs EXCEPT ![n] = NoConfig]
                                   ELSE servedConfigs
      /\ load' = [load EXCEPT !.todo = Tail(load.todo),
                     !.inFile = load.inFile \cup {n}, !.error = e, !.gated = g,
                     !.fresh[n] = f]
  BY DEF ReloadListed, InFile, NewModelConfig
<1>8. load' = [load EXCEPT !.todo = Tail(load.todo),
                  !.inFile = load.inFile \cup {n}, !.error = e, !.gated = g,
                  !.fresh = [load.fresh EXCEPT ![n] = f]]
  <2> HIDE DEF e, g, f
  <2> QED
    BY <1>7 DEF LoadInv, Loads
<1>9. changed \in SUBSET Names
  OBVIOUS
<1>10. \/ r.model.state # "none" /\ g = load.gated
       \/ servedConfigs[n] # NoConfig /\ f = servedConfigs[n]
          /\ g = Append(load.gated, x)
       \/ f = load.fresh[n] /\ g = load.gated
  BY <1>1
<1> HIDE DEF r, isGated, retry, g, f, e, changed
<1>11. \/ servedConfigs' = servedConfigs
       \/ servedConfigs' = [servedConfigs EXCEPT ![n] = NoConfig]
  BY <1>7
<1>12. x.name = n
  BY DEF x
<1> HIDE DEF x
<1>13. Tried(n, r.model, changed, e, g, f)
  BY <1>1, <1>3, <1>7, <1>8, <1>10, <1>11, <1>12 DEF Tried
<1> QED
  BY <1>1, <1>2, <1>4, <1>6, <1>9, <1>13

LEMMA LoadModelTyped ==
    ASSUME RegistriesInv, LoadInv, LoadModel
    PROVE  RegistriesInv' /\ LoadInv'
<1> DEFINE item == Head(load.todo)
           rest == Tail(load.todo)
<1>1. load \in Loads /\ load.stage = "models" /\ load.todo # <<>>
  BY DEF LoadInv, LoadModel
<1>2. /\ \/ load.after = "subs" /\ item \in MainEntries /\ rest \in Seq(MainEntries)
         \/ load.after = "more" /\ item \in SubEntries /\ rest \in Seq(SubEntries)
      /\ rest \in Seq(AllEntries) /\ item.name \in Names
      /\ item.kind = "model" => Config(item) \in Configs
  BY <1>1, ListOfModels
<1> HIDE DEF item, rest
<1>3. ASSUME UNCHANGED <<models, pipelines, servedConfigs>>
      PROVE  RegistriesInv'
  BY <1>3 DEF LoadModel, RegistriesInv
<1>4. ASSUME NEW r \in Seq(AllEntries), r \in {rest, <<>>}, NEW e \in Errors,
             NEW i \in SUBSET Names,
             load' = [load EXCEPT !.todo = r, !.error = e, !.invalid = i]
      PROVE  LoadInv'
  <2>1. load' \in Loads
    BY <1>1, <1>4 DEF Loads
  <2>2. load'.stage = "models" /\ load'.after = load.after /\ load'.todo = r
    BY <1>1, <1>4 DEF Loads
  <2>3. r \in Seq(MainEntries) \/ load.after = "more"
    BY <1>2, <1>4
  <2>4. r \in Seq(SubEntries) \/ load.after = "subs"
    BY <1>2, <1>4
  <2> QED
    BY <1>2, <2>1, <2>2, <2>3, <2>4, TypesConstant DEF LoadInv, TodoInv
<1>5. load.invalid \in SUBSET Names /\ load.error \in Errors
         /\ <<>> \in Seq(AllEntries)
  BY <1>1 DEF Loads
<1>6. \A s \in Errors : ModelError(s) \in Errors
  BY <1>1, ErrorsKept
<1>7. CASE /\ StartsFromGraph(item)
           /\ load' = [load EXCEPT !.todo = rest,
                 !.graphs = IF load.after = "subs" THEN Append(@, item) ELSE @]
           /\ UNCHANGED <<models, pipelines, servedConfigs>>
  <2>1. load.graphs \in Seq(GraphEntries)
    BY <1>1 DEF Loads
  <2>2. PICK gs \in Seq(GraphEntries) : load' = [load EXCEPT !.todo = rest,
                                                             !.graphs = gs]
    <3>1. CASE load.after = "subs"
      <4>1. item \in GraphEntries
        BY <1>2, <1>7, <3>1, EntriesTyped DEF StartsFromGraph
      <4>2. Append(load.graphs, item) \in Seq(GraphEntries)
        BY <2>1, <4>1
      <4> QED
        BY <1>7, <3>1, <4>2
    <3>2. CASE load.after # "subs"
      BY <1>7, <2>1, <3>2
    <3> QED
      BY <3>1, <3>2
  <2>3. load' \in Loads
    BY <1>1, <1>2, <2>2 DEF Loads
  <2>4. load'.stage = "models" /\ load'.after = load.after /\ load'.todo = rest
    BY <1>1, <2>2 DEF Loads
  <2> QED
    BY <1>2, <1>3, <1>7, <2>3, <2>4, TypesConstant DEF LoadInv, TodoInv
<1>8. CASE /\ load' = SkipInvalid(item)
           /\ UNCHANGED <<models, pipelines, servedConfigs>>
  <2>1. load' = [load EXCEPT !.todo = rest,
                    !.error = ModelError("MODEL_CONFIG_INVALID"),
                    !.invalid = load.invalid \cup {item.name}]
    BY <1>8 DEF SkipInvalid, rest
  <2>2. ModelError("MODEL_CONFIG_INVALID") \in Errors
    BY <1>6 DEF Errors
  <2>3. load.invalid \cup {item.name} \in SUBSET Names
    BY <1>2, <1>5
  <2> HIDE DEF ModelError
  <2> QED
    BY <1>2, <1>3, <1>4, <1>8, <2>1, <2>2, <2>3
<1>9. ASSUME NEW s \in Errors, NEW r \in Seq(AllEntries), r \in {rest, <<>>},
             load' = [load EXCEPT !.todo = r, !.error = ModelError(s)],
             UNCHANGED <<models, pipelines, servedConfigs>>
      PROVE  RegistriesInv' /\ LoadInv'
  <2>1. ModelError(s) \in Errors
    BY <1>6
  <2>2. load' = [load EXCEPT !.todo = r, !.error = ModelError(s),
                             !.invalid = load.invalid]
    BY <1>1, <1>9 DEF Loads
  <2> QED
    BY <1>3, <1>4, <1>5, <1>9, <2>1, <2>2
<1>10. CASE item.kind = "model" /\ ReloadListed(item.name, Config(item))
  <2> DEFINE n == item.name
  <2>1. PICK m \in Models, changed \in SUBSET Names, e \in Errors,
             g \in Seq(Gated), f \in Configs : Tried(n, m, changed, e, g, f)
    BY <1>1, <1>2, <1>10, ReloadListedDoes
  <2>2. RegistriesInv'
    <3>1. models' \in [Names -> Models]
      BY <1>2, <2>1 DEF RegistriesInv, Tried
    <3>2. pipelines' \in [Names -> Pipelines]
          /\ \A p \in Names : pipelines'[p].subs \subseteq pipelines'[p].uses
      <4>1. pipelines' = Notified(changed)
        BY <2>1 DEF Tried
      <4>2. \A p \in Names :
               pipelines[p].subs \subseteq pipelines[p].uses
        BY DEF RegistriesInv
      <4> QED
        BY <4>1, <4>2, NotifiedPipelines
    <3>3. servedConfigs' \in [Names -> Configs]
      BY <1>2, <2>1, EntriesTyped DEF RegistriesInv, Tried
    <3>4. UNCHANGED <<graphs, aliases, unchecked>>
      BY DEF LoadModel
    <3> QED
      BY <3>1, <3>2, <3>3, <3>4, TypesConstant DEF RegistriesInv
  <2>3. load' \in Loads
    <3>1. load.inFile \cup {n} \in SUBSET Names
      BY <1>1, <1>2 DEF Loads
    <3>2. [load.fresh EXCEPT ![n] = f] \in [Names -> Configs]
      BY <1>1, <1>2 DEF Loads
    <3> QED
      BY <1>1, <1>2, <2>1, <3>1, <3>2 DEF Loads, rest, Tried
  <2>4. load'.stage = "models" /\ load'.after = load.after /\ load'.todo = rest
    BY <1>1, <2>1 DEF Loads, rest, Tried
  <2> QED
    BY <1>2, <2>2, <2>3, <2>4, TypesConstant DEF LoadInv, TodoInv
<1>11. CASE load' = [[load EXCEPT !.todo = Tail(@),
                          !.error = ModelError("PLUGIN_CONFIG_INVALID")]
                        EXCEPT !.todo = <<>>]
            /\ UNCHANGED <<models, pipelines, servedConfigs>>
  <2>1. load' = [load EXCEPT !.todo = <<>>,
                             !.error = ModelError("PLUGIN_CONFIG_INVALID")]
    BY <1>1, <1>11 DEF Loads
  <2>2. "PLUGIN_CONFIG_INVALID" \in Errors
    BY DEF Errors
  <2> QED
    BY <1>5, <1>9, <1>11, <2>1, <2>2
<1>12. CASE load' = [load EXCEPT !.todo = Tail(@),
                                 !.error = ModelError("MODEL_NAME_OCCUPIED")]
            /\ UNCHANGED <<models, pipelines, servedConfigs>>
  <2>1. load' = [load EXCEPT !.todo = rest,
                             !.error = ModelError("MODEL_NAME_OCCUPIED")]
    BY <1>12 DEF rest
  <2>2. "MODEL_NAME_OCCUPIED" \in Errors
    BY DEF Errors
  <2> QED
    BY <1>2, <1>9, <1>12, <2>1, <2>2
<1> QED
  BY <1>7, <1>8, <1>10, <1>11, <1>12 DEF LoadModel, item, rest

LEMMA SubConfigsTyped ==
    ASSUME RegistriesInv, LoadInv, LoadMediapipeSubConfigModels
    PROVE  RegistriesInv' /\ LoadInv'
<1>1. load \in Loads
  BY DEF LoadInv
<1>2. RegistriesInv'
  BY DEF LoadMediapipeSubConfigModels, registries, RegistriesInv
<1>3. CASE load.stage = "models" /\ load' = [load EXCEPT !.stage = "subs",
              !.subs = IF load.after = "subs" THEN load.graphs ELSE @]
  <2>1. PICK s \in Seq(GraphEntries) : load' = [load EXCEPT !.stage = "subs",
                                                            !.subs = s]
    BY <1>1, <1>3 DEF Loads
  <2>2. load' \in Loads /\ load'.stage = "subs"
    BY <1>1, <2>1 DEF Loads, Stages
  <2> QED
    BY <1>2, <2>2, TypesConstant DEF LoadInv, TodoInv
<1>4. CASE load.subs # <<>> /\ load' = [load EXCEPT !.stage = "models",
              !.after = "more", !.todo = Head(load.subs).sub, !.subs = Tail(@)]
  <2> DEFINE todo == Head(load.subs).sub
             rest == Tail(load.subs)
  <2>1. load.subs \in Seq(GraphEntries)
    BY <1>1 DEF Loads
  <2>2. Head(load.subs) \in GraphEntries /\ rest \in Seq(GraphEntries)
    BY <1>4, <2>1, HeadAndTail
  <2>3. todo \in Seq(SubEntries) /\ todo \in Seq(AllEntries)
    <3>1. SubEntries \subseteq AllEntries
      BY DEF AllEntries
    <3> QED
      BY <2>2, <3>1, SubsAreLists, SeqSubset
  <2>4. load' = [load EXCEPT !.stage = "models", !.after = "more", !.todo = todo,
                             !.subs = rest]
    BY <1>4
  <2> HIDE DEF todo, rest
  <2>5. load' \in Loads /\ load'.stage = "models" /\ load'.after = "more"
           /\ load'.todo = todo
    BY <1>1, <2>2, <2>3, <2>4 DEF Loads, Stages
  <2> QED
    BY <1>2, <2>3, <2>5, TypesConstant DEF LoadInv, TodoInv
<1>5. CASE load.stage = "subs" /\ load' = [load EXCEPT !.subs = <<>>]
  <2> DEFINE s == <<>>
  <2>1. s \in Seq(GraphEntries) /\ load' = [load EXCEPT !.subs = s]
    BY <1>5
  <2> HIDE DEF s
  <2>2. load' \in Loads /\ load'.stage = "subs"
    BY <1>1, <1>5, <2>1 DEF Loads
  <2> QED
    BY <1>2, <2>2, TypesConstant DEF LoadInv, TodoInv
<1>6. CASE load' = [load EXCEPT !.stage = "retire"]
  <2>1. load' \in Loads /\ load'.stage = "retire"
    BY <1>1, <1>6 DEF Loads, Stages
  <2> QED
    BY <1>2, <2>1, TypesConstant DEF LoadInv, TodoInv
<1> QED
  BY <1>3, <1>4, <1>5, <1>6 DEF LoadMediapipeSubConfigModels

LEMMA RetireModelsTyped ==
    ASSUME RegistriesInv, LoadInv, RetireModelsRemovedFromConfigFile
    PROVE  RegistriesInv' /\ LoadInv'
<1>1. load \in Loads
  BY DEF LoadInv
<1>2. load' \in Loads /\ load'.stage = "libraries"
  BY <1>1 DEF RetireModelsRemovedFromConfigFile, Loads, Stages
<1>3. models' \in [Names -> Models]
  <2>1. \A n \in Names : models[n] \in Models
           /\ [models[n] EXCEPT !.state = "failed"] \in Models
           /\ [models[n] EXCEPT !.state = "retired"] \in Models
    BY DEF RegistriesInv, Models, ModelStates
  <2> QED
    BY <2>1 DEF RetireModelsRemovedFromConfigFile
<1>4. pipelines' \in [Names -> Pipelines]
         /\ \A p \in Names : pipelines'[p].subs \subseteq pipelines'[p].uses
  BY NotifiedPipelines DEF RetireModelsRemovedFromConfigFile, RegistriesInv
<1>5. servedConfigs' \in [Names -> Configs] /\ UNCHANGED <<graphs, aliases,
                                                           unchecked>>
  BY <1>1 DEF RetireModelsRemovedFromConfigFile, Loads
<1> QED
  BY <1>2, <1>3, <1>4, <1>5, TypesConstant DEF RegistriesInv, LoadInv, TodoInv

LEMMA LibrariesTyped ==
    ASSUME RegistriesInv, LoadInv, LoadCustomNodeLibrariesConfig
    PROVE  RegistriesInv' /\ LoadInv'
<1>1. load \in Loads
  BY DEF LoadInv
<1>2. RegistriesInv'
  BY DEF LoadCustomNodeLibrariesConfig, RegistriesInv
<1>3. load.doc.pipelines \in Seq(PipelineEntries)
         /\ load.doc.pipelines \in Seq(AllEntries)
  <2>1. PipelineEntries \subseteq AllEntries
    BY DEF AllEntries
  <2> QED
    BY <1>1, <2>1, FilesAreLists, SeqSubset DEF Loads
<1>4. load' \in Loads /\ load'.stage = "pipelines"
         /\ load'.todo = load.doc.pipelines
  BY <1>1, <1>3 DEF LoadCustomNodeLibrariesConfig, Loads, Stages
<1> QED
  BY <1>2, <1>3, <1>4, TypesConstant DEF LoadInv, TodoInv

\* A pipeline of the file is put in its place, or left out.
LEMMA ProcessPipelineDoes ==
    ASSUME RegistriesInv, LoadInv, ProcessPipelineConfig
    PROVE  /\ LoadInv'
           /\ \/ UNCHANGED pipelines
              \/ \E n \in Names, p \in Pipelines :
                    /\ pipelines' = [pipelines EXCEPT ![n] = p]
                    /\ p.subs \subseteq p.uses
                    /\ PipelineExists(n) \/ ~(ModelExists(n) \/ GraphExists(n))
           /\ load'.fresh = load.fresh /\ load'.gated = load.gated
           /\ load'.stage = "pipelines"
<1> DEFINE p == Head(load.todo)
           n == p.name
           rest == Tail(load.todo)
           new == [state |-> IF Validates(n, p) THEN "available" ELSE "failed",
                   uses |-> p.uses, library |-> p.library,
                   subs |-> {m \in p.uses : ModelExists(m)}]
<1>1. load \in Loads /\ load.stage = "pipelines" /\ load.todo # <<>>
         /\ load.todo \in Seq(PipelineEntries)
  BY DEF LoadInv, ProcessPipelineConfig, TodoInv
<1>2. p \in PipelineEntries /\ rest \in Seq(PipelineEntries)
  BY <1>1, HeadAndTail
<1>3. rest \in Seq(AllEntries) /\ n \in Names
  <2>1. PipelineEntries \subseteq AllEntries
    BY DEF AllEntries
  <2> QED
    BY <1>2, <2>1, SeqSubset, EntriesTyped
<1>4. new \in Pipelines /\ new.subs \subseteq new.uses
  <2>1. new.state \in PipelineStates
    BY DEF PipelineStates
  <2> QED
    BY <1>2, <2>1, EntriesTyped DEF Pipelines
<1>5. PICK e \in Errors : load' = [load EXCEPT !.todo = rest,
                                     !.inFile = load.inFile \cup {n}, !.error = e]
  <2>1. load.error \in Errors
    BY <1>1 DEF Loads
  <2>2. FirstError(load.error, "PIPELINE_DEFINITION_INVALID") \in Errors
    BY <2>1 DEF FirstError, Errors
  <2> QED
    BY <2>1, <2>2 DEF ProcessPipelineConfig
<1>6. \/ UNCHANGED pipelines
      \/ /\ pipelines' = [pipelines EXCEPT ![n] = new]
         /\ PipelineExists(n) \/ ~(ModelExists(n) \/ GraphExists(n))
  <2> DEFINE refused == ~PipelineExists(n) /\ (ModelExists(n) \/ GraphExists(n))
             again == n \in load.inFile
  <2>1. pipelines' = IF again \/ refused THEN pipelines
                     ELSE [pipelines EXCEPT ![n] = new]
    BY DEF ProcessPipelineConfig
  <2>2. ~refused => PipelineExists(n) \/ ~(ModelExists(n) \/ GraphExists(n))
    OBVIOUS
  <2> HIDE DEF new, n, refused, again
  <2>3. CASE again \/ refused
    BY <2>1, <2>3
  <2>4. CASE ~(again \/ refused)
    BY <2>1, <2>2, <2>4
  <2> QED
    BY <2>3, <2>4
<1>7. load.inFile \cup {n} \in SUBSET Names
  BY <1>1, <1>3 DEF Loads
<1> HIDE DEF p, n, rest, new
<1>8. load' \in Loads /\ load'.stage = "pipelines" /\ load'.todo = rest
         /\ load'.fresh = load.fresh /\ load'.gated = load.gated
  BY <1>1, <1>3, <1>5, <1>7 DEF Loads
<1>9. LoadInv'
  BY <1>2, <1>8, TypesConstant DEF LoadInv, TodoInv
<1> QED
  BY <1>3, <1>4, <1>6, <1>8, <1>9

LEMMA ProcessPipelineTyped ==
    ASSUME RegistriesInv, LoadInv, ProcessPipelineConfig
    PROVE  RegistriesInv' /\ LoadInv'
<1>1. pipelines' \in [Names -> Pipelines]
         /\ \A p \in Names : pipelines'[p].subs \subseteq pipelines'[p].uses
  BY ProcessPipelineDoes DEF RegistriesInv
<1>2. UNCHANGED <<models, graphs, aliases, unchecked, servedConfigs>>
  BY DEF ProcessPipelineConfig
<1> QED
  BY <1>1, <1>2, ProcessPipelineDoes, TypesConstant DEF RegistriesInv

LEMMA RetirePipelinesTyped ==
    ASSUME RegistriesInv, LoadInv, RetirePipelinesOtherThan
    PROVE  RegistriesInv' /\ LoadInv'
<1>1. load \in Loads
  BY DEF LoadInv
<1>2. \A p : RetiredPipeline(p) \in Pipelines
         /\ RetiredPipeline(p).subs \subseteq RetiredPipeline(p).uses
  BY DEF RetiredPipeline, NoPipeline, Pipelines, PipelineStates
<1>3. pipelines' \in [Names -> Pipelines]
         /\ \A p \in Names : pipelines'[p].subs \subseteq pipelines'[p].uses
  BY <1>2 DEF RetirePipelinesOtherThan, RegistriesInv
<1>4. load.graphs \in Seq(GraphEntries) /\ load.graphs \in Seq(AllEntries)
  <2>1. GraphEntries \subseteq AllEntries
    BY DEF AllEntries
  <2> QED
    BY <1>1, <2>1, SeqSubset DEF Loads
<1>5. load' \in Loads /\ load'.stage = "graphs" /\ load'.todo = load.graphs
  BY <1>1, <1>4 DEF RetirePipelinesOtherThan, Loads, Stages
<1>6. UNCHANGED <<models, graphs, aliases, unchecked, servedConfigs>>
  BY DEF RetirePipelinesOtherThan
<1> QED
  BY <1>3, <1>4, <1>5, <1>6, TypesConstant DEF RegistriesInv, LoadInv, TodoInv

LEMMA RetireGraphsTyped ==
    ASSUME RegistriesInv, LoadInv, RetireGraphsOtherThan
    PROVE  RegistriesInv' /\ LoadInv'
<1>1. load \in Loads /\ load.todo \in Seq(GraphEntries)
  BY DEF LoadInv, TodoInv, RetireGraphsOtherThan
<1>2. \A n \in Names : [graphs[n] EXCEPT !.state = "retired"] \in Graphs
  BY DEF RegistriesInv, Graphs, GraphStates
<1>3. graphs' \in [Names -> Graphs]
  BY <1>2 DEF RetireGraphsOtherThan, RegistriesInv
<1>4. load' \in Loads /\ load'.stage = "graphs" /\ load'.todo = load.todo
  BY <1>1 DEF RetireGraphsOtherThan, Loads
<1>5. UNCHANGED <<models, pipelines, aliases, unchecked, servedConfigs>>
  BY DEF RetireGraphsOtherThan
<1> QED
  BY <1>1, <1>3, <1>4, <1>5, TypesConstant DEF RegistriesInv, LoadInv, TodoInv

-----------------------------------------------------------------------------
(* Graphs *)

\* The graph of a name is registered, under the name or the name's alias.
LEMMA FoundGraph ==
    ASSUME RegistriesInv, NEW n \in Names, FindGraph(n) # NoName
    PROVE  /\ FindGraph(n) \in Names /\ IsRegistered(graphs, FindGraph(n))
           /\ FindGraph(n) # n => aliases[n] = FindGraph(n)
BY DEF FindGraph, RegistriesInv

\* What an entry is given: its own state and its version.
LEMMA GraphOfEntry ==
    ASSUME NEW g \in GraphEntries, NEW s \in Errors
    PROVE  [state |-> GraphState(s), ver |-> g.ver] \in Graphs
<1>1. g.ver \in GraphVersions
  BY EntriesTyped
<1>2. GraphState(s) \in GraphStates
  BY DEF GraphState, GraphStates
<1> QED
  BY <1>1, <1>2 DEF Graphs

\* The steps of a list of graphs.
GraphSkipped(g) == UNCHANGED <<graphs, aliases, unchecked>>

\* Graph d is given entry g, and the aliases that were found are registered.
GraphPut(g, d) ==
    /\ \E s \in Errors :
          /\ graphs' = [graphs EXCEPT ![d] =
                          [state |-> GraphState(s), ver |-> g.ver]]
          /\ ~(ModelExists(d) \/ PipelineExists(d)) \/ IsRegistered(graphs, d)
    /\ \E new \in SUBSET g.aliases, s \in Errors :
          /\ RegisterAliases(g, d, new, s)
          /\ s = "OK" => ~AliasesConflict(new, d)

\* The step goes on with the next entry.
NextEntry(g) ==
    \E e \in Errors :
        load' = [load EXCEPT !.todo = Tail(load.todo), !.after = "graphs",
                             !.inFile = load.inFile \cup {g.name}, !.error = e]

LEMMA ValidationStatus ==
    ASSUME NEW d, NEW g
    PROVE  /\ ValidateGraph(d, g) \in Errors
           /\ ValidateGraph(d, g) = "OK" => ~AliasesConflict(g.aliases, d)
           /\ ValidateGraph(d, g) # "MEDIAPIPE_GRAPH_NAME_OCCUPIED"
                 => ~ModelExists(d) /\ ~PipelineExists(d)
BY DEF ValidateGraph, Errors

\* What the two operations share: the next entry, and no alias without a
\* definition that has found it.
LEMMA NextGraphGoesOn ==
    ASSUME load \in Loads, NEW g, NEW status \in Errors, NextGraph(g, status)
    PROVE  NextEntry(g)
<1> DEFINE e == IF status = "OK" THEN load.error
                                 ELSE FirstError(load.error, status)
<1>1. e \in Errors
  BY ErrorsKept DEF Loads
<1>2. load' = [load EXCEPT !.todo = Tail(load.todo), !.after = "graphs",
                           !.inFile = load.inFile \cup {g.name}, !.error = e]
  BY DEF NextGraph, Loads
<1> HIDE DEF e
<1> QED
  BY <1>1, <1>2 DEF NextEntry

LEMMA NoAliases ==
    ASSUME RegistriesInv, NEW g, NEW d, NEW s, RegisterAliases(g, d, {}, s)
    PROVE  UNCHANGED <<aliases, unchecked>>
BY DEF RegisterAliases, RegistriesInv

LEMMA CreateGraphDoes ==
    ASSUME RegistriesInv, load \in Loads,
           NEW g \in GraphEntries, CreateGraph(g)
    PROVE  /\ NextEntry(g)
           /\ \/ GraphSkipped(g)
              \/ GraphPut(g, g.name) /\ ~GraphExists(g.name)
<1> DEFINE status == IF GraphExists(g.name)
                     THEN "PIPELINE_DEFINITION_ALREADY_EXIST"
                     ELSE ValidateGraph(g.name, g)
           new == FoundAliases(g, status)
           put == [state |-> GraphState(status), ver |-> g.ver]
           dropped == status \in {"PIPELINE_DEFINITION_ALREADY_EXIST",
                                  "MEDIAPIPE_GRAPH_NAME_OCCUPIED"}
<1>1. status \in Errors
  BY ValidationStatus DEF Errors
<1>2. new \in SUBSET g.aliases /\ (dropped => new = {})
         /\ (status = "OK" => ~AliasesConflict(new, g.name))
  BY ValidationStatus DEF FoundAliases
<1>3. ~dropped => ~GraphExists(g.name) /\ ~ModelExists(g.name)
                  /\ ~PipelineExists(g.name)
  BY ValidationStatus
<1>4. /\ graphs' = IF dropped THEN graphs ELSE [graphs EXCEPT ![g.name] = put]
      /\ RegisterAliases(g, g.name, new, status)
      /\ NextGraph(g, status)
  BY DEF CreateGraph
<1>5. put = [state |-> GraphState(status), ver |-> g.ver]
  OBVIOUS
<1> HIDE DEF status, new, put, dropped
<1>6. NextEntry(g)
  BY <1>1, <1>4, NextGraphGoesOn
<1>7. CASE dropped
  <2>1. RegisterAliases(g, g.name, {}, status)
    BY <1>2, <1>4, <1>7
  <2>2. UNCHANGED <<aliases, unchecked>>
    BY <2>1, NoAliases
  <2> QED
    BY <1>4, <1>6, <1>7, <2>2 DEF GraphSkipped
<1>8. CASE ~dropped
  <2>1. \E t \in SUBSET g.aliases, s \in Errors :
           /\ RegisterAliases(g, g.name, t, s)
           /\ s = "OK" => ~AliasesConflict(t, g.name)
    BY <1>1, <1>2, <1>4
  <2>2. \E s \in Errors :
          /\ graphs' = [graphs EXCEPT ![g.name] =
                          [state |-> GraphState(s), ver |-> g.ver]]
          /\ ~(ModelExists(g.name) \/ PipelineExists(g.name))
                \/ IsRegistered(graphs, g.name)
    BY <1>1, <1>3, <1>4, <1>5, <1>8
  <2> QED
    BY <1>3, <1>6, <1>8, <2>1, <2>2 DEF GraphPut
<1> QED
  BY <1>7, <1>8

LEMMA ReloadGraphDoes ==
    ASSUME RegistriesInv, load \in Loads,
           NEW g \in GraphEntries, NEW d \in Names, IsRegistered(graphs, d),
           ReloadGraph(g, d)
    PROVE  NextEntry(g) /\ GraphPut(g, d)
<1> DEFINE status == ValidateGraph(d, g)
           new == IF status = "OK" THEN g.aliases ELSE {}
           put == [state |-> GraphState(status), ver |-> g.ver]
<1>1. status \in Errors
  BY ValidationStatus
<1>2. new \in SUBSET g.aliases /\ (status = "OK" => ~AliasesConflict(new, d))
  BY ValidationStatus
<1>3. /\ graphs' = [graphs EXCEPT ![d] = put]
      /\ RegisterAliases(g, d, new, status)
      /\ NextGraph(g, status)
  BY DEF ReloadGraph
<1>4. put = [state |-> GraphState(status), ver |-> g.ver]
  OBVIOUS
<1> HIDE DEF status, new, put
<1>5. NextEntry(g)
  BY <1>1, <1>3, NextGraphGoesOn
<1>6. \E t \in SUBSET g.aliases, s \in Errors :
         RegisterAliases(g, d, t, s) /\ (s = "OK" => ~AliasesConflict(t, d))
  BY <1>1, <1>2, <1>3
<1>7. \E s \in Errors :
        /\ graphs' = [graphs EXCEPT ![d] =
                        [state |-> GraphState(s), ver |-> g.ver]]
        /\ ~(ModelExists(d) \/ PipelineExists(d)) \/ IsRegistered(graphs, d)
  BY <1>1, <1>3, <1>4
<1> QED
  BY <1>5, <1>6, <1>7 DEF GraphPut

\* The graph that is being reloaded is the one that was there for the entry.
ReloadingGraph(g, d) ==
    /\ graphs[d].state = "reloading"
    /\ d # g.name => aliases[g.name] = d

\* One step on entry g: it is passed over, created, or reloaded in two steps.
GraphStep(g) ==
    \/ load.after = "graphs" /\ NextEntry(g) /\ GraphSkipped(g)
    \/ /\ load.after = "graphs" /\ NextEntry(g)
       /\ GraphPut(g, g.name) /\ ~GraphExists(g.name)
    \/ /\ load.after = "graphs"
       /\ \E d \in Names :
             /\ IsRegistered(graphs, d) /\ (d # g.name => aliases[g.name] = d)
             /\ ClearLoraAliases(g, d)
    \/ /\ load.after = "reload"
       /\ \E d \in Names : /\ ReloadingGraph(g, d)
                           /\ NextEntry(g) /\ GraphPut(g, d)

LEMMA ProcessMediapipeDoes ==
    ASSUME RegistriesInv, LoadInv, ReloadingInv, ProcessMediapipeConfig
    PROVE  /\ load.stage = "graphs" /\ load.todo # <<>>
           /\ Head(load.todo) \in GraphEntries
           /\ Head(load.todo).name \in Names
           /\ Tail(load.todo) \in Seq(GraphEntries)
           /\ Tail(load.todo) \in Seq(AllEntries)
           /\ GraphStep(Head(load.todo))
<1> DEFINE g == Head(load.todo)
           d == FindGraph(g.name)
           rest == Tail(load.todo)
           next == [load EXCEPT !.todo = Tail(@), !.inFile = @ \cup {g.name}]
<1>1. /\ load \in Loads /\ load.stage = "graphs" /\ load.todo # <<>>
      /\ load.todo \in Seq(GraphEntries)
  BY DEF LoadInv, TodoInv, ProcessMediapipeConfig
<1>2. g \in GraphEntries /\ rest \in Seq(GraphEntries)
  BY <1>1, HeadAndTail
<1>3. rest \in Seq(AllEntries) /\ g.name \in Names
  <2>1. GraphEntries \subseteq AllEntries
    BY DEF AllEntries
  <2> QED
    BY <1>2, <2>1, SeqSubset, EntriesTyped
<1>4. ASSUME load' = next, load.after = "graphs"
      PROVE  NextEntry(g)
  <2>1. load' = [load EXCEPT !.todo = Tail(load.todo), !.after = "graphs",
                     !.inFile = load.inFile \cup {g.name}, !.error = load.error]
    BY <1>1, <1>4 DEF Loads
  <2>2. load.error \in Errors
    BY <1>1 DEF Loads
  <2> QED
    BY <2>1, <2>2 DEF NextEntry
<1>5. \/ load.after = "graphs" /\ load' = next /\ UNCHANGED <<graphs, aliases,
                                                              unchecked>>
      \/ load.after = "graphs" /\ CreateGraph(g)
      \/ load.after = "graphs" /\ d # NoName /\ ClearLoraAliases(g, d)
      \/ load.after = "reload"
         /\ ReloadGraph(g, CHOOSE n \in Names : graphs[n].state = "reloading")
  BY DEF ProcessMediapipeConfig
<1> SUFFICES GraphStep(g)
  BY <1>1, <1>2, <1>3
<1> HIDE DEF g, rest, next
<1>6. CASE load.after = "graphs" /\ load' = next /\ UNCHANGED <<graphs,
                                                                aliases,
                                                                unchecked>>
  BY <1>4, <1>6 DEF GraphStep, GraphSkipped
<1>7. CASE load.after = "graphs" /\ CreateGraph(g)
  BY <1>1, <1>2, <1>7, CreateGraphDoes DEF GraphStep
<1>8. CASE load.after = "graphs" /\ d # NoName /\ ClearLoraAliases(g, d)
  BY <1>3, <1>8, FoundGraph DEF GraphStep
<1>9. CASE load.after = "reload"
           /\ ReloadGraph(g, CHOOSE n \in Names : graphs[n].state = "reloading")
  <2> DEFINE r == CHOOSE n \in Names : graphs[n].state = "reloading"
  <2>1. \E n \in Names : graphs[n].state = "reloading"
    BY <1>1, <1>9 DEF ReloadingInv
  <2>2. r \in Names /\ graphs[r].state = "reloading" /\ ReloadGraph(g, r)
    BY <1>9, <2>1
  <2> HIDE DEF r
  <2>3. r = g.name \/ aliases[g.name] = r
    BY <2>2 DEF ReloadingInv, g
  <2>4. NextEntry(g) /\ GraphPut(g, r)
    BY <1>1, <1>2, <2>2, ReloadGraphDoes DEF IsRegistered
  <2> QED
    BY <1>9, <2>2, <2>3, <2>4 DEF GraphStep, ReloadingGraph
<1> QED
  BY <1>5, <1>6, <1>7, <1>8, <1>9

LEMMA GraphPutTyped ==
    ASSUME RegistriesInv, NEW g \in GraphEntries, g.name \in Names,
           NEW d \in Names, GraphPut(g, d)
    PROVE  /\ graphs' \in [Names -> Graphs]
           /\ aliases' \in [Names -> Names \cup {NoName}]
           /\ unchecked' \subseteq Names
           /\ graphs'[d].state # "reloading"
           /\ \A n \in Names : n # d => graphs'[n] = graphs[n]
<1>1. /\ graphs' \in [Names -> Graphs]
      /\ graphs'[d].state # "reloading"
      /\ \A n \in Names : n # d => graphs'[n] = graphs[n]
  <2>1. PICK s \in Errors :
           graphs' = [graphs EXCEPT ![d] =
                        [state |-> GraphState(s), ver |-> g.ver]]
    BY DEF GraphPut
  <2> DEFINE new == [state |-> GraphState(s), ver |-> g.ver]
  <2>2. new \in Graphs /\ new.state # "reloading"
    BY GraphOfEntry DEF GraphState
  <2> HIDE DEF new
  <2>3. graphs' = [graphs EXCEPT ![d] = new]
    BY <2>1 DEF new
  <2> QED
    BY <2>2, <2>3 DEF RegistriesInv
<1>2. aliases' \in [Names -> Names \cup {NoName}] /\ unchecked' \subseteq Names
  <2>1. g.aliases \subseteq Names
    BY FilesAssumption
  <2> QED
    BY <2>1 DEF GraphPut, RegisterAliases, RegistriesInv
<1> QED
  BY <1>1, <1>2

\* What a step does to the local variables of the load.
LEMMA NextGraphDoes ==
    ASSUME load \in Loads, load.stage = "graphs", NEW g, g.name \in Names,
           Tail(load.todo) \in Seq(AllEntries), NextEntry(g)
    PROVE  /\ load' \in Loads /\ load'.stage = "graphs" /\ load'.after = "graphs"
           /\ load'.todo = Tail(load.todo)
           /\ load'.fresh = load.fresh /\ load'.gated = load.gated
<1>1. PICK e \in Errors :
         load' = [load EXCEPT !.todo = Tail(load.todo), !.after = "graphs",
                              !.inFile = load.inFile \cup {g.name}, !.error = e]
  BY DEF NextEntry
<1> DEFINE rest == Tail(load.todo)
           i == load.inFile \cup {g.name}
<1>2. i \in SUBSET Names /\ rest \in Seq(AllEntries)
  BY DEF Loads
<1>3. load' = [load EXCEPT !.todo = rest, !.after = "graphs", !.inFile = i,
                           !.error = e]
  BY <1>1
<1> HIDE DEF rest, i
<1>4. /\ load' \in Loads /\ load'.stage = "graphs" /\ load'.after = "graphs"
      /\ load'.todo = rest
      /\ load'.fresh = load.fresh /\ load'.gated = load.gated
  BY <1>2, <1>3 DEF Loads
<1> QED
  BY <1>4 DEF rest

LEMMA ProcessMediapipeTyped ==
    ASSUME RegistriesInv, LoadInv, ReloadingInv, ProcessMediapipeConfig
    PROVE  RegistriesInv' /\ LoadInv'
<1> DEFINE g == Head(load.todo)
           rest == Tail(load.todo)
<1>1. /\ load.stage = "graphs" /\ load.todo # <<>>
      /\ g \in GraphEntries /\ g.name \in Names
      /\ rest \in Seq(GraphEntries) /\ rest \in Seq(AllEntries)
      /\ GraphStep(g)
  BY ProcessMediapipeDoes
<1>2. load \in Loads /\ load.todo \in Seq(GraphEntries)
  BY <1>1 DEF LoadInv, TodoInv
<1> HIDE DEF g
<1>3. ASSUME NextEntry(g) PROVE LoadInv'
  <2>1. load' \in Loads /\ load'.stage = "graphs" /\ load'.todo = rest
    BY <1>1, <1>2, <1>3, NextGraphDoes
  <2> QED
    BY <1>1, <2>1, TypesConstant DEF LoadInv, TodoInv
<1>4. ASSUME graphs' \in [Names -> Graphs],
             aliases' \in [Names -> Names \cup {NoName}],
             unchecked' \subseteq Names
      PROVE  RegistriesInv'
  <2>1. UNCHANGED <<models, pipelines, servedConfigs>>
    BY DEF ProcessMediapipeConfig
  <2> QED
    BY <1>4, <2>1, TypesConstant DEF RegistriesInv
<1>5. CASE NextEntry(g) /\ GraphSkipped(g)
  BY <1>3, <1>4, <1>5 DEF GraphSkipped, RegistriesInv
<1>6. ASSUME NEW d \in Names, NextEntry(g), GraphPut(g, d)
      PROVE  RegistriesInv' /\ LoadInv'
  BY <1>1, <1>3, <1>4, <1>6, GraphPutTyped
<1>7. ASSUME NEW d \in Names, ClearLoraAliases(g, d)
      PROVE  RegistriesInv' /\ LoadInv'
  <2>1. [graphs[d] EXCEPT !.state = "reloading"] \in Graphs
    BY DEF RegistriesInv, Graphs, GraphStates
  <2>2. graphs' \in [Names -> Graphs]
    BY <1>7, <2>1 DEF ClearLoraAliases, RegistriesInv
  <2>3. aliases' \in [Names -> Names \cup {NoName}] /\ unchecked' \subseteq Names
    BY <1>7 DEF ClearLoraAliases, RegistriesInv
  <2>4. load' \in Loads /\ load'.stage = "graphs" /\ load'.todo = load.todo
    BY <1>1, <1>2, <1>7 DEF ClearLoraAliases, Loads
  <2> QED
    BY <1>2, <1>4, <2>2, <2>3, <2>4, TypesConstant DEF LoadInv, TodoInv
<1> QED
  BY <1>1, <1>5, <1>6, <1>7 DEF GraphStep

LEMMA GatedDoes ==
    ASSUME RegistriesInv, LoadInv, TryReloadGatedModelConfigs
    PROVE  /\ \E i \in 1 .. Len(load.gated), m \in Models :
                 LET n == load.gated[i].name
                 IN  /\ n \in Names
                     /\ models' = [models EXCEPT ![n] = m]
                     /\ ModelExists(n) => m.state # "none"
                     /\ \/ servedConfigs' = servedConfigs
                        \/ /\ servedConfigs[n] # NoConfig
                           /\ \E c \in Configs :
                                 servedConfigs' = [servedConfigs EXCEPT ![n] = c]
           /\ \E changed : pipelines' = Notified(changed)
           /\ load' \in Loads /\ load'.stage = "gated"
           /\ load'.fresh = load.fresh /\ load'.gated = Tail(load.gated)
<1> DEFINE gated == load.gated
           n == Head(gated).name
           c == Head(gated).config
           r == Reloaded(n, c)
           e == IF OkStatus(r.status) THEN load.error
                                      ELSE FirstError(load.error, r.status)
           changed == IF r.model = models[n] THEN {} ELSE {n}
<1>1. /\ load \in Loads /\ load.stage = "gated" /\ gated # <<>>
      /\ gated \in Seq(Gated)
  BY DEF LoadInv, TryReloadGatedModelConfigs, Loads
<1>2. Head(gated) \in Gated /\ Tail(gated) \in Seq(Gated)
         /\ Head(gated) = gated[1] /\ 1 \in 1 .. Len(gated)
  BY <1>1
<1>3. n \in Names /\ c \in Configs
  BY <1>2 DEF Gated
<1>4. r.model \in Models /\ (ModelExists(n) => r.model.state # "none")
  BY <1>3, ReloadedModel
<1>5. e \in Errors
  <2>1. r.status \in Errors \/ OkStatus(r.status)
    BY <1>3, ReloadedModel DEF OkStatus
  <2> QED
    BY <1>1, <2>1, ErrorsKept DEF Loads
<1>6. /\ models' = [models EXCEPT ![n] = r.model]
      /\ pipelines' = Notified(changed)
      /\ servedConfigs' = IF OkStatus(r.status) /\ servedConfigs[n] # NoConfig
                          THEN [servedConfigs EXCEPT ![n] = c] ELSE servedConfigs
      /\ load' = [load EXCEPT !.gated = Tail(gated), !.error = e]
  BY DEF TryReloadGatedModelConfigs
<1>7. n = gated[1].name
  BY <1>2
<1> HIDE DEF e, r, changed, n, c
<1>8. load' \in Loads /\ load'.stage = "gated"
         /\ load'.fresh = load.fresh /\ load'.gated = Tail(gated)
  BY <1>1, <1>2, <1>5, <1>6 DEF Loads
<1>9. \/ servedConfigs' = servedConfigs
      \/ servedConfigs[n] # NoConfig
         /\ servedConfigs' = [servedConfigs EXCEPT ![n] = c]
  BY <1>6
<1> HIDE DEF gated
<1>10. \E i \in 1 .. Len(gated), m \in Models :
                 LET k == gated[i].name
                 IN  /\ k \in Names
                     /\ models' = [models EXCEPT ![k] = m]
                     /\ ModelExists(k) => m.state # "none"
                     /\ \/ servedConfigs' = servedConfigs
                        \/ /\ servedConfigs[k] # NoConfig
                           /\ \E b \in Configs :
                                 servedConfigs' = [servedConfigs EXCEPT ![k] = b]
  BY <1>2, <1>3, <1>4, <1>6, <1>7, <1>9
<1> QED
  BY <1>6, <1>8, <1>10 DEF gated

LEMMA GatedTyped ==
    ASSUME RegistriesInv, LoadInv, TryReloadGatedModelConfigs
    PROVE  RegistriesInv' /\ LoadInv'
<1>1. models' \in [Names -> Models]
  BY GatedDoes DEF RegistriesInv
<1>2. servedConfigs' \in [Names -> Configs]
  BY GatedDoes DEF RegistriesInv
<1>3. pipelines' \in [Names -> Pipelines]
         /\ \A p \in Names : pipelines'[p].subs \subseteq pipelines'[p].uses
  BY GatedDoes, NotifiedPipelines DEF RegistriesInv
<1>4. UNCHANGED <<graphs, aliases, unchecked>>
  BY DEF TryReloadGatedModelConfigs
<1>5. load' \in Loads /\ load'.stage = "gated"
  BY GatedDoes
<1> QED
  BY <1>1, <1>2, <1>3, <1>4, <1>5, TypesConstant
     DEF RegistriesInv, LoadInv, TodoInv

LEMMA FinishTyped ==
    ASSUME RegistriesInv, LoadInv, FinishLoad
    PROVE  RegistriesInv' /\ LoadInv'
<1>1. load \in Loads
  BY DEF LoadInv
<1>2. UNCHANGED <<models, pipelines, graphs, aliases, unchecked, servedConfigs>>
  BY DEF FinishLoad, registries
<1>3. load' \in Loads /\ load'.stage \in {"gated", "ended"}
  BY <1>1 DEF FinishLoad, EndLoad, Loads, Stages
<1> QED
  BY <1>2, <1>3, TypesConstant DEF RegistriesInv, LoadInv, TodoInv

-----------------------------------------------------------------------------
(* Types *)

LEMMA LoadStepTyped ==
    ASSUME RegistriesInv, LoadInv, ReloadingInv, LoadStep
    PROVE  RegistriesInv' /\ LoadInv'
BY ReadingTyped, LoadModelTyped, SubConfigsTyped, RetireModelsTyped,
   LibrariesTyped, ProcessPipelineTyped, RetirePipelinesTyped,
   RetireGraphsTyped,
   ProcessMediapipeTyped, GatedTyped, FinishTyped
   DEF LoadStep

LEMMA RegistriesKept ==
    ASSUME RegistriesInv, UNCHANGED registries
    PROVE  RegistriesInv'
BY DEF RegistriesInv, registries

LEMMA NewLoads ==
    /\ NoLoad \in Loads /\ NoLoad.stage = "none"
    /\ NewLoad \in Loads /\ NewLoad.stage = "read" /\ NewLoad.reads = 0
    /\ \A l \in {NoLoad, NewLoad} :
          l.fresh = [n \in Names |-> NoConfig] /\ l.gated = <<>>
<1>1. /\ <<>> \in Seq(AllEntries) /\ <<>> \in Seq(Gated)
      /\ <<>> \in Seq(GraphEntries)
  OBVIOUS
<1>2. [n \in Names |-> NoConfig] \in [Names -> Configs]
  BY EntriesTyped
<1>3. "none" \in Stages /\ "read" \in Stages /\ "OK" \in Errors
  BY DEF Stages, Errors
<1>4. NoLoad \in Loads
  BY <1>1, <1>2, <1>3 DEF NoLoad, Loads
<1>5. /\ NoLoad.stage = "none" /\ NoLoad.reads = 0 /\ NoLoad.gated = <<>>
      /\ NoLoad.fresh = [n \in Names |-> NoConfig]
  BY DEF NoLoad
<1>6. /\ NewLoad \in Loads /\ NewLoad.stage = "read"
      /\ NewLoad.reads = NoLoad.reads /\ NewLoad.gated = NoLoad.gated
      /\ NewLoad.fresh = NoLoad.fresh
  BY <1>3, <1>4 DEF NewLoad, Loads
<1> QED
  BY <1>4, <1>5, <1>6

LEMMA LoadKept ==
    ASSUME LoadInv, load' \in {load, NoLoad, NewLoad}
    PROVE  LoadInv'
<1>1. CASE load' = load
  BY <1>1, TypesConstant DEF LoadInv, TodoInv
<1>2. CASE load' \in {NoLoad, NewLoad}
  BY <1>2, NewLoads, TypesConstant DEF LoadInv, TodoInv
<1> QED
  BY <1>1, <1>2

\* An update leaves every model and pipeline there that was there.
LEMMA UpdateDoes ==
    ASSUME RegistriesInv, UpdateRegistries
    PROVE  /\ models' \in [Names -> Models]
           /\ \A n \in Names :
                 /\ ModelExists(n) => models'[n].state # "none"
                 /\ servedConfigs[n] = NoConfig => models'[n] = models[n]
           /\ pipelines' \in [Names -> Pipelines]
           /\ \A n \in Names : /\ pipelines'[n].state = "none"
                                     <=> pipelines[n].state = "none"
                               /\ pipelines'[n].subs \subseteq pipelines'[n].uses
           /\ UNCHANGED <<graphs, aliases, unchecked, servedConfigs>>
<1> DEFINE now == {n \in Names : servedConfigs[n] # NoConfig}
           r == [n \in now |-> Reloaded(n, servedConfigs[n])]
           after == [n \in Names |-> IF n \in now THEN r[n].model ELSE models[n]]
           changed == {n \in Names : after[n] # models[n]}
           told == Notified(changed)
           Stale(n) == told[n].state \in {"stale", "failed_stale"}
           Good(n) == /\ told[n].library = NoName \/ told[n].library \in libraries
                      /\ \A m \in told[n].uses : /\ after[m].state = "available"
                                                 /\ ~after[m].config.auto
           nowPipelines == [n \in Names |->
             IF Stale(n) THEN [told[n] EXCEPT !.state =
                                  IF Good(n) THEN "available" ELSE "failed"]
             ELSE told[n]]
<1>1. models' = after /\ pipelines' = nowPipelines
         /\ UNCHANGED <<graphs, aliases, unchecked, servedConfigs>>
  BY DEF UpdateRegistries, Updated
<1>2. ASSUME NEW n \in Names
      PROVE  /\ after[n] \in Models
             /\ ModelExists(n) => after[n].state # "none"
             /\ servedConfigs[n] = NoConfig => after[n] = models[n]
  <2>1. CASE n \in now
    <3>1. servedConfigs[n] \in Configs /\ r[n] = Reloaded(n, servedConfigs[n])
      BY <2>1 DEF RegistriesInv
    <3>2. after[n] = r[n].model /\ servedConfigs[n] # NoConfig
      BY <2>1
    <3> HIDE DEF after, r
    <3> QED
      BY <3>1, <3>2, ReloadedModel
  <2>2. CASE n \notin now
    BY <2>2 DEF RegistriesInv, ModelExists, IsRegistered
  <2> QED
    BY <2>1, <2>2
<1>3. ASSUME NEW n \in Names
      PROVE  /\ nowPipelines[n] \in Pipelines
             /\ nowPipelines[n].state = "none" <=> pipelines[n].state = "none"
             /\ nowPipelines[n].subs \subseteq nowPipelines[n].uses
  <2>1. /\ told[n] \in Pipelines
        /\ told[n].state = "none" <=> pipelines[n].state = "none"
        /\ told[n].subs \subseteq told[n].uses
    <3> HIDE DEF changed
    <3> QED
      BY NotifiedPipelines DEF RegistriesInv
  <2>2. PICK s \in {"available", "failed"} :
           nowPipelines[n] = IF Stale(n) THEN [told[n] EXCEPT !.state = s]
                                         ELSE told[n]
    OBVIOUS
  <2> HIDE DEF told, nowPipelines
  <2> QED
    BY <2>1, <2>2 DEF Pipelines, PipelineStates
<1>4. after \in [Names -> Models]
  <2> SUFFICES \A n \in Names : after[n] \in Models
    OBVIOUS
  <2> QED
    BY <1>2
<1>5. nowPipelines \in [Names -> Pipelines]
  <2> SUFFICES \A n \in Names : nowPipelines[n] \in Pipelines
    OBVIOUS
  <2> QED
    BY <1>3
<1> HIDE DEF after, nowPipelines
<1> QED
  BY <1>1, <1>2, <1>3, <1>4, <1>5

\* The steps of the threads.
ThreadStep ==
    \/ WatcherCycle \/ WatcherLoaded \/ WatcherUpdate
    \/ \E c \in Clients : \/ Request(c) \/ ClientChecks(c) \/ ClientLoads(c)
                          \/ ClientLoaded(c) \/ ClientUpdates(c)
    \/ \E content \in Contents : EditFile(content)
    \/ \E n \in Fragile : Break(n)

\* They start a load or end one, and update the registries without one.
LEMMA ThreadStepDoes ==
    ASSUME OwnerInv, LoadInv, ThreadStep
    PROVE  /\ UNCHANGED registries \/ UpdateRegistries
           /\ \/ load' = load
              \/ load' = NewLoad /\ load.stage = "none"
              \/ load' = NoLoad /\ load.stage = "ended"
           /\ load' = load \/ UNCHANGED registries
<1> USE DEF registries
<1>1. owner = NoOne => load.stage = "none"
  BY ThreadsAssumption DEF OwnerInv, Threads
<1>2. CASE WatcherCycle \/ WatcherLoaded \/ WatcherUpdate
  BY <1>1, <1>2 DEF WatcherCycle, WatcherLoaded, WatcherUpdate
<1>3. ASSUME NEW c \in Clients,
             \/ Request(c) \/ ClientChecks(c) \/ ClientLoads(c)
             \/ ClientLoaded(c) \/ ClientUpdates(c)
      PROVE  /\ UNCHANGED registries \/ UpdateRegistries
             /\ \/ load' = load
                \/ load' = NewLoad /\ load.stage = "none"
                \/ load' = NoLoad /\ load.stage = "ended"
             /\ load' = load \/ UNCHANGED registries
  BY <1>1, <1>3
     DEF Request, ClientChecks, ClientLoads, ClientLoaded, ClientUpdates
<1>4. CASE (\E content \in Contents : EditFile(content))
           \/ \E n \in Fragile : Break(n)
  BY <1>4 DEF EditFile, Break
<1> QED
  BY <1>2, <1>3, <1>4 DEF ThreadStep

LEMMA ThreadStepTyped ==
    ASSUME RegistriesInv, OwnerInv, LoadInv, ThreadStep
    PROVE  RegistriesInv' /\ LoadInv'
<1>1. LoadInv'
  BY ThreadStepDoes, LoadKept
<1>2. CASE UNCHANGED registries
  BY <1>1, <1>2, RegistriesKept
<1>3. CASE UpdateRegistries
  BY <1>1, <1>3, UpdateDoes, TypesConstant DEF RegistriesInv
<1> QED
  BY <1>2, <1>3, ThreadStepDoes

LEMMA OwnerKept ==
    ASSUME OwnerInv, LoadInv, ThreadStep
    PROVE  OwnerInv'
<1> USE ThreadsAssumption, NewLoads DEF OwnerInv, Threads
<1>1. owner = NoOne => load.stage = "none"
  OBVIOUS
<1>2. CASE WatcherCycle
  BY <1>1, <1>2 DEF WatcherCycle, outside
<1>3. CASE WatcherLoaded
  BY <1>3 DEF WatcherLoaded, outside
<1>4. CASE WatcherUpdate
  BY <1>4 DEF WatcherUpdate, outside
<1>5. ASSUME NEW c \in Clients, Request(c)
      PROVE  OwnerInv'
  BY <1>5 DEF Request, outside
<1>6. ASSUME NEW c \in Clients, ClientChecks(c)
      PROVE  OwnerInv'
  BY <1>6 DEF ClientChecks, Answer, outside
<1>7. ASSUME NEW c \in Clients, ClientLoads(c)
      PROVE  OwnerInv'
  BY <1>1, <1>7 DEF ClientLoads, outside
<1>8. ASSUME NEW c \in Clients, ClientLoaded(c)
      PROVE  OwnerInv'
  BY <1>8 DEF ClientLoaded, Answer, outside
<1>9. ASSUME NEW c \in Clients, ClientUpdates(c)
      PROVE  OwnerInv'
  BY <1>9 DEF ClientUpdates, Answer, outside
<1>10. ASSUME NEW content \in Contents, EditFile(content)
       PROVE  OwnerInv'
  BY <1>10 DEF EditFile
<1>11. ASSUME NEW n \in Fragile, Break(n)
       PROVE  OwnerInv'
  BY <1>11 DEF Break, threads
<1> QED
  BY <1>2, <1>3, <1>4, <1>5, <1>6, <1>7, <1>8, <1>9, <1>10, <1>11 DEF ThreadStep

\* What a step leaves alone.
LEMMA ReloadingKept ==
    ASSUME ReloadingInv, UNCHANGED <<graphs, aliases, unchecked>>,
           ~(load.stage = "graphs" /\ load.after = "reload"),
           ~(load'.stage = "graphs" /\ load'.after = "reload")
    PROVE  ReloadingInv'
BY DEF ReloadingInv

\* One entry of a list of models.
LEMMA LoadModelDoes ==
    ASSUME RegistriesInv, LoadInv, LoadModel
    PROVE  /\ UNCHANGED <<graphs, aliases, unchecked>>
           /\ load.stage = "models" /\ load'.stage = "models"
           /\ \/ /\ UNCHANGED <<models, pipelines, servedConfigs>>
                 /\ load'.fresh = load.fresh /\ load'.gated = load.gated
              \/ \E n \in Names :
                    /\ ~PipelineExists(n) /\ ~GraphExists(n)
                    /\ \E m \in Models, changed \in SUBSET Names, e \in Errors,
                          g \in Seq(Gated), f \in Configs :
                          Tried(n, m, changed, e, g, f)
<1> DEFINE item == Head(load.todo)
           n == item.name
<1>1. load \in Loads /\ load.stage = "models" /\ load.todo # <<>>
         /\ UNCHANGED <<graphs, aliases, unchecked>>
  BY DEF LoadInv, LoadModel
<1>2. n \in Names /\ (item.kind = "model" => Config(item) \in Configs)
  BY <1>1, ListOfModels
<1>3. CASE /\ item.kind = "model" /\ ~PipelineExists(n) /\ ~GraphExists(n)
           /\ ReloadListed(n, Config(item))
  <2>1. PICK m \in Models, changed \in SUBSET Names, e \in Errors,
             g \in Seq(Gated), f \in Configs : Tried(n, m, changed, e, g, f)
    BY <1>1, <1>2, <1>3, ReloadListedDoes
  <2>2. load'.stage = "models"
    BY <1>1, <2>1 DEF Tried, Loads
  <2> HIDE DEF n
  <2> QED
    BY <1>1, <1>2, <1>3, <2>1, <2>2
<1>4. CASE /\ UNCHANGED <<models, pipelines, servedConfigs>>
           /\ \/ \E g : load' = [load EXCEPT !.todo = Tail(@), !.graphs = g]
              \/ \E i, e : load' = [load EXCEPT !.todo = Tail(@), !.error = e,
                                                !.invalid = i]
              \/ \E e : load' = [load EXCEPT !.todo = Tail(@), !.error = e]
              \/ \E e : load' = [[load EXCEPT !.todo = Tail(@), !.error = e]
                                    EXCEPT !.todo = <<>>]
  BY <1>1, <1>4 DEF Loads
<1> HIDE DEF n
<1>5. \/ item.kind = "model" /\ ~PipelineExists(n) /\ ~GraphExists(n)
         /\ ReloadListed(n, Config(item))
      \/ /\ UNCHANGED <<models, pipelines, servedConfigs>>
         /\ \/ \E g : load' = [load EXCEPT !.todo = Tail(@), !.graphs = g]
            \/ \E i, e : load' = [load EXCEPT !.todo = Tail(@), !.error = e,
                                              !.invalid = i]
            \/ \E e : load' = [load EXCEPT !.todo = Tail(@), !.error = e]
            \/ \E e : load' = [[load EXCEPT !.todo = Tail(@), !.error = e]
                                  EXCEPT !.todo = <<>>]
  <2>1. CASE StartsFromGraph(item)
             /\ load' = [load EXCEPT !.todo = Tail(@),
                   !.graphs = IF load.after = "subs" THEN Append(@, item) ELSE @]
             /\ UNCHANGED <<models, pipelines, servedConfigs>>
    BY <2>1
  <2>2. CASE load' = SkipInvalid(item)
             /\ UNCHANGED <<models, pipelines, servedConfigs>>
    BY <2>2 DEF SkipInvalid
  <2>3. CASE load' = [[load EXCEPT !.todo = Tail(@),
                          !.error = ModelError("PLUGIN_CONFIG_INVALID")]
                         EXCEPT !.todo = <<>>]
             /\ UNCHANGED <<models, pipelines, servedConfigs>>
    BY <2>3
  <2>4. CASE load' = [load EXCEPT !.todo = Tail(@),
                                  !.error = ModelError("MODEL_NAME_OCCUPIED")]
             /\ UNCHANGED <<models, pipelines, servedConfigs>>
    BY <2>4
  <2>5. CASE item.kind = "model" /\ ~PipelineExists(n) /\ ~GraphExists(n)
             /\ ReloadListed(n, Config(item))
    BY <2>5
  <2> QED
    BY <2>1, <2>2, <2>3, <2>4, <2>5 DEF LoadModel, n
<1> QED
  BY <1>3, <1>4, <1>5

LEMMA QuietDoes ==
    ASSUME load \in Loads,
           \/ ParseConfig \/ LoadCustomLoadersConfig \/ ParseMediapipeConfig
           \/ LoadMediapipeSubConfigModels \/ LoadCustomNodeLibrariesConfig
           \/ FinishLoad
    PROVE  /\ UNCHANGED <<models, pipelines, graphs, aliases, unchecked,
                          servedConfigs>>
           /\ ~(load.stage = "graphs" /\ load.after = "reload")
           /\ ~(load'.stage = "graphs" /\ load'.after = "reload")
           /\ load'.fresh = load.fresh /\ load'.gated = load.gated
<1>1. load \in Loads
  OBVIOUS
<1>2. UNCHANGED <<models, pipelines, graphs, aliases, unchecked, servedConfigs>>
  BY DEF ParseConfig, LoadCustomLoadersConfig, ParseMediapipeConfig,
         LoadMediapipeSubConfigModels, LoadCustomNodeLibrariesConfig,
         FinishLoad,
         registries
<1>3. /\ ~(load.stage = "graphs" /\ load.after = "reload")
      /\ ~(load'.stage = "graphs" /\ load'.after = "reload")
      /\ load'.fresh = load.fresh /\ load'.gated = load.gated
  <2>1. CASE ParseConfig
    <3>1. load.stage = "read"
      BY <2>1 DEF ParseConfig
    <3>2. \/ \E k : load' = [load EXCEPT !.reads = k]
          \/ \E e : load' = [load EXCEPT !.stage = "ended", !.error = e]
          \/ \E d : load' = [load EXCEPT !.stage = "loaders", !.doc = d]
      BY <2>1 DEF ParseConfig, EndLoad
    <3>3. CASE \E k : load' = [load EXCEPT !.reads = k]
      BY <1>1, <3>1, <3>3 DEF Loads
    <3>4. CASE \E e : load' = [load EXCEPT !.stage = "ended", !.error = e]
      BY <1>1, <3>1, <3>4 DEF Loads
    <3>5. CASE \E d : load' = [load EXCEPT !.stage = "loaders", !.doc = d]
      BY <1>1, <3>1, <3>5 DEF Loads
    <3> QED
      BY <3>2, <3>3, <3>4, <3>5
  <2>2. CASE LoadCustomLoadersConfig
    BY <1>1, <2>2 DEF LoadCustomLoadersConfig, Loads
  <2>3. CASE ParseMediapipeConfig
    BY <1>1, <2>3 DEF ParseMediapipeConfig, Loads
  <2>4. CASE LoadCustomNodeLibrariesConfig
    BY <1>1, <2>4 DEF LoadCustomNodeLibrariesConfig, Loads
  <2>5. CASE FinishLoad
    BY <1>1, <2>5 DEF FinishLoad, EndLoad, Loads
  <2>6. CASE LoadMediapipeSubConfigModels
    <3>1. CASE load.stage = "models" /\ load' = [load EXCEPT !.stage = "subs",
                  !.subs = IF load.after = "subs" THEN load.graphs ELSE @]
      BY <1>1, <3>1 DEF Loads
    <3>2. CASE load.stage = "subs" /\ load' = [load EXCEPT !.stage = "models",
                  !.after = "more", !.todo = Head(load.subs).sub, !.subs = Tail(@)]
      BY <1>1, <3>2 DEF Loads
    <3>3. CASE load.stage = "subs" /\ load' = [load EXCEPT !.subs = <<>>]
      BY <1>1, <3>3 DEF Loads
    <3>4. CASE load.stage = "subs" /\ load' = [load EXCEPT !.stage = "retire"]
      BY <1>1, <3>4 DEF Loads
    <3> QED
      BY <2>6, <3>1, <3>2, <3>3, <3>4 DEF LoadMediapipeSubConfigModels
  <2> QED
    BY <2>1, <2>2, <2>3, <2>4, <2>5, <2>6
<1> QED
  BY <1>2, <1>3

LEMMA ReloadingStays ==
    ASSUME TypeInv, LoadStep
    PROVE  ReloadingInv'
<1>1. load \in Loads /\ RegistriesInv /\ LoadInv /\ ReloadingInv
  BY DEF TypeInv, LoadInv
<1>2. CASE /\ UNCHANGED <<graphs, aliases, unchecked>>
           /\ ~(load.stage = "graphs" /\ load.after = "reload")
           /\ ~(load'.stage = "graphs" /\ load'.after = "reload")
  BY <1>1, <1>2, ReloadingKept
<1>3. CASE \/ ParseConfig \/ LoadCustomLoadersConfig \/ ParseMediapipeConfig
           \/ LoadMediapipeSubConfigModels \/ LoadCustomNodeLibrariesConfig
           \/ FinishLoad
  BY <1>1, <1>2, <1>3, QuietDoes
<1>4. CASE LoadModel
  BY <1>1, <1>2, <1>4, LoadModelDoes
<1>5. CASE RetireModelsRemovedFromConfigFile
  BY <1>1, <1>2, <1>5 DEF RetireModelsRemovedFromConfigFile, Loads
<1>6. CASE ProcessPipelineConfig
  <2>1. load'.stage = "pipelines"
    BY <1>1, <1>6, ProcessPipelineDoes
  <2> QED
    BY <1>2, <1>6, <2>1 DEF ProcessPipelineConfig
<1>7. CASE RetirePipelinesOtherThan
  BY <1>1, <1>2, <1>7 DEF RetirePipelinesOtherThan, Loads
<1>8. CASE TryReloadGatedModelConfigs
  <2>1. load'.stage = "gated"
    BY <1>1, <1>8, GatedDoes
  <2> QED
    BY <1>2, <1>8, <2>1 DEF TryReloadGatedModelConfigs
<1>9. CASE RetireGraphsOtherThan
  <2>1. load.after = "retire" /\ load'.after = "graphs"
    BY <1>1, <1>9 DEF RetireGraphsOtherThan, Loads
  <2>2. \A n \in Names : graphs'[n].state \in {graphs[n].state, "retired"}
    BY <1>1, <1>9 DEF RetireGraphsOtherThan, RegistriesInv, Graphs, IsRegistered
  <2> QED
    BY <1>1, <2>1, <2>2 DEF ReloadingInv
<1>10. CASE ProcessMediapipeConfig
  <2> DEFINE g == Head(load.todo)
  <2>1. /\ load.stage = "graphs" /\ load.todo # <<>>
        /\ g \in GraphEntries /\ g.name \in Names
        /\ Tail(load.todo) \in Seq(AllEntries)
        /\ GraphStep(g)
    BY <1>1, <1>10, ProcessMediapipeDoes
  <2>2. load.after # "reload" => \A n \in Names : graphs[n].state # "reloading"
    BY <1>1 DEF ReloadingInv
  <2> HIDE DEF g
  <2>3. NextEntry(g) => load'.after = "graphs"
    BY <1>1, <2>1, NextGraphDoes
  <2>4. CASE load.after = "graphs" /\ NextEntry(g) /\ GraphSkipped(g)
    BY <1>2, <2>3, <2>4 DEF GraphSkipped
  <2>5. ASSUME NEW d \in Names, NextEntry(g), GraphPut(g, d),
               load.after = "graphs" \/ ReloadingGraph(g, d)
        PROVE  ReloadingInv'
    <3>1. /\ graphs'[d].state # "reloading"
          /\ \A n \in Names : n # d => graphs'[n] = graphs[n]
      BY <1>1, <2>1, <2>5, GraphPutTyped
    <3>2. \A n \in Names : graphs'[n].state # "reloading"
      BY <1>1, <2>2, <2>5, <3>1 DEF ReloadingGraph, ReloadingInv
    <3> QED
      BY <2>3, <2>5, <3>2 DEF ReloadingInv
  <2>6. ASSUME NEW d \in Names, load.after = "graphs",
               d # g.name => aliases[g.name] = d, ClearLoraAliases(g, d)
        PROVE  ReloadingInv'
    <3>1. /\ aliases' = [n \in Names |-> IF aliases[n] = g.name THEN NoName
                                                                ELSE aliases[n]]
          /\ graphs' = [graphs EXCEPT ![d].state = "reloading"]
          /\ load' = [load EXCEPT !.after = "reload"]
      BY <2>6 DEF ClearLoraAliases
    <3>2. load'.stage = "graphs" /\ load'.after = "reload"
             /\ load'.todo = load.todo
      BY <1>1, <2>1, <3>1 DEF Loads
    <3>3. /\ graphs'[d].state = "reloading"
          /\ \A n \in Names : n # d => graphs'[n] = graphs[n]
      BY <1>1, <3>1 DEF RegistriesInv, Graphs
    <3>4. d # g.name => aliases'[g.name] = d
      BY <2>1, <2>6, <3>1
    <3>5. \A n \in Names : graphs'[n].state = "reloading" => n = d
      BY <2>2, <2>6, <3>3
    <3> QED
      BY <2>1, <3>2, <3>3, <3>4, <3>5 DEF ReloadingInv, g
  <2> QED
    BY <2>1, <2>4, <2>5, <2>6 DEF GraphStep
<1> QED
  BY <1>3, <1>4, <1>5, <1>6, <1>7, <1>8, <1>9, <1>10 DEF LoadStep

LEMMA ThreadsKeepReloading ==
    ASSUME TypeInv, ThreadStep
    PROVE  ReloadingInv'
<1>1. /\ UNCHANGED <<graphs, aliases, unchecked>>
      /\ \/ load' = load
         \/ load' \in {NewLoad, NoLoad} /\ load.stage \in {"none", "ended"}
  BY ThreadStepDoes, UpdateDoes DEF TypeInv, registries
<1>2. CASE load' = load
  BY <1>1, <1>2 DEF TypeInv, ReloadingInv
<1>3. CASE load' \in {NewLoad, NoLoad} /\ load.stage \in {"none", "ended"}
  <2>1. load'.stage \in {"none", "read"}
    BY <1>3, NewLoads
  <2> QED
    BY <1>1, <1>3, <2>1, ReloadingKept DEF TypeInv
<1> QED
  BY <1>1, <1>2, <1>3

LEMMA StutterKeepsTypes ==
    ASSUME TypeInv, UNCHANGED configVars
    PROVE  TypeInv'
<1> USE DEF configVars, registries, outside, threads
<1>1. RegistriesInv'
  BY RegistriesKept DEF TypeInv
<1>2. LoadInv'
  BY LoadKept DEF TypeInv
<1>3. OwnerInv'
  BY DEF TypeInv, OwnerInv, Threads, Contents
<1>4. ReloadingInv'
  BY DEF TypeInv, ReloadingInv
<1> QED
  BY <1>1, <1>2, <1>3, <1>4 DEF TypeInv

LEMMA TypesKept ==
    ASSUME TypeInv, ConfigNext
    PROVE  TypeInv'
<1>1. CASE LoadStep
  <2>1. RegistriesInv' /\ LoadInv'
    BY <1>1, LoadStepTyped DEF TypeInv
  <2>2. OwnerInv'
    <3>1. /\ load.stage # "none" /\ load'.stage # "none"
          /\ UNCHANGED <<threads, outside>> /\ md5' \in Contents
      BY <1>1, LoadStepFrame DEF TypeInv, OwnerInv
    <3> QED
      BY <3>1 DEF TypeInv, OwnerInv, threads, outside
  <2> QED
    BY <1>1, <2>1, <2>2, ReloadingStays DEF TypeInv
<1>2. CASE ThreadStep
  BY <1>2, ThreadStepTyped, OwnerKept, ThreadsKeepReloading DEF TypeInv
<1> QED
  BY <1>1, <1>2 DEF ConfigNext, ThreadStep

-----------------------------------------------------------------------------
(* Invariants *)

LEMMA InitNames ==
    ConfigInit => NamesInv /\ SeesInv
<1> SUFFICES ASSUME ConfigInit PROVE NamesInv /\ SeesInv
  OBVIOUS
<1>1. NoModel \in Models /\ NoPipeline \in Pipelines /\ NoGraph \in Graphs
  BY EntriesTyped
     DEF NoModel, NoPipeline, NoGraph, Models, Pipelines, Graphs, ModelStates,
         PipelineStates, GraphStates, GraphVersions
<1>2. /\ NoModel.state = "none" /\ NoPipeline.state = "none"
      /\ NoGraph.state = "none"
      /\ NoPipeline.subs \subseteq NoPipeline.uses
  BY DEF NoModel, NoPipeline, NoGraph
<1>3. RegistriesInv
  BY <1>1, <1>2, EntriesTyped DEF ConfigInit, RegistriesInv
<1>4. LoadInv /\ load.stage = "read"
  BY NewLoads DEF ConfigInit, LoadInv, TodoInv
<1>5. OwnerInv
  BY <1>4, ThreadsAssumption DEF ConfigInit, OwnerInv, Threads, Contents
<1>6. ModelsInv
  BY NewLoads DEF ConfigInit, ModelsInv
<1>7. AliasInv /\ Exclusive
  BY <1>2 DEF ConfigInit, AliasInv, Exclusive, ModelExists, PipelineExists,
              GraphExists, IsRegistered
<1>8. ReloadingInv
  BY <1>2, <1>4 DEF ConfigInit, ReloadingInv
<1>9. SeesInv
  BY ThreadsAssumption DEF ConfigInit, SeesInv, Threads
<1> QED
  BY <1>3, <1>4, <1>5, <1>6, <1>7, <1>8, <1>9 DEF NamesInv, TypeInv

\* The content a load computed the md5 of is one the request has seen.
LEMMA NextKeepsSees ==
    ASSUME TypeInv, SeesInv, ConfigNext
    PROVE  SeesInv'
<1> USE DEF Threads
<1>1. OwnerInv /\ LoadInv /\ load \in Loads
  BY DEF TypeInv, LoadInv
<1>2. CASE ParseConfig
  <2>1. UNCHANGED <<file, at, sees>> /\ load.stage = "read"
    BY <1>2 DEF ParseConfig, outside, threads
  <2>2. ASSUME NEW c \in Clients, at[c] = "load",
               load'.stage # "read" \/ load'.reads > 0
        PROVE  md5' \in sees[c]
    <3>1. file \in sees[c] /\ (load.reads > 0 => md5 \in sees[c])
      BY <2>2 DEF SeesInv
    <3>2. load.reads \in Nat
      BY <1>1 DEF Loads
    <3> QED
      BY <1>2, <3>1, <3>2 DEF ParseConfig
  <2>3. ASSUME NEW c \in Clients, at[c] = "update"
        PROVE  md5' \in sees[c]
    <3>1. file \in sees[c] /\ md5 \in sees[c]
      BY <2>3 DEF SeesInv
    <3> QED
      BY <1>2, <3>1 DEF ParseConfig
  <2> QED
    BY <2>1, <2>2, <2>3 DEF SeesInv, Contents
<1>3. CASE LoadStep /\ ~ParseConfig
  <2>1. UNCHANGED <<file, at, sees>>
    BY <1>1, <1>3, LoadStepFrame DEF outside, threads, OwnerInv
  <2>2. md5' = md5 /\ load.stage # "read"
    BY <1>3
       DEF LoadStep, LoadCustomLoadersConfig, ParseMediapipeConfig, LoadModel,
           LoadMediapipeSubConfigModels, RetireModelsRemovedFromConfigFile,
           LoadCustomNodeLibrariesConfig, ProcessPipelineConfig,
           RetirePipelinesOtherThan, RetireGraphsOtherThan,
           ProcessMediapipeConfig, TryReloadGatedModelConfigs, FinishLoad
  <2> QED
    BY <2>1, <2>2 DEF SeesInv, Contents
<1>4. CASE WatcherCycle \/ WatcherLoaded \/ WatcherUpdate
  <2>1. UNCHANGED <<file, md5, sees>> /\ \A c \in Clients : at'[c] = at[c]
    BY <1>1, <1>4, ThreadsAssumption
       DEF WatcherCycle, WatcherLoaded, WatcherUpdate, outside, OwnerInv
  <2>2. ASSUME NEW c \in Clients, at[c] = "load"
        PROVE  load' = load
    <3>1. owner = c /\ c # Watcher /\ c # NoOne
      BY <1>1, <2>2, ThreadsAssumption DEF OwnerInv
    <3> QED
      BY <1>1, <1>4, <3>1
         DEF WatcherCycle, WatcherLoaded, WatcherUpdate, OwnerInv
  <2> QED
    BY <2>1, <2>2 DEF SeesInv, Contents
<1>5. ASSUME NEW c \in Clients, Request(c)
      PROVE  SeesInv'
  BY <1>1, <1>5, ThreadsAssumption
     DEF Request, SeesInv, outside, OwnerInv, Contents
<1>6. ASSUME NEW c \in Clients, ClientChecks(c)
      PROVE  SeesInv'
  BY <1>1, <1>6
     DEF ClientChecks, Answer, ReloadNeeded, SeesInv, outside, OwnerInv,
                    Contents
<1>7. ASSUME NEW c \in Clients, ClientLoads(c)
      PROVE  SeesInv'
  <2>1. UNCHANGED <<file, md5, sees>> /\ load' = NewLoad
           /\ at' = [at EXCEPT ![c] = "load"] /\ at[c] = "wait"
    BY <1>7 DEF ClientLoads, outside
  <2>2. ASSUME NEW d \in Clients, at'[d] = "load"
        PROVE  ~(load'.stage # "read" \/ load'.reads > 0)
    BY <2>1, NewLoads
  <2> QED
    BY <1>1, <2>1, <2>2 DEF SeesInv, OwnerInv, Contents
<1>8. ASSUME NEW c \in Clients, ClientLoaded(c)
      PROVE  SeesInv'
  <2>1. UNCHANGED <<file, md5, sees>> /\ at[c] = "load" /\ md5 \in sees[c]
    BY <1>8 DEF ClientLoaded, outside, SeesInv
  <2>2. \E s \in {"update", "idle"} : at' = [at EXCEPT ![c] = s]
    BY <1>8 DEF ClientLoaded, Answer
  <2>3. \A d \in Clients : d # c => at[d] # "load"
    BY <1>1, <2>1 DEF OwnerInv
  <2> QED
    BY <1>1, <2>1, <2>2, <2>3 DEF SeesInv, OwnerInv, Contents
<1>9. ASSUME NEW c \in Clients, ClientUpdates(c)
      PROVE  SeesInv'
  BY <1>1, <1>9 DEF ClientUpdates, Answer, SeesInv, outside, OwnerInv, Contents
<1>10. ASSUME NEW content \in Contents, EditFile(content)
       PROVE  SeesInv'
  BY <1>1, <1>10 DEF EditFile, SeesInv, OwnerInv, Contents
<1>11. ASSUME NEW n \in Fragile, Break(n)
       PROVE  SeesInv'
  BY <1>11 DEF Break, threads, SeesInv, Contents
<1> QED
  BY <1>2, <1>3, <1>4, <1>5, <1>6, <1>7, <1>8, <1>9, <1>10, <1>11 DEF ConfigNext

\* What a step leaves alone.
LEMMA ExclusiveKept ==
    ASSUME Exclusive, UNCHANGED <<graphs, aliases, unchecked>>,
           \A n \in Names :
              /\ ModelExists(n)' => \/ ModelExists(n)
                                    \/ ~PipelineExists(n) /\ ~GraphExists(n)
              /\ PipelineExists(n)' => PipelineExists(n)
    PROVE  Exclusive'
<1>1. \A n \in Names : /\ IsRegistered(graphs, n)' <=> IsRegistered(graphs, n)
                       /\ GraphExists(n)' <=> GraphExists(n)
  BY DEF IsRegistered, GraphExists
<1> QED
  BY <1>1 DEF Exclusive, GraphExists

LEMMA AliasKept ==
    ASSUME AliasInv, UNCHANGED aliases
    PROVE  AliasInv'
BY DEF AliasInv, GraphEntries, MainEntries, Entries

LEMMA ModelsKept ==
    ASSUME ModelsInv, load \in Loads, UNCHANGED servedConfigs,
           load'.fresh = load.fresh, load'.gated = load.gated,
           \A n \in Names : ModelExists(n) => ModelExists(n)'
    PROVE  ModelsInv'
<1>1. load.gated \in Seq(Gated)
  BY DEF Loads
<1>2. \A i \in DOMAIN load.gated : load.gated[i].name \in Names
  <2>1. \A i \in DOMAIN load.gated : load.gated[i] \in Gated
    BY <1>1
  <2> QED
    BY <2>1 DEF Gated
<1> QED
  BY <1>2 DEF ModelsInv, NoConfig

LEMMA LoadModelKeeps ==
    ASSUME NamesInv, LoadModel
    PROVE  ModelsInv' /\ AliasInv' /\ Exclusive'
<1>1. RegistriesInv /\ LoadInv /\ load \in Loads
  BY DEF NamesInv, TypeInv, LoadInv
<1>2. /\ UNCHANGED <<graphs, aliases, unchecked>>
      /\ load.stage = "models" /\ load'.stage = "models"
  BY <1>1, LoadModelDoes
<1>3. AliasInv'
  BY <1>2, AliasKept DEF NamesInv
<1>4. CASE /\ UNCHANGED <<models, pipelines, servedConfigs>>
           /\ load'.fresh = load.fresh /\ load'.gated = load.gated
  BY <1>2, <1>3, <1>4, ExclusiveKept
     DEF NamesInv, ModelsInv, ModelExists, PipelineExists, IsRegistered
<1>5. ASSUME NEW n \in Names, ~PipelineExists(n), ~GraphExists(n),
             NEW m \in Models, NEW changed \in SUBSET Names, NEW e \in Errors,
             NEW g \in Seq(Gated), NEW f \in Configs,
             Tried(n, m, changed, e, g, f)
      PROVE  ModelsInv' /\ AliasInv' /\ Exclusive'
  <2>1. models' = [models EXCEPT ![n] = m] /\ models \in [Names -> Models]
           /\ (ModelExists(n) => m.state # "none")
    BY <1>1, <1>5 DEF Tried, RegistriesInv
  <2>2. \A x \in Names : /\ ModelExists(x) => ModelExists(x)'
                         /\ ModelExists(x)' => ModelExists(x) \/ x = n
                         /\ m.state # "none" => ModelExists(n)'
    BY <2>1 DEF ModelExists, IsRegistered
  <2>3. \A x \in Names : PipelineExists(x)' <=> PipelineExists(x)
    BY <1>1, <1>5, NotifiedPipelines DEF Tried, PipelineExists, IsRegistered
  <2>4. Exclusive'
    BY <1>2, <1>5, <2>2, <2>3, ExclusiveKept DEF NamesInv
  <2>5. load'.gated = g /\ load'.fresh = [load.fresh EXCEPT ![n] = f]
           /\ load.fresh \in [Names -> Configs] /\ load.gated \in Seq(Gated)
    BY <1>1, <1>5 DEF Tried, Loads
  <2>6. \/ m.state # "none" /\ g = load.gated
        \/ /\ servedConfigs[n] # NoConfig /\ f = servedConfigs[n]
           /\ \E x \in Gated : x.name = n /\ g = Append(load.gated, x)
        \/ f = load.fresh[n] /\ g = load.gated
    BY <1>5 DEF Tried
  <2>7. \A x \in Names : servedConfigs'[x] # NoConfig => servedConfigs[x] # NoConfig
    BY <1>1, <1>5 DEF Tried, RegistriesInv
  <2>8. /\ \A x \in Names : servedConfigs[x] # NoConfig => ModelExists(x)
        /\ \A x \in Names : load.fresh[x] # NoConfig => ModelExists(x)
        /\ \A i \in DOMAIN load.gated : ModelExists(load.gated[i].name)
        /\ \A i \in DOMAIN load.gated : load.gated[i].name \in Names
    <3>1. \A i \in DOMAIN load.gated : load.gated[i] \in Gated
      BY <2>5
    <3>2. \A i \in DOMAIN load.gated : load.gated[i].name \in Names
      BY <3>1 DEF Gated
    <3> QED
      BY <3>2 DEF NamesInv, ModelsInv
  <2>9. \A x \in Names : load'.fresh[x] # NoConfig => ModelExists(x)'
    BY <2>2, <2>5, <2>6, <2>8
  <2>10. \A i \in DOMAIN g : ModelExists(g[i].name)'
    <3>1. CASE g = load.gated
      BY <2>2, <2>8, <3>1
    <3>2. ASSUME NEW x \in Gated, x.name = n, servedConfigs[n] # NoConfig,
                 g = Append(load.gated, x)
          PROVE  \A i \in DOMAIN g : ModelExists(g[i].name)'
      <4>1. ModelExists(x.name)'
        BY <2>2, <2>8, <3>2
      <4>2. \A i \in DOMAIN g : \/ i \in DOMAIN load.gated /\ g[i] = load.gated[i]
                                \/ g[i] = x
        BY <2>5, <3>2
      <4> QED
        BY <2>2, <2>8, <4>1, <4>2
    <3> QED
      BY <2>6, <3>1, <3>2
  <2>11. \A x \in Names : servedConfigs'[x] # NoConfig => ModelExists(x)'
    BY <2>2, <2>7, <2>8
  <2>12. ModelsInv'
    BY <2>5, <2>9, <2>10, <2>11 DEF ModelsInv, NoConfig
  <2> QED
    BY <1>3, <2>4, <2>12
<1> QED
  BY <1>1, <1>4, <1>5, LoadModelDoes

LEMMA QuietKeeps ==
    ASSUME NamesInv,
           \/ ParseConfig \/ LoadCustomLoadersConfig \/ ParseMediapipeConfig
           \/ LoadMediapipeSubConfigModels \/ LoadCustomNodeLibrariesConfig
           \/ FinishLoad
    PROVE  ModelsInv' /\ AliasInv' /\ Exclusive'
<1>1. load \in Loads
  BY DEF NamesInv, TypeInv, LoadInv
<1>2. /\ UNCHANGED <<models, pipelines, graphs, aliases, unchecked,
                     servedConfigs>>
      /\ load'.fresh = load.fresh /\ load'.gated = load.gated
  BY <1>1, QuietDoes
<1>3. \A n \in Names : /\ ModelExists(n)' <=> ModelExists(n)
                       /\ PipelineExists(n)' <=> PipelineExists(n)
  BY <1>2 DEF ModelExists, PipelineExists, IsRegistered
<1> QED
  BY <1>1, <1>2, <1>3, ModelsKept, AliasKept, ExclusiveKept DEF NamesInv

LEMMA RetireModelsKeeps ==
    ASSUME NamesInv, RetireModelsRemovedFromConfigFile
    PROVE  ModelsInv' /\ AliasInv' /\ Exclusive'
<1>1. load \in Loads /\ RegistriesInv
  BY DEF NamesInv, TypeInv, LoadInv
<1>2. UNCHANGED <<graphs, aliases, unchecked>> /\ servedConfigs' = load.fresh
  BY DEF RetireModelsRemovedFromConfigFile
<1>3. load.stage = "retire" /\ load'.stage = "libraries"
         /\ load'.fresh = load.fresh /\ load'.gated = load.gated
  BY <1>1 DEF RetireModelsRemovedFromConfigFile, Loads
<1>4. \A n \in Names : ModelExists(n)' <=> ModelExists(n)
  <2>1. \A n \in Names : models[n] \in Models
    BY <1>1 DEF RegistriesInv
  <2> QED
    BY <2>1
       DEF RetireModelsRemovedFromConfigFile, ModelExists, IsRegistered, Models
<1>5. \A n \in Names : PipelineExists(n)' <=> PipelineExists(n)
  BY <1>1, NotifiedPipelines
     DEF RetireModelsRemovedFromConfigFile, PipelineExists, IsRegistered
<1>6. load.gated \in Seq(Gated)
  BY <1>1 DEF Loads
<1>7. \A i \in DOMAIN load.gated : load.gated[i].name \in Names
  <2>1. \A i \in DOMAIN load.gated : load.gated[i] \in Gated
    BY <1>6
  <2> QED
    BY <2>1 DEF Gated
<1>8. ModelsInv'
  BY <1>2, <1>3, <1>4, <1>7 DEF NamesInv, ModelsInv, NoConfig
<1> QED
  BY <1>2, <1>3, <1>4, <1>5, <1>8, AliasKept, ExclusiveKept
     DEF NamesInv

LEMMA PipelinesKeep ==
    ASSUME NamesInv, ProcessPipelineConfig \/ RetirePipelinesOtherThan
    PROVE  ModelsInv' /\ AliasInv' /\ Exclusive'
<1>1. load \in Loads /\ RegistriesInv /\ LoadInv
  BY DEF NamesInv, TypeInv, LoadInv
<1>2. UNCHANGED <<models, graphs, aliases, unchecked, servedConfigs>>
  BY DEF ProcessPipelineConfig, RetirePipelinesOtherThan
<1>3. \A n \in Names : ModelExists(n)' <=> ModelExists(n)
  BY <1>2 DEF ModelExists, IsRegistered
<1>4. \A n \in Names : IsRegistered(graphs, n)' <=> IsRegistered(graphs, n)
  BY <1>2 DEF IsRegistered
<1>5. \A n \in Names : GraphExists(n)' <=> GraphExists(n)
  BY <1>2 DEF GraphExists, IsRegistered
<1>6. load.stage = "pipelines"
  BY DEF ProcessPipelineConfig, RetirePipelinesOtherThan
<1>7. CASE ProcessPipelineConfig
  <2>1. load'.fresh = load.fresh /\ load'.gated = load.gated
           /\ load'.stage = "pipelines"
    BY <1>1, <1>7, ProcessPipelineDoes
  <2>2. \A n \in Names : PipelineExists(n)' =>
           PipelineExists(n) \/ ~(ModelExists(n) \/ GraphExists(n))
    <3>1. CASE UNCHANGED pipelines
      BY <3>1 DEF PipelineExists, IsRegistered
    <3>2. ASSUME NEW n \in Names, NEW p \in Pipelines,
                 pipelines' = [pipelines EXCEPT ![n] = p],
                 PipelineExists(n) \/ ~(ModelExists(n) \/ GraphExists(n))
          PROVE  \A x \in Names : PipelineExists(x)' =>
                    PipelineExists(x) \/ ~(ModelExists(x) \/ GraphExists(x))
      <4>1. \A x \in Names : PipelineExists(x)' => PipelineExists(x) \/ x = n
        BY <1>1, <3>2 DEF PipelineExists, IsRegistered, RegistriesInv
      <4> QED
        BY <3>2, <4>1
    <3> QED
      BY <1>1, <1>7, <3>1, <3>2, ProcessPipelineDoes
  <2>3. Exclusive'
    BY <1>2, <1>3, <1>4, <1>5, <2>2 DEF NamesInv, Exclusive, GraphExists
  <2> QED
    BY <1>1, <1>2, <1>3, <1>6, <2>1, <2>3, ModelsKept, AliasKept
       DEF NamesInv
<1>8. CASE RetirePipelinesOtherThan
  <2>1. load'.fresh = load.fresh /\ load'.gated = load.gated
           /\ load'.stage = "graphs" /\ load'.after = "retire"
    BY <1>1, <1>8 DEF RetirePipelinesOtherThan, Loads
  <2>2. \A n \in Names : PipelineExists(n)' => PipelineExists(n)
    BY <1>8 DEF RetirePipelinesOtherThan, PipelineExists, IsRegistered
  <2> QED
    BY <1>1, <1>2, <1>3, <1>6, <2>1, <2>2, ModelsKept, AliasKept,
       ExclusiveKept
       DEF NamesInv
<1> QED
  BY <1>7, <1>8

LEMMA RetireGraphsKeeps ==
    ASSUME NamesInv, RetireGraphsOtherThan
    PROVE  ModelsInv' /\ AliasInv' /\ Exclusive'
<1>1. load \in Loads /\ RegistriesInv
  BY DEF NamesInv, TypeInv, LoadInv
<1>2. UNCHANGED <<models, pipelines, aliases, unchecked, servedConfigs>>
  BY DEF RetireGraphsOtherThan
<1>3. \A n \in Names : /\ ModelExists(n)' <=> ModelExists(n)
                       /\ PipelineExists(n)' <=> PipelineExists(n)
  BY <1>2 DEF ModelExists, PipelineExists, IsRegistered
<1>4. load.after = "retire" /\ load'.after = "graphs"
         /\ load'.fresh = load.fresh /\ load'.gated = load.gated
  BY <1>1 DEF RetireGraphsOtherThan, Loads
<1>5. \A n \in Names : graphs'[n].state \in {graphs[n].state, "retired"}
         /\ (graphs[n].state = "none" => graphs'[n].state = "none")
  BY <1>1 DEF RetireGraphsOtherThan, RegistriesInv, Graphs, IsRegistered
<1>6. \A n \in Names : IsRegistered(graphs, n)' => IsRegistered(graphs, n)
  BY <1>5 DEF IsRegistered
<1>7. Exclusive'
  BY <1>2, <1>3, <1>6 DEF NamesInv, Exclusive, GraphExists
<1> QED
  BY <1>1, <1>2, <1>3, <1>4, <1>7, ModelsKept, AliasKept DEF NamesInv

\* A graph that is put in its place takes no other's name, nor do those of its
\* aliases that were checked.
LEMMA GraphPutKeeps ==
    ASSUME NamesInv, UNCHANGED <<models, pipelines, servedConfigs>>,
           NEW g \in GraphEntries, g.name \in Names, NEW d \in Names,
           GraphPut(g, d), ~GraphExists(d) \/ IsRegistered(graphs, d)
    PROVE  AliasInv' /\ Exclusive'
<1>1. RegistriesInv /\ AliasInv /\ Exclusive
  BY DEF NamesInv, TypeInv
<1>2. PICK s \in Errors :
         /\ graphs' = [graphs EXCEPT ![d] =
                         [state |-> GraphState(s), ver |-> g.ver]]
         /\ ~(ModelExists(d) \/ PipelineExists(d)) \/ IsRegistered(graphs, d)
  BY DEF GraphPut
<1>3. PICK new \in SUBSET g.aliases, t \in Errors :
         /\ RegisterAliases(g, d, new, t)
         /\ t = "OK" => ~AliasesConflict(new, d)
  BY DEF GraphPut
<1>4. /\ \A n \in Names : aliases'[n] = IF n \in new THEN g.name ELSE aliases[n]
      /\ unchecked' = (unchecked \ new)
                         \cup (IF t = "OK" THEN new \cap {d} ELSE new)
  BY <1>3 DEF RegisterAliases
<1>5. \A n \in Names : /\ IsRegistered(graphs, n)' =>
                             IsRegistered(graphs, n) \/ n = d
                       /\ ModelExists(n)' <=> ModelExists(n)
                       /\ PipelineExists(n)' <=> PipelineExists(n)
  <2>1. \A n \in Names : n # d => graphs'[n] = graphs[n]
    BY <1>1, <1>2 DEF RegistriesInv
  <2> QED
    BY <2>1 DEF ModelExists, PipelineExists, IsRegistered
<1>6. ~ModelExists(d) /\ ~PipelineExists(d)
      /\ (aliases[d] # NoName => d \in unchecked)
  BY <1>1, <1>2 DEF Exclusive, GraphExists
<1>7. AliasInv'
  <2>1. \A n \in Names : aliases'[n] # NoName =>
           \E h \in GraphEntries : h.name = aliases'[n] /\ n \in h.aliases
    BY <1>1, <1>4 DEF AliasInv
  <2> QED
    BY <2>1 DEF AliasInv, GraphEntries, MainEntries, Entries
<1>8. ASSUME NEW n \in Names, n \in new, n \notin unchecked'
      PROVE  /\ ~ModelExists(n) /\ ~PipelineExists(n)
             /\ ~IsRegistered(graphs, n) /\ n # d
  <2>1. t = "OK" /\ n # d
    BY <1>4, <1>8
  <2> QED
    BY <1>3, <1>8, <2>1 DEF AliasesConflict
<1>9. ASSUME NEW n \in Names, n \notin new, n \notin unchecked',
             aliases'[n] # NoName
      PROVE  /\ ~ModelExists(n) /\ ~PipelineExists(n)
             /\ ~IsRegistered(graphs, n) /\ n # d
  <2>1. aliases[n] # NoName /\ n \notin unchecked
    BY <1>4, <1>9
  <2> QED
    BY <1>1, <1>6, <2>1 DEF Exclusive
<1>10. \A n \in Names : aliases'[n] # NoName /\ n \notin unchecked' =>
          /\ ~ModelExists(n)' /\ ~PipelineExists(n)'
          /\ ~IsRegistered(graphs, n)'
  BY <1>5, <1>8, <1>9
<1>11. \A n \in Names :
          /\ ModelExists(n)' => ~PipelineExists(n)'
          /\ IsRegistered(graphs, n)' => ~ModelExists(n)' /\ ~PipelineExists(n)'
  BY <1>1, <1>5, <1>6 DEF Exclusive
<1>12. Exclusive'
  BY <1>10, <1>11 DEF Exclusive
<1> QED
  BY <1>7, <1>12

LEMMA ProcessMediapipeKeeps ==
    ASSUME NamesInv, ProcessMediapipeConfig
    PROVE  ModelsInv' /\ AliasInv' /\ Exclusive'
<1> DEFINE g == Head(load.todo)
<1>1. /\ load \in Loads /\ RegistriesInv /\ LoadInv /\ ReloadingInv
      /\ Exclusive /\ AliasInv
  BY DEF NamesInv, TypeInv, LoadInv
<1>2. /\ load.stage = "graphs" /\ load.todo # <<>>
      /\ g \in GraphEntries /\ g.name \in Names
      /\ Tail(load.todo) \in Seq(AllEntries)
      /\ GraphStep(g)
  BY <1>1, ProcessMediapipeDoes
<1>3. UNCHANGED <<models, pipelines, servedConfigs>>
  BY DEF ProcessMediapipeConfig
<1>4. \A n \in Names : /\ ModelExists(n)' <=> ModelExists(n)
                       /\ PipelineExists(n)' <=> PipelineExists(n)
  BY <1>3 DEF ModelExists, PipelineExists, IsRegistered
<1> HIDE DEF g
<1>8. ASSUME NextEntry(g)
      PROVE  ModelsInv' /\ load'.after = "graphs"
  <2>1. load'.after = "graphs" /\ load'.fresh = load.fresh
           /\ load'.gated = load.gated
    BY <1>1, <1>2, <1>8, NextGraphDoes
  <2> QED
    BY <1>1, <1>3, <1>4, <2>1, ModelsKept DEF NamesInv
<1>9. CASE load.after = "graphs" /\ NextEntry(g) /\ GraphSkipped(g)
  <2>1. UNCHANGED <<graphs, aliases, unchecked>> /\ load'.after = "graphs" /\ ModelsInv'
    BY <1>8, <1>9 DEF GraphSkipped
  <2> QED
    BY <1>1, <1>4, <2>1, AliasKept, ExclusiveKept
<1>10. ASSUME NEW d \in Names, NextEntry(g), GraphPut(g, d),
              \/ load.after = "graphs" /\ d = g.name /\ ~GraphExists(d)
              \/ ReloadingGraph(g, d)
       PROVE  ModelsInv' /\ AliasInv' /\ Exclusive'
  <2>1. ~GraphExists(d) \/ IsRegistered(graphs, d)
    BY <1>10 DEF ReloadingGraph, IsRegistered
  <2>2. AliasInv' /\ Exclusive'
    BY <1>2, <1>3, <1>10, <2>1, GraphPutKeeps
  <2> QED
    BY <1>8, <1>10, <2>2
<1>11. ASSUME NEW d \in Names, load.after = "graphs", IsRegistered(graphs, d),
              d # g.name => aliases[g.name] = d, ClearLoraAliases(g, d)
       PROVE  ModelsInv' /\ AliasInv' /\ Exclusive'
  <2>1. /\ aliases' = [n \in Names |-> IF aliases[n] = g.name THEN NoName
                                                              ELSE aliases[n]]
        /\ graphs' = [graphs EXCEPT ![d].state = "reloading"]
        /\ load' = [load EXCEPT !.after = "reload"]
    BY <1>11 DEF ClearLoraAliases
  <2>2. /\ load'.stage = "graphs" /\ load'.after = "reload"
        /\ load'.todo = load.todo
        /\ load'.fresh = load.fresh /\ load'.gated = load.gated
    BY <1>1, <1>2, <2>1 DEF Loads
  <2>3. /\ graphs'[d].state = "reloading"
        /\ \A n \in Names : n # d => graphs'[n] = graphs[n]
    BY <1>1, <2>1 DEF RegistriesInv, Graphs
  <2>4. \A n \in Names : IsRegistered(graphs, n)' <=> IsRegistered(graphs, n)
    BY <1>11, <2>3 DEF IsRegistered
  <2>5. \A n \in Names : \/ aliases'[n] = NoName
                         \/ /\ aliases'[n] = aliases[n]
                            /\ n \in unchecked <=> n \in unchecked'
    BY <1>11, <2>1 DEF ClearLoraAliases
  <2>6. AliasInv'
    <3>1. \A n \in Names : aliases'[n] # NoName =>
             \E h \in GraphEntries : h.name = aliases'[n] /\ n \in h.aliases
      BY <1>1, <2>5 DEF AliasInv
    <3> QED
      BY <3>1 DEF AliasInv, GraphEntries, MainEntries, Entries
  <2>7. Exclusive'
    BY <1>1, <1>4, <2>4, <2>5 DEF Exclusive
  <2>10. ModelsInv'
    BY <1>1, <1>3, <1>4, <2>2, ModelsKept DEF NamesInv
  <2> QED
    BY <2>6, <2>7, <2>10
<1> QED
  BY <1>2, <1>9, <1>10, <1>11 DEF GraphStep

LEMMA GatedKeeps ==
    ASSUME NamesInv, TryReloadGatedModelConfigs
    PROVE  ModelsInv' /\ AliasInv' /\ Exclusive'
<1>1. load \in Loads /\ RegistriesInv /\ LoadInv /\ ModelsInv
  BY DEF NamesInv, TypeInv, LoadInv
<1>2. UNCHANGED <<graphs, aliases, unchecked>> /\ load.stage = "gated"
  BY DEF TryReloadGatedModelConfigs
<1>3. load'.stage = "gated" /\ load'.fresh = load.fresh
         /\ load'.gated = Tail(load.gated)
  BY <1>1, GatedDoes
<1>4. PICK i \in 1 .. Len(load.gated), m \in Models :
         LET n == load.gated[i].name
         IN  /\ n \in Names
             /\ models' = [models EXCEPT ![n] = m]
             /\ ModelExists(n) => m.state # "none"
             /\ \/ servedConfigs' = servedConfigs
                \/ /\ servedConfigs[n] # NoConfig
                   /\ \E c \in Configs :
                         servedConfigs' = [servedConfigs EXCEPT ![n] = c]
  BY <1>1, GatedDoes
<1> DEFINE n == load.gated[i].name
<1>5. load.gated \in Seq(Gated)
  BY <1>1 DEF Loads
<1>6. i \in DOMAIN load.gated
  BY <1>4, <1>5
<1>7. ModelExists(n)
  BY <1>1, <1>6 DEF ModelsInv
<1>8. \A x \in Names : ModelExists(x)' <=> ModelExists(x)
  <2>1. models' = [models EXCEPT ![n] = m] /\ m.state # "none"
    BY <1>4, <1>7
  <2> HIDE DEF n
  <2> QED
    BY <1>1, <1>7, <2>1 DEF ModelExists, IsRegistered, RegistriesInv
<1>9. \A x \in Names : PipelineExists(x)' <=> PipelineExists(x)
  BY <1>1, GatedDoes, NotifiedPipelines DEF PipelineExists, IsRegistered
<1>10. \A x \in Names : servedConfigs'[x] # NoConfig => ModelExists(x)
  <2>1. /\ n \in Names
        /\ \/ servedConfigs' = servedConfigs
           \/ \E c \in Configs : servedConfigs' = [servedConfigs EXCEPT ![n] = c]
    BY <1>4
  <2>2. \A x \in Names : servedConfigs[x] # NoConfig => ModelExists(x)
    BY <1>1 DEF ModelsInv
  <2> HIDE DEF n
  <2>3. \A x \in Names : x # n => servedConfigs'[x] = servedConfigs[x]
    BY <1>1, <2>1 DEF RegistriesInv
  <2> QED
    BY <1>7, <2>2, <2>3
<1>11. CASE load.gated # <<>>
  <2>1. \A j \in DOMAIN load.gated : load.gated[j].name \in Names
    <3>1. \A j \in DOMAIN load.gated : load.gated[j] \in Gated
      BY <1>5
    <3> QED
      BY <3>1 DEF Gated
  <2>2. \A j \in DOMAIN load.gated : models'[load.gated[j].name].state # "none"
    BY <1>1, <1>8, <2>1 DEF ModelsInv, ModelExists, IsRegistered
  <2>3. \A j \in DOMAIN Tail(load.gated) :
           j + 1 \in DOMAIN load.gated /\ Tail(load.gated)[j] = load.gated[j + 1]
    BY <1>5, <1>11
  <2>4. \A j \in DOMAIN load'.gated : models'[load'.gated[j].name].state # "none"
    BY <1>3, <2>2, <2>3
  <2> HIDE DEF n
  <2>5. ModelsInv'
    BY <1>1, <1>3, <1>8, <1>10, <2>4
       DEF ModelsInv, NoConfig, ModelExists, IsRegistered
  <2> QED
    BY <1>2, <1>3, <1>8, <1>9, <2>5, AliasKept, ExclusiveKept
       DEF NamesInv
<1> QED
  BY <1>11 DEF TryReloadGatedModelConfigs

LEMMA ThreadsKeep ==
    ASSUME NamesInv, ThreadStep
    PROVE  ModelsInv' /\ AliasInv' /\ Exclusive'
<1>1. /\ load \in Loads /\ RegistriesInv /\ LoadInv /\ OwnerInv
      /\ ModelsInv /\ AliasInv /\ Exclusive
  BY DEF NamesInv, TypeInv, LoadInv
<1>2. /\ UNCHANGED registries \/ UpdateRegistries
      /\ \/ load' = load
         \/ load' = NewLoad /\ load.stage = "none"
         \/ load' = NoLoad /\ load.stage = "ended"
      /\ load' = load \/ UNCHANGED registries
  BY <1>1, ThreadStepDoes
<1>3. UNCHANGED <<graphs, aliases, unchecked, servedConfigs>>
  BY <1>1, <1>2, UpdateDoes DEF registries
<1>4. \A n \in Names : /\ ModelExists(n) => ModelExists(n)'
                       /\ servedConfigs[n] = NoConfig => models'[n] = models[n]
                       /\ PipelineExists(n)' <=> PipelineExists(n)
  <2>1. CASE UNCHANGED registries
    BY <2>1 DEF registries, ModelExists, PipelineExists, IsRegistered
  <2>2. CASE UpdateRegistries
    BY <1>1, <2>2, UpdateDoes DEF ModelExists, PipelineExists, IsRegistered
  <2> QED
    BY <1>2, <2>1, <2>2
<1>5. \A n \in Names : ModelExists(n)' => ModelExists(n)
  BY <1>1, <1>4 DEF ModelsInv, ModelExists, IsRegistered
<1>6. Exclusive' /\ AliasInv'
  BY <1>1, <1>3, <1>4, <1>5, ExclusiveKept, AliasKept
<1>7. CASE load' = load
  <2>1. ModelsInv'
    BY <1>1, <1>3, <1>4, <1>7, ModelsKept
  <2> QED
    BY <1>6, <2>1
<1>8. CASE load' \in {NewLoad, NoLoad} /\ load.stage \in {"none", "ended"}
  <2>1. /\ load'.fresh = [n \in Names |-> NoConfig] /\ load'.gated = <<>>
        /\ load'.stage \in {"none", "read"}
    BY <1>8, NewLoads
  <2>2. \A n \in Names : load'.fresh[n] = NoConfig
    BY <2>1
  <2>3. DOMAIN load'.gated = {}
    BY <2>1
  <2>4. \A n \in Names : servedConfigs'[n] # NoConfig => ModelExists(n)'
    BY <1>1, <1>3, <1>4 DEF ModelsInv
  <2>5. ModelsInv'
    BY <2>2, <2>3, <2>4 DEF ModelsInv, NoConfig
  <2> QED
    BY <1>6, <2>5
<1> QED
  BY <1>2, <1>7, <1>8

LEMMA NextKeepsNames ==
    ASSUME NamesInv, ConfigNext
    PROVE  NamesInv'
<1>1. TypeInv'
  BY TypesKept DEF NamesInv
<1>2. CASE LoadStep
  <2>1. ModelsInv' /\ AliasInv' /\ Exclusive'
    BY <1>2, QuietKeeps, LoadModelKeeps, RetireModelsKeeps, PipelinesKeep,
       RetireGraphsKeeps, ProcessMediapipeKeeps, GatedKeeps
       DEF LoadStep
  <2> QED
    BY <1>1, <2>1 DEF NamesInv
<1>3. CASE ThreadStep
  BY <1>1, <1>3, ThreadsKeep DEF NamesInv
<1> QED
  BY <1>2, <1>3 DEF ConfigNext, ThreadStep

LEMMA StutterKeepsNames ==
    ASSUME NamesInv, UNCHANGED configVars
    PROVE  NamesInv'
<1> USE DEF configVars, registries, outside, threads
<1>1. TypeInv'
  BY StutterKeepsTypes DEF NamesInv
<1>2. \A n \in Names : ModelExists(n)' <=> ModelExists(n)
  BY DEF ModelExists, IsRegistered
<1>3. ModelsInv'
  BY <1>2, ModelsKept DEF NamesInv, TypeInv, LoadInv
<1>4. AliasInv'
  BY AliasKept DEF NamesInv
<1>5. Exclusive'
  BY
     DEF NamesInv, Exclusive, ModelExists, PipelineExists, GraphExists,
         IsRegistered
<1> QED
  BY <1>1, <1>3, <1>4, <1>5 DEF NamesInv

LEMMA OnlyOneUse ==
    Exclusive => NamesAreExclusive
<1> SUFFICES ASSUME Exclusive, NEW n \in Names
             PROVE  LET uses == {u \in {"model", "pipeline", "graph", "alias"} :
                           CASE u = "model" -> ModelExists(n)
                             [] u = "pipeline" -> PipelineExists(n)
                             [] u = "graph" -> IsRegistered(graphs, n)
                             [] u = "alias" -> aliases[n] # NoName
                                               /\ n \notin unchecked}
                    IN  Cardinality(uses) <= 1
  BY Zenon DEF NamesAreExclusive
<1> DEFINE uses == {u \in {"model", "pipeline", "graph", "alias"} :
                       CASE u = "model" -> ModelExists(n)
                         [] u = "pipeline" -> PipelineExists(n)
                         [] u = "graph" -> IsRegistered(graphs, n)
                         [] u = "alias" -> aliases[n] # NoName
                                           /\ n \notin unchecked}
<1>1. \A u, v \in uses : u = v
  BY DEF Exclusive, GraphExists
<1> HIDE DEF uses
<1>2. uses = {} \/ \E u : uses = {u}
  BY <1>1
<1>3. Cardinality(uses) \in {0, 1}
  <2>1. CASE uses = {}
    BY <2>1, FS_EmptySet
  <2>2. ASSUME NEW u, uses = {u}
        PROVE  Cardinality(uses) = 1
    BY <2>2, FS_Singleton
  <2> QED
    BY <1>2, <2>1, <2>2
<1>4. Cardinality(uses) <= 1
  BY <1>3
<1> QED
  BY <1>4 DEF uses

\* An answer of OK comes from the update, after what the load did or found.
LEMMA AnswersComeFromUpdates ==
    ASSUME TypeInv, SeesInv, ConfigNext, NEW c \in Clients, answer[c] = "none",
           answer'[c] \in {"OK_RELOADED", "OK_NOT_RELOADED"}
    PROVE  md5 \in sees[c]
<1>1. load.error \notin {"OK_RELOADED", "OK_NOT_RELOADED"}
  BY DEF TypeInv, LoadInv, Loads, Errors
<1>2. answer' # answer
  OBVIOUS
<1>3. CASE LoadStep
  BY <1>2, <1>3, LoadStepFrame DEF TypeInv, OwnerInv, threads
<1>4. CASE WatcherCycle \/ WatcherLoaded \/ WatcherUpdate
           \/ (\E content \in Contents : EditFile(content))
           \/ \E n \in Fragile : Break(n)
  BY <1>2, <1>4
     DEF WatcherCycle, WatcherLoaded, WatcherUpdate, EditFile, Break, threads
<1>5. ASSUME NEW d \in Clients, ClientUpdates(d)
      PROVE  md5 \in sees[c]
  <2>1. d = c
    BY <1>2, <1>5 DEF ClientUpdates, Answer
  <2> QED
    BY <1>5, <2>1 DEF ClientUpdates, SeesInv
<1>6. ASSUME NEW d \in Clients, ClientLoaded(d)
      PROVE  md5 \in sees[c]
  <2>1. answer' = [answer EXCEPT ![d] = load.error]
    BY <1>2, <1>6 DEF ClientLoaded, Answer
  <2> QED
    BY <1>1, <2>1
<1>7. ASSUME NEW d \in Clients, Request(d)
      PROVE  md5 \in sees[c]
  <2>1. answer' = [answer EXCEPT ![d] = "none"]
    BY <1>7 DEF Request
  <2> QED
    BY <2>1
<1>8. ASSUME NEW d \in Clients, ClientChecks(d)
      PROVE  md5 \in sees[c]
  <2>1. answer' = [answer EXCEPT ![d] =
                     "CONFIG_FILE_TIMESTAMP_READING_FAILED"]
    BY <1>2, <1>8 DEF ClientChecks, Answer
  <2> QED
    BY <2>1
<1>9. ASSUME NEW d \in Clients, ClientLoads(d)
      PROVE  md5 \in sees[c]
  BY <1>2, <1>9 DEF ClientLoads
<1> QED
  BY <1>3, <1>4, <1>5, <1>6, <1>7, <1>8, <1>9 DEF ConfigNext

-----------------------------------------------------------------------------
(* How far a load has come *)

\* rest is what is left of a list that is read from its beginning, Read how
\* much of it has been read.
IsRest(rest, list) ==
    /\ Len(rest) <= Len(list)
    /\ \A j \in DOMAIN rest : rest[j] = list[Len(list) - Len(rest) + j]
Read(rest, list) == 1 .. Len(list) - Len(rest)

\* Entry i of the list of models is the first of its name that loadModels can
\* load.
WantedAt(list, i) ==
    /\ i \in DOMAIN list /\ list[i].kind = "model"
    /\ \A j \in 1 .. i - 1 :
          /\ list[j].kind # "unsupported"
          /\ list[j].kind = "model" => list[j].name # list[i].name

\* A further entry of such a name is not loaded.
Known == load.inFile \cup {n \in Names : Occupied(n)}

\* Until the models of the file are retired, the entries that were read are
\* known by their names, and nothing was read past an unsupported one.
ModelsReadInv ==
    LET list == load.doc.models
        todo == load.todo
    IN  /\ load.stage = "models" /\ load.after = "subs" =>
              /\ IsRest(todo, list)
              /\ \A i \in Read(todo, list) :
                    WantedAt(list, i) => list[i].name \in Known
              /\ todo # <<>> =>
                    \A i \in Read(todo, list) : list[i].kind # "unsupported"
        /\ \/ load.stage \in {"subs", "retire"}
           \/ load.stage = "models" /\ load.after = "more"
           => \A i \in DOMAIN list :
                 WantedAt(list, i) => list[i].name \in Known

\* What was refused once is tried again with the configuration of the file.
GatedInv ==
    /\ load.stage = "read" => load.gated = <<>>
    /\ \A i \in DOMAIN load.gated : \A k \in DOMAIN load.doc.models :
          WantedAt(load.doc.models, k)
          /\ load.doc.models[k].name = load.gated[i].name
             => load.gated[i].config = Config(load.doc.models[k])

\* So are the graphs that were read.
GraphsReadInv ==
    load.stage = "graphs" =>
        /\ IsRest(load.todo, load.graphs)
        /\ \A i \in Read(load.todo, load.graphs) :
              load.graphs[i].name \in load.inFile

ReadInv == ModelsReadInv /\ GatedInv /\ GraphsReadInv

\* One entry less is left.
LEMMA OneLess ==
    ASSUME NEW S, NEW T, NEW list \in Seq(S), NEW rest \in Seq(T),
           IsRest(rest, list), rest # <<>>
    PROVE  /\ IsRest(Tail(rest), list)
           /\ \E k \in DOMAIN list :
                 /\ k \notin Read(rest, list)
                 /\ Head(rest) = list[k]
                 /\ 1 .. k - 1 = Read(rest, list)
                 /\ Read(Tail(rest), list) = Read(rest, list) \cup {k}
<1> DEFINE n == Len(list)
           m == Len(rest)
           k == n - m + 1
<1>1. n \in Nat /\ m \in Nat /\ m <= n /\ m # 0
  BY DEF IsRest
<1>2. /\ Tail(rest) \in Seq(T) /\ Len(Tail(rest)) = m - 1
      /\ \A j \in 1 .. m - 1 : Tail(rest)[j] = rest[j + 1]
      /\ Head(rest) = rest[1]
  OBVIOUS
<1>3. \A j \in 1 .. m : rest[j] = list[n - m + j]
  BY DEF IsRest
<1>4. \A j \in 1 .. m - 1 : Tail(rest)[j] = list[n - (m - 1) + j]
  <2> TAKE j \in 1 .. m - 1
  <2>1. rest[j + 1] = list[n - m + (j + 1)]
    BY <1>1, <1>3
  <2>2. n - m + (j + 1) = n - (m - 1) + j
    BY <1>1
  <2> QED
    BY <1>2, <2>1, <2>2
<1>5. k \in 1 .. n /\ 1 \in 1 .. m /\ n - m + 1 = k
  BY <1>1
<1>6. Head(rest) = list[k]
  BY <1>2, <1>3, <1>5
<1>7. 1 .. k - 1 = Read(rest, list) /\ k \notin Read(rest, list)
  BY <1>1 DEF Read
<1>8. Read(Tail(rest), list) = Read(rest, list) \cup {k}
  BY <1>1, <1>2 DEF Read
<1>9. IsRest(Tail(rest), list)
  BY <1>1, <1>2, <1>4 DEF IsRest
<1> QED
  BY <1>5, <1>6, <1>7, <1>8, <1>9

LEMMA NothingRead ==
    ASSUME NEW S, NEW list \in Seq(S)
    PROVE  IsRest(list, list) /\ Read(list, list) = {}
BY DEF IsRest, Read

LEMMA AllRead ==
    ASSUME NEW S, NEW list \in Seq(S)
    PROVE  IsRest(<<>>, list) /\ Read(<<>>, list) = DOMAIN list
BY DEF IsRest, Read

\* A name that is known stays so while the models are loaded.
LEMMA KnownKept ==
    ASSUME RegistriesInv, load.inFile \subseteq load'.inFile,
           UNCHANGED <<graphs, aliases, unchecked>>,
           pipelines' = pipelines \/ \E changed : pipelines' = Notified(changed)
    PROVE  Known \subseteq Known'
<1>1. \A n \in Names : PipelineExists(n)' <=> PipelineExists(n)
  BY NotifiedPipelines DEF PipelineExists, IsRegistered
<1>2. \A n \in Names : Occupied(n) => Occupied(n)'
  BY <1>1 DEF Occupied, GraphExists, IsRegistered
<1> QED
  BY <1>2 DEF Known

\* What is wanted of an entry does not depend on the state.
LEMMA EntriesOfModels ==
    ASSUME load \in Loads
    PROVE  /\ load.doc.models \in Seq(MainEntries)
           /\ \A i \in DOMAIN load.doc.models :
                 load.doc.models[i].name \in Names
<1>1. load.doc.models \in Seq(MainEntries)
  BY FilesAreLists DEF Loads
<1>2. \A i \in DOMAIN load.doc.models : load.doc.models[i] \in AllEntries
  BY <1>1 DEF AllEntries
<1> QED
  BY <1>1, <1>2, EntriesTyped

\* The wanted entry of a name is the first that can be loaded.
LEMMA FirstIsWanted ==
    ASSUME NEW S, NEW list \in Seq(S), NEW k \in DOMAIN list,
           list[k].kind = "model",
           \A j \in 1 .. k - 1 : list[j].kind # "unsupported",
           NEW known, list[k].name \notin known,
           \A i \in 1 .. k - 1 : WantedAt(list, i) => list[i].name \in known
    PROVE  \A i \in DOMAIN list :
              WantedAt(list, i) /\ list[i].name = list[k].name => i = k
<1> SUFFICES ASSUME NEW i \in DOMAIN list, WantedAt(list, i),
                    list[i].name = list[k].name, i # k
             PROVE  FALSE
  OBVIOUS
<1>1. i \in Nat /\ k \in Nat /\ i >= 1 /\ k >= 1
  OBVIOUS
<1>2. CASE i < k
  <2>1. i \in 1 .. k - 1
    BY <1>1, <1>2
  <2> QED
    BY <2>1
<1>3. CASE k < i
  <2>1. k \in 1 .. i - 1
    BY <1>1, <1>3
  <2> QED
    BY <2>1 DEF WantedAt
<1> QED
  BY <1>1, <1>2, <1>3

\* The invariants of the next state, about the next load.
LEMMA ReadPrimed ==
    /\ ModelsReadInv' <=>
          LET list == load'.doc.models
              todo == load'.todo
          IN  /\ load'.stage = "models" /\ load'.after = "subs" =>
                    /\ IsRest(todo, list)
                    /\ \A i \in Read(todo, list) :
                          WantedAt(list, i) => list[i].name \in Known'
                    /\ todo # <<>> =>
                          \A i \in Read(todo, list) :
                             list[i].kind # "unsupported"
              /\ \/ load'.stage \in {"subs", "retire"}
                 \/ load'.stage = "models" /\ load'.after = "more"
                 => \A i \in DOMAIN list :
                       WantedAt(list, i) => list[i].name \in Known'
    /\ GatedInv' <=>
          /\ load'.stage = "read" => load'.gated = <<>>
          /\ \A i \in DOMAIN load'.gated : \A k \in DOMAIN load'.doc.models :
                WantedAt(load'.doc.models, k)
                /\ load'.doc.models[k].name = load'.gated[i].name
                   => load'.gated[i].config = Config(load'.doc.models[k])
    /\ GraphsReadInv' <=>
          (load'.stage = "graphs" =>
              /\ IsRest(load'.todo, load'.graphs)
              /\ \A i \in Read(load'.todo, load'.graphs) :
                    load'.graphs[i].name \in load'.inFile)
<1>1. GraphsReadInv' <=>
          (load'.stage = "graphs" =>
              /\ IsRest(load'.todo, load'.graphs)
              /\ \A i \in Read(load'.todo, load'.graphs) :
                    load'.graphs[i].name \in load'.inFile)
  BY DEF GraphsReadInv, IsRest, Read
<1>2. GatedInv' <=>
          /\ load'.stage = "read" => load'.gated = <<>>
          /\ \A i \in DOMAIN load'.gated : \A k \in DOMAIN load'.doc.models :
                WantedAt(load'.doc.models, k)
                /\ load'.doc.models[k].name = load'.gated[i].name
                   => load'.gated[i].config = Config(load'.doc.models[k])
  BY DEF GatedInv, WantedAt, Config
<1>3. ModelsReadInv' <=>
          LET list == load'.doc.models
              todo == load'.todo
          IN  /\ load'.stage = "models" /\ load'.after = "subs" =>
                    /\ IsRest(todo, list)
                    /\ \A i \in Read(todo, list) :
                          WantedAt(list, i) => list[i].name \in Known'
                    /\ todo # <<>> =>
                          \A i \in Read(todo, list) :
                             list[i].kind # "unsupported"
              /\ \/ load'.stage \in {"subs", "retire"}
                 \/ load'.stage = "models" /\ load'.after = "more"
                 => \A i \in DOMAIN list :
                       WantedAt(list, i) => list[i].name \in Known'
  BY DEF ModelsReadInv, WantedAt, IsRest, Read, Known, Occupied,
         PipelineExists, GraphExists, IsRegistered
<1> QED
  BY <1>1, <1>2, <1>3

LEMMA GatedKept ==
    ASSUME GatedInv, load'.doc = load.doc, load'.gated = load.gated,
           load'.stage = "read" => load.stage = "read"
    PROVE  GatedInv'
BY ReadPrimed DEF GatedInv

\* Between the sections nothing has been read.
LEMMA OtherSections ==
    ASSUME load'.stage \notin {"models", "subs", "retire", "graphs"}
    PROVE  ModelsReadInv' /\ GraphsReadInv'
BY ReadPrimed

LEMMA OpeningReads ==
    ASSUME LoadInv, ReadInv,
           ParseConfig \/ LoadCustomLoadersConfig \/ ParseMediapipeConfig
    PROVE  ReadInv'
<1>1. load \in Loads
  BY DEF LoadInv
<1>2. CASE ParseConfig
  <2>1. load.stage = "read" /\ load.gated = <<>>
    BY <1>2 DEF ParseConfig, ReadInv, GatedInv
  <2>2. load'.gated = load.gated /\ load'.stage \in {"read", "ended", "loaders"}
    <3>1. \/ load' = [load EXCEPT !.reads = @ + 1]
          \/ load' = [load EXCEPT !.stage = "ended",
                                  !.error = "INVALID_METRICS_ENDPOINT"]
          \/ load' = [load EXCEPT !.stage = "loaders", !.doc = file]
          \/ \E s : load' = [load EXCEPT !.stage = "ended", !.error = s]
      BY <1>2 DEF ParseConfig, EndLoad
    <3> QED
      BY <1>1, <2>1, <3>1 DEF Loads
  <2>3. ModelsReadInv' /\ GraphsReadInv'
    BY <2>2, OtherSections
  <2>4. load'.gated = <<>>
    BY <2>1, <2>2
  <2>5. GatedInv'
    BY <2>4, ReadPrimed
  <2> QED
    BY <2>3, <2>5 DEF ReadInv
<1>3. CASE LoadCustomLoadersConfig
  <2>1. \E e : load' = [load EXCEPT !.stage = "parse", !.error = e]
    BY <1>3 DEF LoadCustomLoadersConfig
  <2>2. /\ load'.doc = load.doc /\ load'.gated = load.gated
        /\ load'.stage = "parse"
    BY <1>1, <2>1 DEF Loads
  <2>3. GatedInv'
    BY <2>2, GatedKept DEF ReadInv
  <2> QED
    BY <2>2, <2>3, OtherSections DEF ReadInv
<1>4. CASE ParseMediapipeConfig
  <2>1. \E e, v : load' = [load EXCEPT !.stage = "models", !.after = "subs",
                             !.todo = load.doc.models, !.graphs = v, !.error = e]
    BY <1>4 DEF ParseMediapipeConfig
  <2>2. /\ load'.doc = load.doc /\ load'.gated = load.gated
        /\ load'.stage = "models" /\ load'.after = "subs"
        /\ load'.todo = load.doc.models
    BY <1>1, <2>1 DEF Loads
  <2>3. GatedInv'
    BY <2>2, GatedKept DEF ReadInv
  <2>4. /\ IsRest(load'.todo, load'.doc.models)
        /\ Read(load'.todo, load'.doc.models) = {}
    BY <1>1, <2>2, EntriesOfModels, NothingRead
  <2>5. ModelsReadInv'
    BY <2>2, <2>4, ReadPrimed
  <2>6. GraphsReadInv'
    BY <2>2, ReadPrimed
  <2> QED
    BY <2>3, <2>5, <2>6 DEF ReadInv
<1> QED
  BY <1>2, <1>3, <1>4

\* What a step of loading an entry of a list does to the names that are known.
LEMMA ListedReads ==
    ASSUME TypeInv, ReadInv, LoadModel,
           load'.doc = load.doc, load'.stage = "models",
           load'.after = load.after, Known \subseteq Known',
           \/ load'.todo = Tail(load.todo)
           \/ (load'.todo = <<>> /\ Head(load.todo).kind = "unsupported"),
           Head(load.todo).kind = "unsupported" => load'.todo = <<>>,
           Head(load.todo).kind = "model" => Head(load.todo).name \in Known'
    PROVE  ModelsReadInv'
<1> DEFINE list == load.doc.models
           todo == load.todo
<1>1. /\ load \in Loads /\ load.stage = "models" /\ todo # <<>>
      /\ list \in Seq(MainEntries)
  BY EntriesOfModels DEF LoadModel, TypeInv, LoadInv
<1>2. CASE load.after # "subs"
  <2>1. load.after = "more"
    BY <1>1, <1>2 DEF TypeInv, LoadInv, TodoInv
  <2>2. \A i \in DOMAIN list : WantedAt(list, i) => list[i].name \in Known
    BY <1>1, <2>1 DEF ReadInv, ModelsReadInv
  <2> QED
    BY <2>1, <2>2, ReadPrimed
<1>3. CASE load.after = "subs"
  <2>1. /\ IsRest(todo, list)
        /\ \A i \in Read(todo, list) : WantedAt(list, i) => list[i].name \in Known
        /\ \A i \in Read(todo, list) : list[i].kind # "unsupported"
    BY <1>1, <1>3 DEF ReadInv, ModelsReadInv
  <2>2. todo \in Seq(AllEntries)
    BY <1>1 DEF Loads
  <2>3. PICK k \in DOMAIN list :
           /\ k \notin Read(todo, list) /\ Head(todo) = list[k]
           /\ 1 .. k - 1 = Read(todo, list)
           /\ Read(Tail(todo), list) = Read(todo, list) \cup {k}
    <3> HIDE DEF list, todo
    <3> QED
      BY <1>1, <2>1, <2>2, OneLess, Zenon
  <2>4. IsRest(Tail(todo), list)
    <3> HIDE DEF list, todo
    <3> QED
      BY <1>1, <2>1, <2>2, OneLess
  <2>5. WantedAt(list, k) => list[k].name \in Known'
    BY <2>3 DEF WantedAt
  <2>6. CASE list[k].kind # "unsupported"
    <3>1. load'.todo = Tail(todo)
      BY <2>3, <2>6
    <3>2. \A i \in Read(load'.todo, list) :
             /\ WantedAt(list, i) => list[i].name \in Known'
             /\ list[i].kind # "unsupported"
      BY <2>1, <2>3, <2>5, <2>6, <3>1
    <3> QED
      BY <1>3, <2>4, <3>1, <3>2, ReadPrimed
  <2>7. CASE list[k].kind = "unsupported"
    <3>1. load'.todo = <<>>
      BY <2>3, <2>7
    <3>2. IsRest(<<>>, list) /\ Read(<<>>, list) = DOMAIN list
      BY <1>1, AllRead
    <3>3. ASSUME NEW i \in DOMAIN list, WantedAt(list, i)
          PROVE  list[i].name \in Known'
      <4>1. k \notin 1 .. i - 1
        BY <2>7, <3>3 DEF WantedAt
      <4>2. i \in Nat /\ k \in Nat /\ k >= 1 /\ i >= 1
        BY <1>1, <2>3
      <4>3. i # k
        BY <2>7, <3>3 DEF WantedAt
      <4>4. i \in 1 .. k - 1
        BY <4>1, <4>2, <4>3
      <4> QED
        BY <2>1, <2>3, <3>3, <4>4
    <3> QED
      BY <1>3, <3>1, <3>2, <3>3, ReadPrimed
  <2> QED
    BY <2>6, <2>7
<1> QED
  BY <1>2, <1>3

\* An entry is passed over, or loaded if its name is not known.
LEMMA EntryDoes ==
    ASSUME TypeInv, LoadModel
    PROVE  /\ UNCHANGED <<graphs, aliases, unchecked>> /\ load.stage = "models"
           /\ load.todo # <<>> /\ Head(load.todo).name \in Names
           /\ load'.doc = load.doc /\ load'.stage = "models"
           /\ load'.after = load.after
           /\ \/ /\ UNCHANGED <<models, pipelines>>
                 /\ load'.gated = load.gated /\ load'.inFile = load.inFile
                 /\ Head(load.todo).kind = "model"
                       => Head(load.todo).name \in Known
                 /\ IF Head(load.todo).kind = "unsupported"
                    THEN load'.todo = <<>> ELSE load'.todo = Tail(load.todo)
              \/ /\ Head(load.todo).kind = "model"
                 /\ Head(load.todo).name \notin Known
                 /\ models' = [models EXCEPT ![Head(load.todo).name] =
                       Reloaded(Head(load.todo).name,
                                Config(Head(load.todo))).model]
                 /\ \E changed : pipelines' = Notified(changed)
                 /\ load'.todo = Tail(load.todo)
                 /\ load'.inFile = load.inFile \cup {Head(load.todo).name}
                 /\ \/ load'.gated = load.gated
                    \/ load'.gated = Append(load.gated,
                                        [name |-> Head(load.todo).name,
                                         config |-> Config(Head(load.todo))])
<1> DEFINE item == Head(load.todo)
           n == item.name
           c == Config(item)
           r == Reloaded(n, c)
           x == [name |-> n, config |-> c]
<1>1. /\ load \in Loads /\ load.stage = "models" /\ load.todo # <<>>
      /\ UNCHANGED <<graphs, aliases, unchecked>>
  BY DEF TypeInv, LoadInv, LoadModel
<1>2. n \in Names
  BY <1>1, ListOfModels DEF TypeInv
<1>3. n \in Known <=> PipelineExists(n) \/ GraphExists(n) \/ n \in load.inFile
  BY <1>2 DEF Known, Occupied
<1>4. CASE item.kind = "graph" /\ UNCHANGED <<models, pipelines>>
           /\ \E g : load' = [load EXCEPT !.todo = Tail(load.todo), !.graphs = g]
  BY <1>1, <1>2, <1>4 DEF Loads
<1>5. CASE item.kind = "invalid" /\ UNCHANGED <<models, pipelines>>
           /\ \E i, e : load' = [load EXCEPT !.todo = Tail(load.todo),
                                             !.error = e, !.invalid = i]
  BY <1>1, <1>2, <1>5 DEF Loads
<1>6. CASE item.kind = "unsupported" /\ UNCHANGED <<models, pipelines>>
           /\ \E e : load' = [[load EXCEPT !.todo = Tail(@), !.error = e]
                                 EXCEPT !.todo = <<>>]
  BY <1>1, <1>2, <1>6 DEF Loads
<1>7. CASE item.kind = "model" /\ n \in Known /\ UNCHANGED <<models, pipelines>>
           /\ \E e : load' = [load EXCEPT !.todo = Tail(load.todo), !.error = e]
  BY <1>1, <1>2, <1>7 DEF Loads
<1>8. CASE item.kind = "model" /\ n \notin Known /\ ReloadListed(n, c)
  <2>1. /\ models' = [models EXCEPT ![n] = r.model]
        /\ \E changed : pipelines' = Notified(changed)
    BY <1>8 DEF ReloadListed
  <2>2. \E e, g, f :
           /\ load' = [load EXCEPT !.todo = Tail(load.todo),
                          !.inFile = load.inFile \cup {n}, !.error = e,
                          !.gated = g, !.fresh[n] = f]
           /\ g = load.gated \/ g = Append(load.gated, x)
    <3> DEFINE isGated ==
                  r.status = "REQUESTED_DYNAMIC_PARAMETERS_ON_SUBSCRIBED_MODEL"
               retry == isGated /\ servedConfigs[n] # NoConfig
               g == IF retry THEN Append(load.gated, x) ELSE load.gated
               f == IF retry THEN servedConfigs[n]
                    ELSE IF isGated THEN load.fresh[n] ELSE c
               e == IF OkStatus(r.status) THEN load.error
                                          ELSE ModelError(r.status)
    <3>1. load' = [load EXCEPT !.todo = Tail(load.todo),
                      !.inFile = load.inFile \cup {n}, !.error = e,
                      !.gated = g, !.fresh[n] = f]
      BY <1>8 DEF ReloadListed, InFile, NewModelConfig
    <3>2. g = load.gated \/ g = Append(load.gated, x)
      OBVIOUS
    <3> QED
      BY <3>1, <3>2
  <2> HIDE DEF r, x, n, c
  <2>3. /\ load'.doc = load.doc /\ load'.stage = "models"
        /\ load'.after = load.after /\ load'.todo = Tail(load.todo)
        /\ load'.inFile = load.inFile \cup {n}
        /\ load'.gated = load.gated \/ load'.gated = Append(load.gated, x)
    BY <1>1, <2>2 DEF Loads
  <2> QED
    BY <1>1, <1>2, <1>8, <2>1, <2>3 DEF n, c, r, x
<1> HIDE DEF r, x, n, c
<1>9. \/ item.kind = "graph" /\ UNCHANGED <<models, pipelines>>
         /\ \E g : load' = [load EXCEPT !.todo = Tail(load.todo), !.graphs = g]
      \/ item.kind = "invalid" /\ UNCHANGED <<models, pipelines>>
         /\ \E i, e : load' = [load EXCEPT !.todo = Tail(load.todo),
                                           !.error = e, !.invalid = i]
      \/ item.kind = "unsupported" /\ UNCHANGED <<models, pipelines>>
         /\ \E e : load' = [[load EXCEPT !.todo = Tail(@), !.error = e]
                               EXCEPT !.todo = <<>>]
      \/ item.kind = "model" /\ n \in Known /\ UNCHANGED <<models, pipelines>>
         /\ \E e : load' = [load EXCEPT !.todo = Tail(load.todo), !.error = e]
      \/ item.kind = "model" /\ n \notin Known /\ ReloadListed(n, c)
  <2>1. CASE StartsFromGraph(item) /\ UNCHANGED <<models, pipelines>>
             /\ load' = [load EXCEPT !.todo = Tail(@),
                   !.graphs = IF load.after = "subs" THEN Append(@, item) ELSE @]
    BY <2>1 DEF StartsFromGraph
  <2>2. CASE item.kind = "invalid" /\ UNCHANGED <<models, pipelines>>
             /\ load' = SkipInvalid(item)
    BY <2>2 DEF SkipInvalid
  <2>3. CASE item.kind = "unsupported" /\ UNCHANGED <<models, pipelines>>
             /\ load' = [[load EXCEPT !.todo = Tail(@),
                            !.error = ModelError("PLUGIN_CONFIG_INVALID")]
                           EXCEPT !.todo = <<>>]
    BY <2>3
  <2>4. CASE item.kind = "model" /\ UNCHANGED <<models, pipelines>>
             /\ (PipelineExists(n) \/ GraphExists(n) \/ n \in load.inFile)
             /\ load' = [load EXCEPT !.todo = Tail(@),
                                     !.error = ModelError("MODEL_NAME_OCCUPIED")]
    BY <1>3, <2>4
  <2>5. CASE item.kind = "model" /\ ReloadListed(n, c)
             /\ ~(PipelineExists(n) \/ GraphExists(n) \/ n \in load.inFile)
    BY <1>3, <2>5
  <2> QED
    BY <2>1, <2>2, <2>3, <2>4, <2>5 DEF LoadModel, n, c
<1> QED
  BY <1>4, <1>5, <1>6, <1>7, <1>8, <1>9

\* An entry that is loaded is the one that is wanted of its name.
LEMMA EntryIsWanted ==
    ASSUME TypeInv, ReadInv, LoadModel, Head(load.todo).kind = "model",
           Head(load.todo).name \notin Known,
           NEW k \in DOMAIN load.doc.models, WantedAt(load.doc.models, k),
           load.doc.models[k].name = Head(load.todo).name
    PROVE  Config(load.doc.models[k]) = Config(Head(load.todo))
<1> DEFINE item == Head(load.todo)
           list == load.doc.models
<1>1. /\ load \in Loads /\ load.stage = "models" /\ load.todo # <<>>
      /\ list \in Seq(MainEntries)
  BY EntriesOfModels DEF LoadModel, TypeInv, LoadInv
<1>2. CASE load.after # "subs"
  <2>1. load.after = "more"
    BY <1>1, <1>2 DEF TypeInv, LoadInv, TodoInv
  <2>2. list[k].name \in Known
    BY <1>1, <2>1 DEF ReadInv, ModelsReadInv
  <2> QED
    BY <2>2
<1>3. CASE load.after = "subs"
  <2>1. /\ IsRest(load.todo, list)
        /\ \A i \in Read(load.todo, list) :
              WantedAt(list, i) => list[i].name \in Known
        /\ \A i \in Read(load.todo, list) : list[i].kind # "unsupported"
    BY <1>1, <1>3 DEF ReadInv, ModelsReadInv
  <2>2. load.todo \in Seq(AllEntries)
    BY <1>1 DEF Loads
  <2> HIDE DEF list
  <2>3. PICK j \in DOMAIN list : /\ item = list[j]
                                 /\ 1 .. j - 1 = Read(load.todo, list)
    BY <1>1, <2>1, <2>2, OneLess, Zenon
  <2>4. \A i \in DOMAIN list :
           WantedAt(list, i) /\ list[i].name = list[j].name => i = j
    <3>1. list[j].kind = "model" /\ list[j].name \notin Known
      BY <2>3
    <3>2. \A i \in 1 .. j - 1 : /\ list[i].kind # "unsupported"
                                /\ WantedAt(list, i) => list[i].name \in Known
      BY <2>1, <2>3
    <3> QED
      BY <1>1, <3>1, <3>2, FirstIsWanted
  <2>5. k \in DOMAIN list /\ WantedAt(list, k) /\ list[k].name = item.name
    BY DEF list
  <2>6. k = j
    BY <2>3, <2>4, <2>5
  <2> QED
    BY <2>3, <2>6 DEF list
<1> QED
  BY <1>2, <1>3

LEMMA LoadModelReads ==
    ASSUME TypeInv, ReadInv, LoadModel
    PROVE  ReadInv'
<1> DEFINE item == Head(load.todo)
           n == item.name
           c == Config(item)
           x == [name |-> n, config |-> c]
           list == load.doc.models
<1>1. /\ load \in Loads /\ load.stage = "models" /\ load.todo # <<>>
      /\ n \in Names /\ load'.doc = load.doc /\ load'.stage = "models"
      /\ load'.after = load.after /\ UNCHANGED <<graphs, aliases, unchecked>>
  BY EntryDoes DEF TypeInv, LoadInv
<1>2. GraphsReadInv'
  BY <1>1, ReadPrimed
<1>3. CASE /\ UNCHANGED <<models, pipelines>>
           /\ load'.gated = load.gated /\ load'.inFile = load.inFile
           /\ item.kind = "model" => n \in Known
           /\ IF item.kind = "unsupported"
              THEN load'.todo = <<>> ELSE load'.todo = Tail(load.todo)
  <2>1. Known \subseteq Known'
    BY <1>1, <1>3, KnownKept DEF TypeInv
  <2>2. ModelsReadInv'
    BY <1>1, <1>3, <2>1, ListedReads
  <2>3. GatedInv'
    BY <1>1, <1>3, GatedKept DEF ReadInv
  <2> QED
    BY <1>2, <2>2, <2>3 DEF ReadInv
<1>4. CASE /\ item.kind = "model" /\ n \notin Known
           /\ \E changed : pipelines' = Notified(changed)
           /\ load'.todo = Tail(load.todo)
           /\ load'.inFile = load.inFile \cup {n}
           /\ load'.gated = load.gated \/ load'.gated = Append(load.gated, x)
  <2>1. Known \subseteq Known'
    BY <1>1, <1>4, KnownKept DEF TypeInv
  <2>2. n \in Known'
    BY <1>4 DEF Known
  <2>3. ModelsReadInv'
    BY <1>1, <1>4, <2>1, <2>2, ListedReads
  <2>4. CASE load'.gated = load.gated
    BY <1>1, <1>2, <2>3, <2>4, GatedKept DEF ReadInv
  <2>5. CASE load'.gated = Append(load.gated, x)
    <3>1. list \in Seq(MainEntries) /\ load.gated \in Seq(Gated)
      BY <1>1, EntriesOfModels DEF Loads
    <3>2. \A k \in DOMAIN list :
             WantedAt(list, k) /\ list[k].name = n => Config(list[k]) = c
      BY <1>4, EntryIsWanted
    <3>3. \A i \in DOMAIN load'.gated :
             \/ i \in DOMAIN load.gated /\ load'.gated[i] = load.gated[i]
             \/ load'.gated[i] = x
      <4> HIDE DEF x
      <4> QED
        BY <2>5, <3>1
    <3>4. \A i \in DOMAIN load'.gated : \A k \in DOMAIN list :
             WantedAt(list, k) /\ list[k].name = load'.gated[i].name
                => load'.gated[i].config = Config(list[k])
      <4> TAKE i \in DOMAIN load'.gated
      <4> TAKE k \in DOMAIN list
      <4> HAVE WantedAt(list, k) /\ list[k].name = load'.gated[i].name
      <4>1. CASE i \in DOMAIN load.gated /\ load'.gated[i] = load.gated[i]
        BY <4>1 DEF ReadInv, GatedInv
      <4>2. CASE load'.gated[i] = x
        BY <3>2, <4>2
      <4> QED
        BY <3>3, <4>1, <4>2
    <3>5. GatedInv'
      BY <1>1, <3>4, ReadPrimed
    <3> QED
      BY <1>2, <2>3, <3>5 DEF ReadInv
  <2> QED
    BY <1>4, <2>4, <2>5
<1> QED
  BY <1>3, <1>4, EntryDoes

\* When the lists of models are at their ends, all of them were read.
LEMMA SubConfigsRead ==
    ASSUME TypeInv, ReadInv, LoadMediapipeSubConfigModels
    PROVE  ReadInv'
<1> DEFINE list == load.doc.models
           AllKnown == \A i \in DOMAIN list :
                          WantedAt(list, i) => list[i].name \in Known
<1>1. load \in Loads /\ list \in Seq(MainEntries)
  BY EntriesOfModels DEF TypeInv, LoadInv
<1>2. UNCHANGED <<models, pipelines, graphs, aliases, unchecked>>
  BY DEF LoadMediapipeSubConfigModels, registries
<1> DEFINE Goes ==
              /\ AllKnown
              /\ load'.doc = load.doc /\ load'.gated = load.gated
              /\ load'.inFile = load.inFile
              /\ \/ load'.stage \in {"subs", "retire"}
                 \/ load'.stage = "models" /\ load'.after = "more"
<1>3. ASSUME load.stage = "models", load.todo = <<>>,
             \E s : load' = [load EXCEPT !.stage = "subs", !.subs = s]
      PROVE  Goes
  <2>1. /\ load'.stage = "subs" /\ load'.doc = load.doc
        /\ load'.inFile = load.inFile /\ load'.gated = load.gated
    BY <1>1, <1>3 DEF Loads
  <2>2. AllKnown
    <3>1. CASE load.after = "subs"
      <4>1. Read(load.todo, list) = DOMAIN list
        BY <1>1, <1>3, AllRead
      <4> QED
        BY <1>3, <3>1, <4>1 DEF ReadInv, ModelsReadInv
    <3>2. CASE load.after = "more"
      BY <1>3, <3>2 DEF ReadInv, ModelsReadInv
    <3> QED
      BY <1>3, <3>1, <3>2 DEF TypeInv, LoadInv, TodoInv
  <2> QED
    BY <2>1, <2>2
<1>4. ASSUME load.stage = "subs",
             \/ \E t, s : load' = [load EXCEPT !.stage = "models",
                                !.after = "more", !.todo = t, !.subs = s]
             \/ \E s : load' = [load EXCEPT !.subs = s]
             \/ load' = [load EXCEPT !.stage = "retire"]
      PROVE  Goes
  <2>1. AllKnown
    BY <1>4 DEF ReadInv, ModelsReadInv
  <2> QED
    BY <1>1, <1>4, <2>1 DEF Loads
<1>5. Goes
  <2>1. CASE load.stage = "models" /\ load.todo = <<>>
             /\ load' = [load EXCEPT !.stage = "subs",
                   !.subs = IF load.after = "subs" THEN load.graphs ELSE @]
    BY <1>3, <2>1
  <2>2. CASE load.stage = "subs"
             /\ load' = [load EXCEPT !.stage = "models", !.after = "more",
                            !.todo = Head(load.subs).sub, !.subs = Tail(@)]
    BY <1>4, <2>2
  <2>3. CASE load.stage = "subs" /\ load' = [load EXCEPT !.subs = <<>>]
    BY <1>4, <2>3
  <2>4. CASE load.stage = "subs" /\ load' = [load EXCEPT !.stage = "retire"]
    BY <1>4, <2>4
  <2> QED
    BY <2>1, <2>2, <2>3, <2>4 DEF LoadMediapipeSubConfigModels
<1>6. Known \subseteq Known'
  BY <1>2, <1>5, KnownKept DEF TypeInv
<1>7. load'.stage # "graphs" /\ load'.stage # "read"
      /\ ~(load'.stage = "models" /\ load'.after = "subs")
  BY <1>5
<1>8. GatedInv'
  BY <1>5, <1>7, GatedKept DEF ReadInv
<1> QED
  BY <1>5, <1>6, <1>7, <1>8, ReadPrimed DEF ReadInv

LEMMA SectionsRead ==
    ASSUME TypeInv, ReadInv,
           \/ RetireModelsRemovedFromConfigFile \/ LoadCustomNodeLibrariesConfig
           \/ ProcessPipelineConfig \/ FinishLoad
    PROVE  ReadInv'
<1>1. load \in Loads
  BY DEF TypeInv, LoadInv
<1>2. /\ load'.doc = load.doc /\ load'.gated = load.gated
      /\ load'.stage \in {"libraries", "pipelines", "gated", "ended"}
  <2>1. CASE RetireModelsRemovedFromConfigFile
    BY <1>1, <2>1 DEF RetireModelsRemovedFromConfigFile, Loads
  <2>2. CASE LoadCustomNodeLibrariesConfig
    BY <1>1, <2>2 DEF LoadCustomNodeLibrariesConfig, Loads
  <2>3. CASE ProcessPipelineConfig
    <3>1. /\ load.stage = "pipelines"
          /\ \E t, i, e : load' = [load EXCEPT !.todo = t, !.inFile = i,
                                               !.error = e]
      BY <2>3 DEF ProcessPipelineConfig
    <3> QED
      BY <1>1, <3>1 DEF Loads
  <2>4. CASE FinishLoad
    <3>1. \/ load' = [load EXCEPT !.stage = "gated"]
          \/ load' = [load EXCEPT !.stage = "ended", !.error = load.error]
      BY <2>4 DEF FinishLoad, EndLoad
    <3> QED
      BY <1>1, <3>1 DEF Loads
  <2> QED
    BY <2>1, <2>2, <2>3, <2>4
<1>3. GatedInv'
  BY <1>2, GatedKept DEF ReadInv
<1>4. ModelsReadInv' /\ GraphsReadInv'
  BY <1>2, OtherSections
<1> QED
  BY <1>3, <1>4 DEF ReadInv

\* In the section of the graphs, those that were read are in the file.
LEMMA GraphsRead ==
    ASSUME TypeInv, ReadInv,
           \/ RetirePipelinesOtherThan \/ RetireGraphsOtherThan
           \/ ProcessMediapipeConfig
    PROVE  ReadInv'
<1> DEFINE list == load.graphs
           todo == load.todo
           g == Head(todo)
<1>1. load \in Loads /\ list \in Seq(GraphEntries)
  BY DEF TypeInv, LoadInv, Loads
<1> SUFFICES /\ load'.stage = "graphs"
             /\ load'.doc = load.doc /\ load'.gated = load.gated
             /\ load'.graphs = list /\ IsRest(load'.todo, list)
             /\ \A i \in Read(load'.todo, list) : list[i].name \in load'.inFile
  <2>1. GatedInv'
    BY GatedKept DEF ReadInv
  <2>2. ModelsReadInv' /\ GraphsReadInv'
    BY ReadPrimed
  <2> QED
    BY <2>1, <2>2 DEF ReadInv
<1>2. CASE RetirePipelinesOtherThan
  <2>1. /\ load'.stage = "graphs" /\ load'.doc = load.doc
        /\ load'.gated = load.gated /\ load'.graphs = list
        /\ load'.todo = list
    BY <1>1, <1>2 DEF RetirePipelinesOtherThan, Loads
  <2>2. IsRest(list, list) /\ Read(list, list) = {}
    BY <1>1, NothingRead
  <2> QED
    BY <2>1, <2>2
<1>3. CASE RetireGraphsOtherThan
  <2>1. /\ load.stage = "graphs" /\ load'.stage = "graphs"
        /\ load'.doc = load.doc /\ load'.gated = load.gated
        /\ load'.graphs = list /\ load'.todo = todo
        /\ load'.inFile = load.inFile
    BY <1>1, <1>3 DEF RetireGraphsOtherThan, Loads
  <2> QED
    BY <2>1 DEF ReadInv, GraphsReadInv
<1>4. CASE ProcessMediapipeConfig
  <2>1. /\ load.stage = "graphs" /\ todo # <<>> /\ g.name \in Names
        /\ GraphStep(g)
    BY <1>4, ProcessMediapipeDoes DEF TypeInv
  <2>2. /\ IsRest(todo, list)
        /\ \A i \in Read(todo, list) : list[i].name \in load.inFile
    BY <2>1 DEF ReadInv, GraphsReadInv
  <2>3. CASE NextEntry(g)
    <3>1. /\ load'.stage = "graphs" /\ load'.doc = load.doc
          /\ load'.gated = load.gated /\ load'.graphs = list
          /\ load'.todo = Tail(todo)
          /\ load'.inFile = load.inFile \cup {g.name}
      BY <1>1, <2>1, <2>3 DEF NextEntry, Loads
    <3>2. todo \in Seq(AllEntries)
      BY <1>1 DEF Loads
    <3> HIDE DEF list, todo
    <3>3. PICK k \in DOMAIN list :
             /\ g = list[k]
             /\ Read(Tail(todo), list) = Read(todo, list) \cup {k}
      BY <1>1, <2>1, <2>2, <3>2, OneLess, Zenon
    <3>4. IsRest(Tail(todo), list)
      BY <1>1, <2>1, <2>2, <3>2, OneLess
    <3> HIDE DEF g
    <3>5. \A i \in Read(load'.todo, list) : list[i].name \in load'.inFile
      BY <2>2, <3>1, <3>3
    <3> QED
      BY <3>1, <3>4, <3>5
  <2>4. CASE \E d : ClearLoraAliases(g, d)
    <3>1. /\ load'.stage = "graphs" /\ load'.doc = load.doc
          /\ load'.gated = load.gated /\ load'.graphs = list
          /\ load'.todo = todo /\ load'.inFile = load.inFile
      BY <1>1, <2>1, <2>4 DEF ClearLoraAliases, Loads
    <3> QED
      BY <2>2, <3>1
  <2> HIDE DEF g
  <2> QED
    BY <2>1, <2>3, <2>4 DEF GraphStep
<1> QED
  BY <1>2, <1>3, <1>4

LEMMA GatedRead ==
    ASSUME TypeInv, ReadInv, TryReloadGatedModelConfigs
    PROVE  ReadInv'
<1>1. /\ load \in Loads /\ load.stage = "gated" /\ load.gated # <<>>
      /\ load.gated \in Seq(Gated)
  BY DEF TypeInv, LoadInv, Loads, TryReloadGatedModelConfigs
<1>2. /\ load'.stage = "gated" /\ load'.doc = load.doc
      /\ load'.gated = Tail(load.gated)
  <2>1. \E e : load' = [load EXCEPT !.gated = Tail(load.gated), !.error = e]
    BY DEF TryReloadGatedModelConfigs
  <2> QED
    BY <1>1, <2>1 DEF Loads
<1>3. \A i \in DOMAIN load'.gated :
         i + 1 \in DOMAIN load.gated /\ load'.gated[i] = load.gated[i + 1]
  BY <1>1, <1>2
<1>4. GatedInv'
  BY <1>2, <1>3, ReadPrimed DEF ReadInv, GatedInv
<1>5. ModelsReadInv' /\ GraphsReadInv'
  BY <1>2, OtherSections
<1> QED
  BY <1>4, <1>5 DEF ReadInv

LEMMA ReadKept ==
    ASSUME ReadInv, load' = load, Known \subseteq Known'
    PROVE  ReadInv'
<1>1. ModelsReadInv'
  BY ReadPrimed DEF ReadInv, ModelsReadInv
<1>2. GatedInv'
  BY GatedKept DEF ReadInv
<1>3. GraphsReadInv'
  BY ReadPrimed DEF ReadInv, GraphsReadInv
<1> QED
  BY <1>1, <1>2, <1>3 DEF ReadInv

LEMMA ThreadsRead ==
    ASSUME TypeInv, ReadInv, ThreadStep
    PROVE  ReadInv'
<1>1. CASE load' = load
  <2>1. \A n \in Names : PipelineExists(n)' <=> PipelineExists(n)
    BY ThreadStepDoes, UpdateDoes
       DEF TypeInv, PipelineExists, IsRegistered, registries
  <2>2. UNCHANGED <<graphs, aliases, unchecked>>
    BY ThreadStepDoes, UpdateDoes DEF TypeInv, registries
  <2>3. \A n \in Names : Occupied(n) => Occupied(n)'
    BY <2>1, <2>2 DEF Occupied, GraphExists, IsRegistered
  <2>4. Known \subseteq Known'
    BY <1>1, <2>3 DEF Known
  <2> QED
    BY <1>1, <2>4, ReadKept
<1>2. CASE load' \in {NoLoad, NewLoad}
  <2>1. load'.stage \in {"none", "read"} /\ load'.gated = <<>>
    BY <1>2, NewLoads
  <2>2. GatedInv'
    BY <2>1, ReadPrimed
  <2>3. ModelsReadInv' /\ GraphsReadInv'
    BY <2>1, OtherSections
  <2> QED
    BY <2>2, <2>3 DEF ReadInv
<1> QED
  BY <1>1, <1>2, ThreadStepDoes DEF TypeInv

LEMMA NextReads ==
    ASSUME TypeInv, ReadInv, [ConfigNext]_configVars
    PROVE  ReadInv'
<1>1. CASE LoadStep
  BY <1>1, OpeningReads, LoadModelReads, SubConfigsRead, SectionsRead,
     GraphsRead, GatedRead DEF LoadStep, TypeInv
<1>2. CASE ThreadStep
  BY <1>2, ThreadsRead
<1>3. CASE UNCHANGED configVars
  <2>1. load' = load /\ Known \subseteq Known'
    BY <1>3 DEF configVars, registries, Known, Occupied, PipelineExists,
                GraphExists, IsRegistered
  <2> QED
    BY <2>1, ReadKept
<1> QED
  BY <1>1, <1>2, <1>3 DEF ConfigNext, ThreadStep

LEMMA InitReads ==
    ConfigInit => ReadInv
BY NewLoads DEF ConfigInit, ReadInv, ModelsReadInv, GatedInv, GraphsReadInv

-----------------------------------------------------------------------------
(* What did not change is left alone *)

\* A model that serves with its configuration and has its loader.
LEMMA SameModel ==
    ASSUME NEW n \in Names, NEW c, Serves(models, n), models[n].config = c,
           ~(c.loader # NoName /\ c.loader \notin loaders)
    PROVE  Reloaded(n, c).model = models[n]
BY DEF Reloaded

LEMMA WantedEntries ==
    ASSUME load \in Loads, NEW w \in Wanted(load.doc)
    PROVE  /\ w.name \in Names
           /\ \E i \in DOMAIN load.doc.models :
                 /\ WantedAt(load.doc.models, i)
                 /\ w.name = load.doc.models[i].name
                 /\ w.config = Config(load.doc.models[i])
<1> DEFINE list == load.doc.models
<1>1. PICK i \in DOMAIN list :
         /\ w = [name |-> list[i].name, config |-> Config(list[i])]
         /\ list[i].kind = "model"
         /\ \A j \in 1 .. i - 1 :
               /\ list[j].kind # "unsupported"
               /\ list[j].kind = "model" => list[j].name # list[i].name
  BY DEF Wanted
<1>2. WantedAt(list, i)
  BY <1>1 DEF WantedAt
<1> HIDE DEF list
<1>3. w.name = list[i].name /\ w.config = Config(list[i])
  BY <1>1
<1> QED
  BY <1>2, <1>3, EntriesOfModels DEF list

LEMMA ModelsAreLeftAlone ==
    ASSUME TypeInv, ReadInv, LoadStep,
           NEW w \in Wanted(load.doc), Runs(w), ~Occupied(w.name),
           ~LoaderMissing(w)
    PROVE  models'[w.name] = models[w.name]
<1> DEFINE list == load.doc.models
<1>1. load \in Loads /\ RegistriesInv
  BY DEF TypeInv, LoadInv
<1>2. w.name \in Names
  BY <1>1, WantedEntries
<1>3. PICK i \in DOMAIN list : /\ WantedAt(list, i)
                               /\ w.name = list[i].name
                               /\ w.config = Config(list[i])
  BY <1>1, WantedEntries
<1>4. Reloaded(w.name, w.config).model = models[w.name]
  BY <1>2, SameModel DEF Runs, LoaderMissing
<1>5. CASE UNCHANGED models
  BY <1>5
<1>6. CASE LoadModel
  <2> DEFINE item == Head(load.todo)
             n == item.name
  <2>1. CASE /\ item.kind = "model" /\ n \notin Known
             /\ models' = [models EXCEPT ![n] =
                             Reloaded(n, Config(item)).model]
    <3>1. CASE n = w.name
      <4>1. Config(item) = w.config
        BY <1>3, <1>6, <2>1, <3>1, EntryIsWanted
      <4> HIDE DEF item
      <4> QED
        BY <1>1, <1>2, <1>4, <2>1, <3>1, <4>1 DEF RegistriesInv
    <3>2. CASE n # w.name
      <4> HIDE DEF n
      <4> QED
        BY <1>1, <1>2, <2>1, <3>2 DEF RegistriesInv
    <3> QED
      BY <3>1, <3>2
  <2> QED
    BY <1>5, <1>6, <2>1, EntryDoes
<1>7. CASE RetireModelsRemovedFromConfigFile
  <2>1. w.name \in Known
    BY <1>3, <1>7 DEF ReadInv, ModelsReadInv, RetireModelsRemovedFromConfigFile
  <2>2. w.name \in load.inFile
    BY <2>1 DEF Known
  <2> QED
    BY <1>2, <1>7, <2>2 DEF RetireModelsRemovedFromConfigFile
<1>8. CASE TryReloadGatedModelConfigs
  <2> DEFINE n == Head(load.gated).name
             c == Head(load.gated).config
  <2>1. /\ load.gated # <<>> /\ load.gated \in Seq(Gated)
        /\ models' = [models EXCEPT ![n] = Reloaded(n, c).model]
    BY <1>1, <1>8 DEF TryReloadGatedModelConfigs, Loads
  <2>2. 1 \in DOMAIN load.gated /\ Head(load.gated) = load.gated[1]
    BY <2>1
  <2>3. n = w.name => c = w.config
    BY <1>3, <2>2 DEF ReadInv, GatedInv
  <2> HIDE DEF n, c
  <2> QED
    BY <1>1, <1>2, <1>4, <2>1, <2>3 DEF RegistriesInv
<1>9. CASE \/ ParseConfig \/ LoadCustomLoadersConfig \/ ParseMediapipeConfig
           \/ LoadMediapipeSubConfigModels \/ LoadCustomNodeLibrariesConfig
           \/ FinishLoad
  BY <1>1, <1>5, <1>9, QuietDoes
<1>10. CASE \/ ProcessPipelineConfig \/ RetirePipelinesOtherThan
            \/ RetireGraphsOtherThan \/ ProcessMediapipeConfig
  BY <1>5, <1>10 DEF ProcessPipelineConfig, RetirePipelinesOtherThan,
                     RetireGraphsOtherThan, ProcessMediapipeConfig
<1> QED
  BY <1>6, <1>7, <1>8, <1>9, <1>10 DEF LoadStep

\* A graph is reloaded for an entry of its own name, if that one is the first
\* of the name and is not as the graph is, or of the name of one of its aliases.
LEMMA ReloadIsRequired ==
    ASSUME TypeInv, ReadInv, load.stage = "graphs", load.todo # <<>>,
           NEW g \in FirstOf(load.graphs), g.name \in Names,
           Serves(graphs, g.name), graphs[g.name].ver = g.ver,
           \A h \in Entries(load.graphs) :
              h.name # g.name => aliases[h.name] # g.name,
           Head(load.todo).name \in Names,
           Head(load.todo).name \notin load.inFile,
           FindGraph(Head(load.todo).name) # NoName,
           IsReloadRequired(FindGraph(Head(load.todo).name), Head(load.todo))
    PROVE  FindGraph(Head(load.todo).name) # g.name
<1> DEFINE list == load.graphs
           todo == load.todo
           h == Head(todo)
           d == FindGraph(h.name)
<1>1. /\ RegistriesInv /\ list \in Seq(GraphEntries)
      /\ todo \in Seq(AllEntries)
      /\ IsRest(todo, list)
      /\ \A i \in Read(todo, list) : list[i].name \in load.inFile
  BY DEF TypeInv, LoadInv, Loads, ReadInv, GraphsReadInv
<1>2. PICK k \in DOMAIN list : /\ h = list[k]
                               /\ 1 .. k - 1 = Read(todo, list)
  <2> HIDE DEF list, todo
  <2> QED
    BY <1>1, OneLess, Zenon DEF todo
<1>3. h \in Entries(list)
  BY <1>2 DEF Entries
<1> SUFFICES ASSUME d = g.name PROVE FALSE
  OBVIOUS
<1>4. d = h.name
  <2>1. d # h.name => aliases[h.name] = d
    BY FoundGraph, <1>1
  <2> QED
    BY <1>3, <2>1
<1>5. PICK i \in DOMAIN list :
         /\ g = list[i]
         /\ \A j \in 1 .. i - 1 : list[j].name # list[i].name
  BY DEF FirstOf
<1>6. i = k
  <2>1. i \in Nat /\ k \in Nat /\ i >= 1 /\ k >= 1
    BY <1>1
  <2>2. list[i].name = list[k].name
    BY <1>2, <1>4, <1>5
  <2>3. ~(k < i)
    <3>1. k < i => k \in 1 .. i - 1
      BY <2>1
    <3> HIDE DEF list
    <3> QED
      BY <1>5, <2>2, <3>1
  <2>4. ~(i < k)
    <3>1. i < k => i \in 1 .. k - 1
      BY <2>1
    <3>2. i < k => list[i].name \in load.inFile
      BY <1>1, <1>2, <3>1
    <3> QED
      BY <1>2, <2>2, <3>2
  <2> QED
    BY <2>1, <2>3, <2>4
<1>7. g = h
  BY <1>2, <1>5, <1>6
<1>8. graphs[d].state = "retired" \/ h.name # d \/ graphs[d].ver # h.ver
  BY DEF IsReloadRequired
<1> QED
  BY <1>4, <1>7, <1>8 DEF Serves

LEMMA GraphsAreLeftAlone ==
    ASSUME TypeInv, ReadInv, LoadStep,
           NEW g \in FirstOf(load.graphs),
           Serves(graphs, g.name), graphs[g.name].ver = g.ver,
           \A h \in Entries(load.graphs) :
              h.name # g.name => aliases[h.name] # g.name
    PROVE  graphs'[g.name] = graphs[g.name]
<1>1. load \in Loads /\ RegistriesInv /\ LoadInv /\ ReloadingInv
  BY DEF TypeInv, LoadInv
<1>2. g.name \in Names
  <2>1. load.graphs \in Seq(GraphEntries)
    BY <1>1 DEF Loads
  <2>2. g \in AllEntries
    BY <2>1 DEF FirstOf, AllEntries
  <2> QED
    BY <2>2, EntriesTyped
<1>3. CASE UNCHANGED graphs
  BY <1>3
<1>4. CASE RetireGraphsOtherThan
  <2>1. g.name \in {load.graphs[i].name : i \in DOMAIN load.graphs}
    BY DEF FirstOf
  <2> QED
    BY <1>2, <1>4, <2>1 DEF RetireGraphsOtherThan
<1>5. CASE ProcessMediapipeConfig
  <2> DEFINE h == Head(load.todo)
             d == FindGraph(h.name)
  <2>1. /\ load.stage = "graphs" /\ load.todo # <<>>
        /\ h \in GraphEntries /\ h.name \in Names
    BY <1>1, <1>5, ProcessMediapipeDoes
  <2>2. CASE load.after = "graphs" /\ CreateGraph(h)
    <3>1. GraphSkipped(h) \/ (GraphPut(h, h.name) /\ ~GraphExists(h.name))
      BY <1>1, <2>1, <2>2, CreateGraphDoes
    <3>2. CASE GraphPut(h, h.name) /\ ~GraphExists(h.name)
      <4>1. h.name # g.name
        BY <3>2 DEF GraphExists, IsRegistered, Serves
      <4> HIDE DEF h
      <4> QED
        BY <1>1, <1>2, <2>1, <3>2, <4>1, GraphPutTyped
    <3> QED
      BY <1>3, <3>1, <3>2 DEF GraphSkipped
  <2>3. CASE h.name \notin load.inFile /\ d # NoName /\ IsReloadRequired(d, h)
             /\ ClearLoraAliases(h, d)
    <3>1. d # g.name
      BY <1>2, <2>1, <2>3, ReloadIsRequired
    <3>2. graphs' = [graphs EXCEPT ![d].state = "reloading"]
      BY <2>3 DEF ClearLoraAliases
    <3> HIDE DEF d
    <3> QED
      BY <1>1, <1>2, <3>1, <3>2 DEF RegistriesInv
  <2>4. CASE load.after = "reload"
             /\ ReloadGraph(h, CHOOSE n \in Names : graphs[n].state = "reloading")
    <3> DEFINE r == CHOOSE n \in Names : graphs[n].state = "reloading"
    <3>1. \E n \in Names : graphs[n].state = "reloading"
      BY <1>1, <2>1, <2>4 DEF ReloadingInv
    <3>2. r \in Names /\ graphs[r].state = "reloading" /\ ReloadGraph(h, r)
      BY <2>4, <3>1
    <3> HIDE DEF r, h
    <3>3. GraphPut(h, r) /\ r # g.name
      BY <1>1, <2>1, <3>2, ReloadGraphDoes DEF IsRegistered, Serves
    <3> QED
      BY <1>1, <1>2, <2>1, <3>2, <3>3, GraphPutTyped
  <2>5. \/ UNCHANGED graphs
        \/ load.after = "graphs" /\ CreateGraph(h)
        \/ h.name \notin load.inFile /\ d # NoName
           /\ IsReloadRequired(d, h) /\ ClearLoraAliases(h, d)
        \/ load.after = "reload"
           /\ ReloadGraph(h, CHOOSE n \in Names : graphs[n].state = "reloading")
    BY <1>5 DEF ProcessMediapipeConfig
  <2> QED
    BY <1>3, <2>2, <2>3, <2>4, <2>5
<1>6. CASE \/ ParseConfig \/ LoadCustomLoadersConfig \/ ParseMediapipeConfig
           \/ LoadMediapipeSubConfigModels \/ LoadCustomNodeLibrariesConfig
           \/ FinishLoad
  BY <1>1, <1>3, <1>6, QuietDoes
<1>7. CASE \/ LoadModel \/ RetireModelsRemovedFromConfigFile
           \/ ProcessPipelineConfig \/ RetirePipelinesOtherThan
           \/ TryReloadGatedModelConfigs
  BY <1>3, <1>7 DEF LoadModel, RetireModelsRemovedFromConfigFile,
     ProcessPipelineConfig, RetirePipelinesOtherThan, TryReloadGatedModelConfigs
<1> QED
  BY <1>4, <1>5, <1>6, <1>7 DEF LoadStep

-----------------------------------------------------------------------------
(* What a load has made of what it has read *)

\* The entries that were handled, in each section.
ModelsDone(l) ==
    IF l.stage \in {"none", "read", "loaders", "parse"} THEN {}
    ELSE IF l.stage = "models" /\ l.after = "subs"
    THEN Read(l.todo, l.doc.models) ELSE DOMAIN l.doc.models
PipelinesDone(l) ==
    IF l.stage = "pipelines" THEN Read(l.todo, l.doc.pipelines)
    ELSE IF l.stage \in {"graphs", "gated", "ended"}
    THEN DOMAIN l.doc.pipelines ELSE {}
GraphsDone(l) ==
    IF l.stage = "graphs" THEN Read(l.todo, l.graphs)
    ELSE IF l.stage \in {"gated", "ended"} THEN DOMAIN l.graphs ELSE {}

FirstAt(list, i) == \A j \in 1 .. i - 1 : list[j].name # list[i].name

\* Model n with configuration c.
InForce(n, c) ==
    \/ Serves(models, n) /\ models[n].config = c
    \/ c.loader # NoName /\ c.loader \notin loaders
Contained(n, c) == InForce(n, c) \/ n \in broken \/ c.auto

\* The names are still known that have been tried.
Listing == load.stage \in {"models", "subs", "retire"}

ModelApplied(i) ==
    LET n == load.doc.models[i].name
        c == Config(load.doc.models[i])
    IN  /\ \/ Contained(n, c)
           \/ Listing /\ Occupied(n) /\ n \notin load.inFile
           \/ ~Listing /\ Refused(n)
        /\ load.error = "OK" =>
              InForce(n, c) /\ (Listing => n \in load.inFile)

\* A pipeline's library and models.
Fits(p) ==
    /\ p.library = NoName \/ p.library \in libraries
    /\ \A m \in p.uses : Serves(models, m) /\ ~models[m].config.auto

PipelineApplied(i) ==
    LET p == load.doc.pipelines[i]
    IN  /\ PipelineExists(p.name) /\ Fits(p) /\ ~IsAlias(p.name)
              => Serves(pipelines, p.name)
        /\ load.error = "OK" => /\ Serves(pipelines, p.name)
                                /\ pipelines[p.name].uses = p.uses

GraphApplied(i) ==
    LET g == load.graphs[i]
    IN  load.error = "OK" =>
            IsRegistered(graphs, g.name) /\ graphs[g.name].ver = g.ver

NamesRead(read, list) == {list[i].name : i \in read}

EarlyInv ==
    /\ load.stage = "read" => load.doc = EmptyFile /\ load.graphs = <<>>
    /\ load.stage \in {"read", "loaders", "parse"} => load.inFile = {}
ListedInv ==
    load.stage = "models" /\ load.after = "subs" =>
        \A n \in load.inFile : \E i \in ModelsDone(load) :
            load.doc.models[i].kind = "model" /\ load.doc.models[i].name = n
GatedAutoInv == \A i \in DOMAIN load.gated : load.gated[i].config.auto
ModelsAppliedInv ==
    \A i \in ModelsDone(load) :
        WantedAt(load.doc.models, i) => ModelApplied(i)
PipelinesAppliedInv ==
    /\ load.stage = "pipelines" =>
          /\ IsRest(load.todo, load.doc.pipelines)
          /\ load.inFile = NamesRead(PipelinesDone(load), load.doc.pipelines)
    /\ \A i \in PipelinesDone(load) :
          FirstAt(load.doc.pipelines, i) => PipelineApplied(i)
GraphsAppliedInv ==
    /\ load.stage = "graphs" =>
          /\ load.inFile = NamesRead(GraphsDone(load), load.graphs)
          /\ load.after = "reload" => Head(load.todo).name \notin load.inFile
    /\ \A i \in GraphsDone(load) :
          FirstAt(load.graphs, i) /\ StandsAlone(load.graphs[i], load.graphs)
              => GraphApplied(i)

AppliedInv == EarlyInv /\ ListedInv /\ GatedAutoInv /\ ModelsAppliedInv
              /\ PipelinesAppliedInv /\ GraphsAppliedInv

\* The invariants of the next state, about the next load.
LEMMA AppliedPrimed ==
    /\ EarlyInv' <=>
          /\ load'.stage = "read" =>
                load'.doc = EmptyFile /\ load'.graphs = <<>>
          /\ load'.stage \in {"read", "loaders", "parse"} => load'.inFile = {}
    /\ ListedInv' <=>
          (load'.stage = "models" /\ load'.after = "subs" =>
              \A n \in load'.inFile : \E i \in ModelsDone(load') :
                  /\ load'.doc.models[i].kind = "model"
                  /\ load'.doc.models[i].name = n)
    /\ GatedAutoInv' <=>
          \A i \in DOMAIN load'.gated : load'.gated[i].config.auto
    /\ ModelsAppliedInv' <=>
          \A i \in ModelsDone(load') :
              WantedAt(load'.doc.models, i) => ModelApplied(i)'
    /\ PipelinesAppliedInv' <=>
          /\ load'.stage = "pipelines" =>
                /\ IsRest(load'.todo, load'.doc.pipelines)
                /\ load'.inFile = NamesRead(PipelinesDone(load'),
                                            load'.doc.pipelines)
          /\ \A i \in PipelinesDone(load') :
                FirstAt(load'.doc.pipelines, i) => PipelineApplied(i)'
    /\ GraphsAppliedInv' <=>
          /\ load'.stage = "graphs" =>
                /\ load'.inFile = NamesRead(GraphsDone(load'), load'.graphs)
                /\ load'.after = "reload" =>
                      Head(load'.todo).name \notin load'.inFile
          /\ \A i \in GraphsDone(load') :
                FirstAt(load'.graphs, i)
                /\ StandsAlone(load'.graphs[i], load'.graphs)
                    => GraphApplied(i)'
<1>1. EarlyInv' <=>
         /\ load'.stage = "read" => load'.doc = EmptyFile /\ load'.graphs = <<>>
         /\ load'.stage \in {"read", "loaders", "parse"} => load'.inFile = {}
  BY DEF EarlyInv, EmptyFile
<1>6. ListedInv' <=>
         (load'.stage = "models" /\ load'.after = "subs" =>
             \A n \in load'.inFile : \E i \in ModelsDone(load') :
                 /\ load'.doc.models[i].kind = "model"
                 /\ load'.doc.models[i].name = n)
  BY DEF ListedInv, ModelsDone, Read
<1>2. GatedAutoInv' <=>
         \A i \in DOMAIN load'.gated : load'.gated[i].config.auto
  BY DEF GatedAutoInv
<1>3. ModelsAppliedInv' <=>
         \A i \in ModelsDone(load') :
             WantedAt(load'.doc.models, i) => ModelApplied(i)'
  BY DEF ModelsAppliedInv, ModelsDone, Read, WantedAt
<1>4. PipelinesAppliedInv' <=>
         /\ load'.stage = "pipelines" =>
               /\ IsRest(load'.todo, load'.doc.pipelines)
               /\ load'.inFile = NamesRead(PipelinesDone(load'),
                                           load'.doc.pipelines)
         /\ \A i \in PipelinesDone(load') :
               FirstAt(load'.doc.pipelines, i) => PipelineApplied(i)'
  BY DEF PipelinesAppliedInv, PipelinesDone, Read, IsRest, NamesRead, FirstAt
<1>5. GraphsAppliedInv' <=>
         /\ load'.stage = "graphs" =>
               /\ load'.inFile = NamesRead(GraphsDone(load'), load'.graphs)
               /\ load'.after = "reload" =>
                     Head(load'.todo).name \notin load'.inFile
         /\ \A i \in GraphsDone(load') :
               FirstAt(load'.graphs, i)
               /\ StandsAlone(load'.graphs[i], load'.graphs)
                   => GraphApplied(i)'
  BY DEF GraphsAppliedInv, GraphsDone, Read, NamesRead, FirstAt, StandsAlone,
         IsAlias, GraphEntries, MainEntries, Entries
<1> QED
  BY <1>1, <1>2, <1>3, <1>4, <1>5, <1>6

\* What holds of an entry in the next state, in full.
LEMMA ModelAppliedPrimed ==
    ASSUME NEW i
    PROVE  ModelApplied(i)' <=>
             LET n == load'.doc.models[i].name
                 c == Config(load'.doc.models[i])
                 inForce == \/ Serves(models', n) /\ models'[n].config = c
                            \/ c.loader # NoName /\ c.loader \notin loaders'
                 occupied == \/ IsRegistered(pipelines', n)
                             \/ IsRegistered(graphs', n) \/ aliases'[n] # NoName
                 listing == load'.stage \in {"models", "subs", "retire"}
             IN  /\ \/ inForce \/ n \in broken' \/ c.auto
                    \/ listing /\ occupied /\ n \notin load'.inFile
                    \/ /\ ~listing /\ ~Serves(models', n)
                       /\ occupied \/ IsAlias(n)
                 /\ load'.error = "OK" =>
                       inForce /\ (listing => n \in load'.inFile)
BY DEF ModelApplied, InForce, Contained, Occupied, Refused, IsAlias, Listing,
       PipelineExists, GraphExists, ModelExists, IsRegistered, Serves, Config,
       GraphEntries, MainEntries, Entries

LEMMA PipelineAppliedPrimed ==
    ASSUME NEW i
    PROVE  PipelineApplied(i)' <=>
             LET p == load'.doc.pipelines[i]
                 fits == /\ p.library = NoName \/ p.library \in libraries'
                         /\ \A m \in p.uses : /\ Serves(models', m)
                                              /\ ~models'[m].config.auto
             IN  /\ IsRegistered(pipelines', p.name) /\ fits /\ ~IsAlias(p.name)
                       => Serves(pipelines', p.name)
                 /\ load'.error = "OK" => /\ Serves(pipelines', p.name)
                                          /\ pipelines'[p.name].uses = p.uses
BY DEF PipelineApplied, Fits, PipelineExists, IsRegistered, Serves, IsAlias,
       GraphEntries, MainEntries, Entries

LEMMA GraphAppliedPrimed ==
    ASSUME NEW i
    PROVE  GraphApplied(i)' <=>
             LET g == load'.graphs[i]
             IN  load'.error = "OK" =>
                    /\ IsRegistered(graphs', g.name)
                    /\ graphs'[g.name].ver = g.ver
BY DEF GraphApplied, IsRegistered

\* An error is not forgotten before the load ends.
LEMMA ErrorStays ==
    ASSUME load \in Loads, LoadStep, load'.error = "OK"
    PROVE  load.error = "OK"
<1> USE DEF FirstError
<1>1. CASE ParseConfig
  BY <1>1 DEF ParseConfig, EndLoad, Loads
<1>2. CASE LoadCustomLoadersConfig \/ ParseMediapipeConfig
  BY <1>2 DEF LoadCustomLoadersConfig, ParseMediapipeConfig, Loads
<1>3. CASE LoadModel
  BY <1>3 DEF LoadModel, SkipInvalid, ReloadListed, ModelError, OkStatus, Loads
<1>4. CASE LoadMediapipeSubConfigModels
  <2>1. CASE load' = [load EXCEPT !.stage = "subs",
                !.subs = IF load.after = "subs" THEN load.graphs ELSE @]
    BY <2>1 DEF Loads
  <2>2. CASE load' = [load EXCEPT !.stage = "models", !.after = "more",
                !.todo = Head(load.subs).sub, !.subs = Tail(@)]
    BY <2>2 DEF Loads
  <2>3. CASE load' = [load EXCEPT !.subs = <<>>]
    BY <2>3 DEF Loads
  <2>4. CASE load' = [load EXCEPT !.stage = "retire"]
    BY <2>4 DEF Loads
  <2> QED
    BY <1>4, <2>1, <2>2, <2>3, <2>4 DEF LoadMediapipeSubConfigModels
<1>5. CASE \/ RetireModelsRemovedFromConfigFile \/ LoadCustomNodeLibrariesConfig
           \/ RetirePipelinesOtherThan \/ RetireGraphsOtherThan
  BY <1>5 DEF RetireModelsRemovedFromConfigFile, LoadCustomNodeLibrariesConfig,
              RetirePipelinesOtherThan, RetireGraphsOtherThan, Loads
<1>6. CASE ProcessPipelineConfig
  BY <1>6 DEF ProcessPipelineConfig, Loads
<1>7. CASE ProcessMediapipeConfig
  BY <1>7 DEF ProcessMediapipeConfig, CreateGraph, ClearLoraAliases,
              ReloadGraph, NextGraph, Loads
<1>8. CASE TryReloadGatedModelConfigs
  BY <1>8 DEF TryReloadGatedModelConfigs, OkStatus, Loads
<1>9. CASE FinishLoad
  BY <1>9 DEF FinishLoad, EndLoad, Loads
<1> QED
  BY <1>1, <1>2, <1>3, <1>4, <1>5, <1>6, <1>7, <1>8, <1>9 DEF LoadStep

\* The loaders and libraries are those of the file from their section on.
LEMMA LoadersStay ==
    ASSUME LoadStep
    PROVE  /\ broken' = broken
           /\ load.stage # "loaders" => loaders' = loaders
           /\ load.stage # "libraries" => libraries' = libraries
<1> USE DEF outside, registries
<1>1. CASE ParseConfig \/ LoadCustomLoadersConfig \/ ParseMediapipeConfig
  BY <1>1 DEF ParseConfig, LoadCustomLoadersConfig, ParseMediapipeConfig
<1>2. CASE LoadModel \/ LoadMediapipeSubConfigModels
  BY <1>2 DEF LoadModel, LoadMediapipeSubConfigModels
<1>3. CASE \/ RetireModelsRemovedFromConfigFile \/ LoadCustomNodeLibrariesConfig
           \/ ProcessPipelineConfig \/ RetirePipelinesOtherThan
  BY <1>3 DEF RetireModelsRemovedFromConfigFile, LoadCustomNodeLibrariesConfig,
              ProcessPipelineConfig, RetirePipelinesOtherThan
<1>4. CASE \/ RetireGraphsOtherThan \/ ProcessMediapipeConfig
           \/ TryReloadGatedModelConfigs \/ FinishLoad
  BY <1>4 DEF RetireGraphsOtherThan, ProcessMediapipeConfig,
              TryReloadGatedModelConfigs, FinishLoad
<1> QED
  BY <1>1, <1>2, <1>3, <1>4 DEF LoadStep

-----------------------------------------------------------------------------
(* The models *)

\* An entry that was handled stays so if its model does, and its name.
LEMMA ModelStays ==
    ASSUME load \in Loads, ModelsAppliedInv, LoadStep,
           NEW i \in ModelsDone(load), WantedAt(load.doc.models, i),
           NEW n, n = load.doc.models[i].name,
           load'.doc = load.doc, models'[n] = models[n],
           Occupied(n) =>
              \/ IsRegistered(pipelines', n)
              \/ IsRegistered(graphs', n) \/ aliases'[n] # NoName
              \/ ~Listing /\ IsAlias(n),
           IF load'.stage \in {"models", "subs", "retire"}
           THEN Listing /\ (n \in load'.inFile <=> n \in load.inFile)
           ELSE Listing => n \in load.inFile
    PROVE  ModelApplied(i)'
<1> DEFINE c == Config(load.doc.models[i])
<1>1. ModelApplied(i)
  BY DEF ModelsAppliedInv
<1>2. broken' = broken /\ loaders' = loaders
  BY LoadersStay DEF ModelsDone
<1>3. load'.error = "OK" => load.error = "OK"
  BY ErrorStays
<1>4. /\ \/ Contained(n, c)
         \/ Listing /\ Occupied(n) /\ n \notin load.inFile
         \/ ~Listing /\ ~Serves(models, n) /\ (Occupied(n) \/ IsAlias(n))
      /\ load.error = "OK" => InForce(n, c) /\ (Listing => n \in load.inFile)
  BY <1>1 DEF ModelApplied, Refused
<1> HIDE DEF c
<1>5. InForce(n, c) => \/ Serves(models', n) /\ models'[n].config = c
                       \/ c.loader # NoName /\ c.loader \notin loaders'
  BY <1>2 DEF InForce, Serves
<1>6. Serves(models', n) <=> Serves(models, n)
  BY DEF Serves
<1>7. n = load'.doc.models[i].name /\ c = Config(load'.doc.models[i])
  BY DEF c
<1> QED
  BY <1>2, <1>3, <1>4, <1>5, <1>6, <1>7, ModelAppliedPrimed
     DEF Contained, Listing

\* Reloading a model brings it to its configuration, or is refused or fails.
LEMMA ReloadedContains ==
    ASSUME RegistriesInv, NEW n \in Names, NEW c, NEW m,
           m = Reloaded(n, c).model
    PROVE  /\ \/ m.state = "available" /\ m.config = c
              \/ c.loader # NoName /\ c.loader \notin loaders
              \/ n \in broken \/ c.auto
           /\ OkStatus(Reloaded(n, c).status) =>
                 \/ m.state = "available" /\ m.config = c
                 \/ c.loader # NoName /\ c.loader \notin loaders
BY DEF Reloaded, OkStatus, Serves

\* The error of an entry of the main list is the error of the load.
LEMMA EntryFails ==
    ASSUME load \in Loads, LoadModel, load.after = "subs",
           load'.error = "OK"
    PROVE  /\ Head(load.todo).kind # "unsupported"
           /\ Head(load.todo).kind = "model" =>
                 /\ Head(load.todo).name \notin load.inFile
                 /\ ~PipelineExists(Head(load.todo).name)
                 /\ ~GraphExists(Head(load.todo).name)
                 /\ OkStatus(Reloaded(Head(load.todo).name,
                                      Config(Head(load.todo))).status)
<1> DEFINE item == Head(load.todo)
           n == item.name
           r == Reloaded(n, Config(item))
<1>1. ASSUME NEW s, s # "OK" PROVE FirstError(load.error, s) # "OK"
  BY <1>1 DEF FirstError
<1>2. CASE item.kind = "unsupported"
  <2>1. \E t : load' = [[load EXCEPT !.todo = t,
                           !.error = FirstError(load.error, "PLUGIN_CONFIG_INVALID")]
                          EXCEPT !.todo = <<>>]
    BY <1>2 DEF LoadModel, ModelError, StartsFromGraph
  <2> QED
    BY <1>1, <2>1 DEF Loads
<1>3. CASE item.kind = "model"
           /\ (PipelineExists(n) \/ GraphExists(n) \/ n \in load.inFile)
  <2>1. \E t : load' = [load EXCEPT !.todo = t,
                           !.error = FirstError(load.error, "MODEL_NAME_OCCUPIED")]
    BY <1>3 DEF LoadModel, ModelError, StartsFromGraph
  <2> QED
    BY <1>1, <2>1 DEF Loads
<1>4. CASE item.kind = "model" /\ ReloadListed(n, Config(item))
  <2>1. \E t, i, g, f :
           load' = [load EXCEPT !.todo = t, !.inFile = i,
                      !.error = IF OkStatus(r.status) THEN @
                                ELSE FirstError(load.error, r.status),
                      !.gated = g, !.fresh[n] = f]
    BY <1>4 DEF ReloadListed, ModelError
  <2>2. ~OkStatus(r.status) => r.status # "OK"
    BY DEF OkStatus
  <2> HIDE DEF r, n
  <2>3. load'.error = IF OkStatus(r.status) THEN load.error
                      ELSE FirstError(load.error, r.status)
    BY <2>1 DEF Loads
  <2>4. OkStatus(r.status)
    BY <1>1, <2>2, <2>3
  <2> QED
    BY <1>3, <1>4, <2>4 DEF n, r
<1>5. CASE item.kind \in {"graph", "invalid"}
  BY <1>5
<1>6. \/ item.kind \in {"graph", "invalid", "unsupported"}
      \/ item.kind = "model"
         /\ (PipelineExists(n) \/ GraphExists(n) \/ n \in load.inFile)
      \/ item.kind = "model" /\ ReloadListed(n, Config(item))
  BY DEF LoadModel, StartsFromGraph
<1> QED
  BY <1>2, <1>3, <1>4, <1>5, <1>6

\* The entries of the list are handled one by one.
LEMMA EntriesDone ==
    ASSUME TypeInv, ReadInv, LoadModel
    PROVE  /\ load.after # "subs" => ModelsDone(load') = ModelsDone(load)
           /\ load.after = "subs" =>
                 \E k \in DOMAIN load.doc.models :
                    /\ Head(load.todo) = load.doc.models[k]
                    /\ k \notin ModelsDone(load)
                    /\ 1 .. k - 1 = ModelsDone(load)
                    /\ ModelsDone(load) \subseteq ModelsDone(load')
                    /\ IF Head(load.todo).kind = "unsupported"
                       THEN \A i \in ModelsDone(load') :
                               WantedAt(load.doc.models, i)
                                  => i \in ModelsDone(load)
                       ELSE ModelsDone(load') = ModelsDone(load) \cup {k}
<1> DEFINE list == load.doc.models
           todo == load.todo
<1>1. /\ load \in Loads /\ load.stage = "models" /\ todo # <<>>
      /\ load'.stage = "models" /\ load'.after = load.after
      /\ load'.doc = load.doc /\ list \in Seq(MainEntries)
      /\ todo \in Seq(AllEntries)
  BY EntryDoes, EntriesOfModels DEF TypeInv, LoadInv, Loads
<1>2. CASE load.after # "subs"
  BY <1>1, <1>2 DEF ModelsDone
<1>3. CASE load.after = "subs"
  <2>1. IsRest(todo, list)
    BY <1>1, <1>3 DEF ReadInv, ModelsReadInv
  <2>2. /\ ModelsDone(load) = Read(todo, list)
        /\ ModelsDone(load') = Read(load'.todo, list)
    BY <1>1, <1>3 DEF ModelsDone
  <2>3. PICK k \in DOMAIN list :
           /\ k \notin Read(todo, list) /\ Head(todo) = list[k]
           /\ 1 .. k - 1 = Read(todo, list)
           /\ Read(Tail(todo), list) = Read(todo, list) \cup {k}
    <3> HIDE DEF list, todo
    <3> QED
      BY <1>1, <2>1, OneLess, Zenon
  <2>4. CASE Head(todo).kind # "unsupported"
    <3>1. load'.todo = Tail(todo)
      BY <2>4, EntryDoes
    <3> QED
      BY <1>3, <2>2, <2>3, <2>4, <3>1
  <2>5. CASE Head(todo).kind = "unsupported"
    <3>1. load'.todo = <<>>
      BY <2>5, EntryDoes
    <3>2. Read(load'.todo, list) = DOMAIN list
      BY <1>1, <3>1, AllRead
    <3>3. ASSUME NEW i \in DOMAIN list, WantedAt(list, i)
          PROVE  i \in Read(todo, list)
      <4>1. k \notin 1 .. i - 1 /\ i # k
        BY <2>3, <2>5, <3>3 DEF WantedAt
      <4>2. i \in Nat /\ k \in Nat /\ k >= 1 /\ i >= 1
        BY <1>1, <2>3
      <4>3. i \in 1 .. k - 1
        BY <4>1, <4>2
      <4> QED
        BY <2>3, <4>3
    <3>4. Read(todo, list) \subseteq DOMAIN list
      <4>1. \A j \in 1 .. k - 1 : j \in DOMAIN list
        BY <1>1, <2>3
      <4> QED
        BY <2>3, <4>1
    <3> QED
      BY <1>3, <2>2, <2>3, <2>5, <3>2, <3>3, <3>4
  <2> QED
    BY <2>4, <2>5
<1> QED
  BY <1>2, <1>3

\* A name stays taken while no pipeline, graph or alias goes.
LEMMA TakenStays ==
    ASSUME RegistriesInv, UNCHANGED <<graphs, aliases, unchecked>>,
           pipelines' = pipelines \/ \E changed : pipelines' = Notified(changed),
           NEW n \in Names, Occupied(n)
    PROVE  \/ IsRegistered(pipelines', n)
           \/ IsRegistered(graphs', n) \/ aliases'[n] # NoName
<1>1. \A m \in Names : pipelines'[m].state = "none" <=> pipelines[m].state = "none"
  BY NotifiedPipelines
<1> QED
  BY <1>1 DEF Occupied, PipelineExists, GraphExists, IsRegistered

\* loadModels leaves its entries in force, contained or with a taken name.
LEMMA LoadModelApplies ==
    ASSUME NamesInv, ReadInv, AppliedInv, LoadModel
    PROVE  ModelsAppliedInv' /\ ListedInv'
<1> DEFINE list == load.doc.models
           item == Head(load.todo)
           n0 == item.name
           tried == /\ item.kind = "model" /\ n0 \notin Known
                    /\ models' = [models EXCEPT ![n0] =
                                     Reloaded(n0, Config(item)).model]
                    /\ load'.inFile = load.inFile \cup {n0}
           skipped == /\ models' = models /\ load'.inFile = load.inFile
                      /\ pipelines' = pipelines
                      /\ item.kind = "model" => n0 \in Known
<1>1. TypeInv /\ load \in Loads /\ RegistriesInv /\ LoadInv
  BY DEF NamesInv, TypeInv, LoadInv
<1>2. /\ UNCHANGED <<graphs, aliases, unchecked>> /\ load.stage = "models"
      /\ n0 \in Names
      /\ load'.doc = load.doc /\ load'.stage = "models"
      /\ load'.after = load.after
      /\ pipelines' = pipelines \/ \E changed : pipelines' = Notified(changed)
      /\ tried \/ skipped
  BY <1>1, EntryDoes
<1>3. load.after \in {"subs", "more"}
  BY <1>1, <1>2 DEF LoadInv, TodoInv
<1>4. ASSUME NEW i \in ModelsDone(load), WantedAt(list, i)
      PROVE  ModelApplied(i)'
  <2> DEFINE n == list[i].name
  <2>1. n \in Known /\ n \in Names
    <3>1. i \in DOMAIN list
      BY <1>4 DEF WantedAt
    <3>2. load.after = "subs" => i \in Read(load.todo, list)
      BY <1>2, <1>4 DEF ModelsDone
    <3> QED
      BY <1>1, <1>2, <1>3, <1>4, <3>1, <3>2, EntriesOfModels
         DEF ReadInv, ModelsReadInv
  <2>2. models'[n] = models[n]
    <3>1. tried => n # n0
      BY <2>1
    <3> HIDE DEF n, n0
    <3> QED
      BY <1>1, <1>2, <2>1, <3>1 DEF RegistriesInv
  <2>3. Occupied(n) => \/ IsRegistered(pipelines', n)
                       \/ IsRegistered(graphs', n) \/ aliases'[n] # NoName
    BY <1>1, <1>2, <2>1, TakenStays
  <2>4. Listing /\ (n \in load'.inFile <=> n \in load.inFile)
    BY <1>2, <2>1 DEF Listing
  <2> QED
    BY <1>1, <1>2, <1>4, <2>2, <2>3, <2>4, ModelStays DEF AppliedInv, LoadStep
<1>5. CASE load.after # "subs"
  <2>1. ModelsDone(load') = ModelsDone(load)
    BY <1>1, <1>5, EntriesDone
  <2> QED
    BY <1>2, <1>4, <1>5, <2>1, AppliedPrimed
<1>6. CASE load.after = "subs"
  <2>1. PICK k \in DOMAIN list :
           /\ item = list[k]
           /\ 1 .. k - 1 = ModelsDone(load)
           /\ ModelsDone(load) \subseteq ModelsDone(load')
           /\ IF item.kind = "unsupported"
              THEN \A i \in ModelsDone(load') :
                      WantedAt(list, i) => i \in ModelsDone(load)
              ELSE ModelsDone(load') = ModelsDone(load) \cup {k}
    BY <1>1, <1>6, EntriesDone
  <2>2. ASSUME WantedAt(list, k), item.kind # "unsupported"
        PROVE  ModelApplied(k)'
    <3> DEFINE c == Config(item)
    <3>1. item.kind = "model"
      BY <2>1, <2>2 DEF WantedAt
    <3>2. CASE skipped
      <4>1. n0 \notin load.inFile
        <5> SUFFICES ASSUME n0 \in load.inFile PROVE FALSE
          OBVIOUS
        <5>1. PICK j \in ModelsDone(load) :
                 list[j].kind = "model" /\ list[j].name = n0
          BY <1>2, <1>6 DEF AppliedInv, ListedInv
        <5>2. j \in 1 .. k - 1
          BY <2>1, <5>1
        <5> QED
          BY <2>1, <2>2, <5>1, <5>2 DEF WantedAt
      <4>2. Occupied(n0)
        BY <3>1, <3>2, <4>1 DEF Known
      <4>3. \/ IsRegistered(pipelines', n0)
            \/ IsRegistered(graphs', n0) \/ aliases'[n0] # NoName
        BY <1>1, <1>2, <4>2, TakenStays
      <4>4. load'.error # "OK"
        BY <1>1, <1>6, <3>1, <4>2, EntryFails DEF Occupied
      <4>5. n0 \notin load'.inFile
        BY <3>2, <4>1
      <4> QED
        BY <1>2, <2>1, <4>3, <4>4, <4>5, ModelAppliedPrimed
    <3>3. CASE tried
      <4> DEFINE m == Reloaded(n0, c).model
      <4>1. models'[n0] = m
        <5> HIDE DEF m, n0
        <5> QED
          BY <1>1, <1>2, <3>3 DEF RegistriesInv, m, n0
      <4>2. /\ \/ m.state = "available" /\ m.config = c
               \/ c.loader # NoName /\ c.loader \notin loaders
               \/ n0 \in broken \/ c.auto
            /\ OkStatus(Reloaded(n0, c).status) =>
                  \/ m.state = "available" /\ m.config = c
                  \/ c.loader # NoName /\ c.loader \notin loaders
        BY <1>1, <1>2, ReloadedContains
      <4>3. load'.error = "OK" => OkStatus(Reloaded(n0, c).status)
        BY <1>1, <1>6, <3>1, EntryFails
      <4>4. broken' = broken /\ loaders' = loaders
        BY <1>2, LoadersStay DEF LoadStep
      <4>5. n0 \in load'.inFile
        BY <3>3
      <4> HIDE DEF m, c, n0
      <4>6. LET inForce == \/ Serves(models', n0) /\ models'[n0].config = c
                           \/ c.loader # NoName /\ c.loader \notin loaders'
            IN  /\ inForce \/ n0 \in broken' \/ c.auto
                /\ load'.error = "OK" => inForce /\ n0 \in load'.inFile
        BY <4>1, <4>2, <4>3, <4>4, <4>5 DEF Serves
      <4>7. n0 = load'.doc.models[k].name /\ c = Config(load'.doc.models[k])
        BY <1>2, <2>1 DEF n0, c
      <4> QED
        BY <4>6, <4>7, ModelAppliedPrimed
    <3> QED
      BY <1>2, <3>2, <3>3
  <2>3. ModelsAppliedInv'
    <3> SUFFICES ASSUME NEW i \in ModelsDone(load'), WantedAt(list, i)
                 PROVE  ModelApplied(i)'
      BY <1>2, AppliedPrimed
    <3> QED
      BY <1>4, <2>1, <2>2
  <2>4. ListedInv'
    <3> SUFFICES ASSUME NEW n \in load'.inFile
                 PROVE  \E i \in ModelsDone(load') :
                           list[i].kind = "model" /\ list[i].name = n
      BY <1>2, AppliedPrimed
    <3>1. CASE n \in load.inFile
      BY <1>2, <1>6, <2>1, <3>1 DEF AppliedInv, ListedInv
    <3>2. CASE n \notin load.inFile
      BY <1>2, <2>1, <3>2
    <3> QED
      BY <3>1, <3>2
  <2> QED
    BY <2>3, <2>4
<1> QED
  BY <1>5, <1>6

\* A step that leaves the registries alone, and handles no model, keeps what
\* was made of the models.
LEMMA QuietModels ==
    ASSUME load \in Loads, AppliedInv, LoadStep, load'.doc = load.doc,
           ModelsDone(load') = ModelsDone(load),
           UNCHANGED <<models, pipelines, graphs, aliases, unchecked>>,
           IF load'.stage \in {"models", "subs", "retire"}
           THEN Listing /\ load'.inFile = load.inFile ELSE ~Listing
    PROVE  ModelsAppliedInv'
<1> SUFFICES ASSUME NEW i \in ModelsDone(load), WantedAt(load.doc.models, i)
             PROVE  ModelApplied(i)'
  BY AppliedPrimed
<1> DEFINE n == load.doc.models[i].name
<1>1. Occupied(n) => \/ IsRegistered(pipelines', n)
                     \/ IsRegistered(graphs', n) \/ aliases'[n] # NoName
  BY DEF Occupied, PipelineExists, GraphExists, IsRegistered
<1> QED
  BY <1>1, ModelStays DEF AppliedInv

\* Reading the file, and going from section to section.
LEMMA QuietApplies ==
    ASSUME NamesInv, ReadInv, AppliedInv,
           \/ ParseConfig \/ LoadCustomLoadersConfig \/ ParseMediapipeConfig
           \/ LoadMediapipeSubConfigModels \/ LoadCustomNodeLibrariesConfig
           \/ FinishLoad
    PROVE  ModelsAppliedInv' /\ ListedInv'
<1> DEFINE list == load.doc.models
<1>1. /\ load \in Loads /\ LoadStep
      /\ UNCHANGED <<models, pipelines, graphs, aliases, unchecked>>
  BY QuietDoes DEF NamesInv, TypeInv, LoadInv, LoadStep
<1>2. list \in Seq(MainEntries)
  BY <1>1, EntriesOfModels
<1>3. CASE ParseConfig
  <2>1. /\ load'.stage \in {"read", "ended", "loaders"}
        /\ load'.stage = "ended" => load'.doc = EmptyFile
    BY <1>1, <1>3 DEF ParseConfig, EndLoad, Loads, AppliedInv, EarlyInv
  <2>2. ModelsDone(load') = {}
    BY <2>1 DEF ModelsDone, EmptyFile
  <2> QED
    BY <2>1, <2>2, AppliedPrimed
<1>4. CASE LoadCustomLoadersConfig
  <2>1. load'.stage = "parse"
    BY <1>1, <1>4 DEF LoadCustomLoadersConfig, Loads
  <2>2. ModelsDone(load') = {}
    BY <2>1 DEF ModelsDone
  <2> QED
    BY <2>1, <2>2, AppliedPrimed
<1>5. CASE ParseMediapipeConfig
  <2>1. /\ load'.stage = "models" /\ load'.after = "subs" /\ load'.todo = list
        /\ load'.doc = load.doc /\ load'.inFile = load.inFile
        /\ load.stage = "parse"
    BY <1>1, <1>5 DEF ParseMediapipeConfig, Loads
  <2>2. ModelsDone(load') = {} /\ load'.inFile = {}
    BY <1>2, <2>1, NothingRead DEF ModelsDone, AppliedInv, EarlyInv
  <2> QED
    BY <2>2, AppliedPrimed
<1>6. CASE LoadMediapipeSubConfigModels
  <2>1. /\ load'.doc = load.doc /\ load'.inFile = load.inFile
        /\ load.stage \in {"models", "subs"}
        /\ load.stage = "models" => load.todo = <<>>
        /\ load'.stage \in {"models", "subs", "retire"}
        /\ load'.stage = "models" => load'.after = "more"
    <3>1. CASE /\ load.stage = "models" /\ load.todo = <<>>
               /\ load' = [load EXCEPT !.stage = "subs",
                   !.subs = IF load.after = "subs" THEN load.graphs ELSE @]
      BY <1>1, <3>1 DEF Loads
    <3>2. CASE /\ load.stage = "subs"
               /\ load' = [load EXCEPT !.stage = "models", !.after = "more",
                             !.todo = Head(load.subs).sub, !.subs = Tail(@)]
      BY <1>1, <3>2 DEF Loads
    <3>3. CASE load.stage = "subs" /\ load' = [load EXCEPT !.subs = <<>>]
      BY <1>1, <3>3 DEF Loads
    <3>4. CASE load.stage = "subs" /\ load' = [load EXCEPT !.stage = "retire"]
      BY <1>1, <3>4 DEF Loads
    <3> QED
      BY <1>6, <3>1, <3>2, <3>3, <3>4 DEF LoadMediapipeSubConfigModels
  <2>2. ModelsDone(load) = DOMAIN list
    BY <1>2, <2>1, AllRead DEF ModelsDone
  <2>3. ModelsDone(load') = DOMAIN list
    BY <2>1 DEF ModelsDone
  <2>4. Listing
    BY <2>1 DEF Listing
  <2>5. ListedInv'
    BY <2>1, AppliedPrimed
  <2> QED
    BY <1>1, <1>2, <2>1, <2>2, <2>3, <2>4, <2>5, QuietModels
<1>7. CASE LoadCustomNodeLibrariesConfig \/ FinishLoad
  <2>1. /\ load'.doc = load.doc
        /\ load.stage \in {"libraries", "graphs", "gated"}
        /\ load'.stage \in {"pipelines", "gated", "ended"}
    BY <1>1, <1>7 DEF LoadCustomNodeLibrariesConfig, FinishLoad, EndLoad, Loads
  <2>2. ModelsDone(load) = DOMAIN list /\ ModelsDone(load') = DOMAIN list
    BY <2>1 DEF ModelsDone
  <2>3. ListedInv'
    BY <2>1, AppliedPrimed
  <2>4. ~Listing
    BY <2>1 DEF Listing
  <2> QED
    BY <1>1, <2>1, <2>2, <2>3, <2>4, QuietModels
<1> QED
  BY <1>3, <1>4, <1>5, <1>6, <1>7

\* retireModelsRemovedFromConfigFile takes none of the file's models.
LEMMA RetireModelsApplies ==
    ASSUME NamesInv, ReadInv, AppliedInv, RetireModelsRemovedFromConfigFile
    PROVE  ModelsAppliedInv' /\ ListedInv'
<1> DEFINE list == load.doc.models
<1>1. load \in Loads /\ RegistriesInv /\ LoadStep
  BY DEF NamesInv, TypeInv, LoadInv, LoadStep
<1>2. /\ load.stage = "retire" /\ load'.stage = "libraries"
      /\ load'.doc = load.doc
      /\ UNCHANGED <<graphs, aliases, unchecked>>
      /\ \E changed : pipelines' = Notified(changed)
  BY <1>1 DEF RetireModelsRemovedFromConfigFile, Loads
<1>3. ModelsDone(load) = DOMAIN list /\ ModelsDone(load') = DOMAIN list
  BY <1>2 DEF ModelsDone
<1>4. ListedInv'
  BY <1>2, AppliedPrimed
<1>5. ASSUME NEW i \in DOMAIN list, WantedAt(list, i) PROVE ModelApplied(i)'
  <2> DEFINE n == list[i].name
  <2>1. n \in Known /\ n \in Names
    BY <1>1, <1>2, <1>5, EntriesOfModels DEF ReadInv, ModelsReadInv
  <2>2. Occupied(n) => \/ IsRegistered(pipelines', n)
                       \/ IsRegistered(graphs', n) \/ aliases'[n] # NoName
    BY <1>1, <1>2, <2>1, TakenStays
  <2>3. CASE n \in load.inFile
    <3>1. models'[n] = models[n]
      <4> HIDE DEF n
      <4> QED
        BY <2>1, <2>3 DEF RetireModelsRemovedFromConfigFile
    <3> QED
      BY <1>1, <1>2, <1>3, <1>5, <2>2, <2>3, <3>1, ModelStays DEF AppliedInv
  <2>4. CASE n \notin load.inFile
    <3>1. Occupied(n)
      BY <2>1, <2>4 DEF Known
    <3>2. ~Serves(models', n)
      <4>1. models[n] \in Models
        BY <1>1, <2>1 DEF RegistriesInv
      <4> HIDE DEF n
      <4> QED
        BY <1>1, <2>1, <2>4, <4>1
           DEF RetireModelsRemovedFromConfigFile, RegistriesInv, Serves,
               ModelExists, IsRegistered, Models
    <3>3. ModelApplied(i) /\ Listing
      BY <1>2, <1>3, <1>5 DEF AppliedInv, ModelsAppliedInv, Listing
    <3>4. load'.error # "OK"
      BY <1>1, <2>4, <3>3, ErrorStays DEF ModelApplied
    <3> QED
      BY <1>2, <2>2, <3>1, <3>2, <3>4, ModelAppliedPrimed
  <2> QED
    BY <2>3, <2>4
<1> QED
  BY <1>2, <1>3, <1>4, <1>5, AppliedPrimed

\* The sections after it leave the models alone, and their names taken; but an
\* alias may go.
LEMMA LaterSectionsApply ==
    ASSUME NamesInv, ReadInv, AppliedInv,
           \/ ProcessPipelineConfig \/ RetirePipelinesOtherThan
           \/ RetireGraphsOtherThan \/ ProcessMediapipeConfig
    PROVE  ModelsAppliedInv' /\ ListedInv'
<1> DEFINE list == load.doc.models
           taken(n) == \/ IsRegistered(pipelines', n)
                       \/ IsRegistered(graphs', n) \/ aliases'[n] # NoName
<1>1. /\ load \in Loads /\ LoadInv /\ RegistriesInv /\ ReloadingInv /\ LoadStep
      /\ Exclusive /\ AliasInv
  BY DEF NamesInv, TypeInv, LoadInv, LoadStep
<1>2. /\ load.stage \in {"pipelines", "graphs"}
      /\ load'.stage \in {"pipelines", "graphs"}
      /\ load'.doc = load.doc /\ UNCHANGED models
  <2>1. CASE ProcessPipelineConfig \/ RetirePipelinesOtherThan
             \/ RetireGraphsOtherThan
    BY <1>1, <2>1 DEF ProcessPipelineConfig, RetirePipelinesOtherThan,
       RetireGraphsOtherThan, Loads
  <2>2. CASE ProcessMediapipeConfig
    BY <1>1, <2>2 DEF ProcessMediapipeConfig, CreateGraph, ClearLoraAliases,
       ReloadGraph, NextGraph, Loads
  <2> QED
    BY <2>1, <2>2
<1>3. ModelsDone(load) = DOMAIN list /\ ModelsDone(load') = DOMAIN list
  BY <1>2 DEF ModelsDone
<1>4. ListedInv'
  BY <1>2, AppliedPrimed
<1>5. ASSUME NEW n \in Names, Occupied(n)
      PROVE  taken(n) \/ IsAlias(n)
  <2>1. PipelineExists(n) => IsRegistered(pipelines', n)
    BY <1>1, <1>5 DEF PipelineExists, IsRegistered, RegistriesInv,
       ProcessPipelineConfig, RetirePipelinesOtherThan, RetiredPipeline,
       NoPipeline, RetireGraphsOtherThan, ProcessMediapipeConfig
  <2>2. IsRegistered(graphs, n) => IsRegistered(graphs', n)
    <3>1. CASE ProcessPipelineConfig \/ RetirePipelinesOtherThan
      BY <3>1 DEF IsRegistered, ProcessPipelineConfig, RetirePipelinesOtherThan
    <3>2. CASE RetireGraphsOtherThan
      BY <1>1, <1>5, <3>2 DEF IsRegistered, RetireGraphsOtherThan, RegistriesInv
    <3>3. CASE ProcessMediapipeConfig
      <4> DEFINE h == Head(load.todo)
      <4>1. h \in GraphEntries /\ h.name \in Names /\ GraphStep(h)
        BY <1>1, <3>3, ProcessMediapipeDoes
      <4> HIDE DEF h
      <4>2. ASSUME NEW d \in Names, GraphPut(h, d)
            PROVE  IsRegistered(graphs, n) => IsRegistered(graphs', n)
        <5>1. graphs'[d].state # "none"
          BY <1>1, <4>2 DEF GraphPut, RegistriesInv, GraphState
        <5>2. n # d => graphs'[n] = graphs[n]
          BY <1>1, <1>5, <4>1, <4>2, GraphPutTyped
        <5> QED
          BY <5>1, <5>2 DEF IsRegistered
      <4>3. ASSUME NEW d \in Names, ClearLoraAliases(h, d)
            PROVE  IsRegistered(graphs, n) => IsRegistered(graphs', n)
        <5>1. graphs' = [graphs EXCEPT ![d].state = "reloading"]
          BY <4>3 DEF ClearLoraAliases
        <5> QED
          BY <1>1, <1>5, <5>1 DEF IsRegistered, RegistriesInv
      <4> QED
        BY <4>1, <4>2, <4>3 DEF GraphStep, GraphSkipped, IsRegistered
    <3> QED
      BY <3>1, <3>2, <3>3
  <2>3. aliases[n] # NoName => IsAlias(n)
    BY <1>1, <1>5 DEF AliasInv, IsAlias
  <2> QED
    BY <1>5, <2>1, <2>2, <2>3 DEF Occupied, GraphExists
<1>6. ASSUME NEW i \in DOMAIN list, WantedAt(list, i) PROVE ModelApplied(i)'
  <2> DEFINE n == list[i].name
  <2>1. n \in Names
    BY <1>1, <1>6, EntriesOfModels
  <2>2. Occupied(n) => taken(n) \/ IsAlias(n)
    BY <1>5, <2>1
  <2>3. ~Listing
    BY <1>2 DEF Listing
  <2> QED
    BY <1>1, <1>2, <1>3, <1>6, <2>2, <2>3, ModelStays DEF AppliedInv
<1> QED
  BY <1>2, <1>3, <1>4, <1>6, AppliedPrimed

\* What is tried again has the configuration of the file.
LEMMA GatedApplies ==
    ASSUME NamesInv, ReadInv, AppliedInv, TryReloadGatedModelConfigs
    PROVE  ModelsAppliedInv' /\ ListedInv'
<1> DEFINE list == load.doc.models
           n0 == Head(load.gated).name
           c0 == Head(load.gated).config
           m == Reloaded(n0, c0).model
<1>1. load \in Loads /\ RegistriesInv /\ LoadStep
  BY DEF NamesInv, TypeInv, LoadInv, LoadStep
<1>2. /\ load.stage = "gated" /\ load'.stage = "gated"
      /\ load'.doc = load.doc /\ load.gated # <<>>
      /\ UNCHANGED <<graphs, aliases, unchecked>>
      /\ \E changed : pipelines' = Notified(changed)
      /\ models' = [models EXCEPT ![n0] = m]
      /\ load'.error = "OK" => OkStatus(Reloaded(n0, c0).status)
  <2>1. load'.error = "OK" => OkStatus(Reloaded(n0, c0).status)
    BY <1>1 DEF TryReloadGatedModelConfigs, Loads, OkStatus, FirstError
  <2> QED
    BY <1>1, <2>1 DEF TryReloadGatedModelConfigs, Loads
<1>3. ModelsDone(load) = DOMAIN list /\ ModelsDone(load') = DOMAIN list
  BY <1>2 DEF ModelsDone
<1>4. ListedInv'
  BY <1>2, AppliedPrimed
<1>5. 1 \in DOMAIN load.gated /\ Head(load.gated) = load.gated[1]
      /\ n0 \in Names
  <2>1. load.gated \in Seq(Gated)
    BY <1>1 DEF Loads
  <2>2. /\ 1 \in DOMAIN load.gated /\ Head(load.gated) = load.gated[1]
        /\ Head(load.gated) \in Gated
    BY <1>2, <2>1
  <2> QED
    BY <2>2 DEF Gated
<1>6. ASSUME NEW i \in DOMAIN list, WantedAt(list, i) PROVE ModelApplied(i)'
  <2> DEFINE n == list[i].name
             c == Config(list[i])
  <2>1. n \in Names
    BY <1>1, <1>6, EntriesOfModels
  <2>2. CASE n # n0
    <3>1. models'[n] = models[n]
      <4> HIDE DEF n, n0, m
      <4> QED
        BY <1>1, <1>2, <2>1, <2>2 DEF RegistriesInv
    <3>2. Occupied(n) => \/ IsRegistered(pipelines', n)
                         \/ IsRegistered(graphs', n) \/ aliases'[n] # NoName
      BY <1>1, <1>2, <2>1, TakenStays
    <3> QED
      BY <1>1, <1>2, <1>3, <1>6, <3>1, <3>2, ModelStays DEF AppliedInv, Listing
  <2>3. CASE n = n0
    <3>1. c0 = c
      BY <1>5, <1>6, <2>3 DEF ReadInv, GatedInv
    <3>2. models'[n] = m
      <4> HIDE DEF n, n0, m
      <4> QED
        BY <1>1, <1>2, <1>5, <2>3 DEF RegistriesInv
    <3>3. /\ \/ m.state = "available" /\ m.config = c
             \/ c.loader # NoName /\ c.loader \notin loaders
             \/ n \in broken \/ c.auto
          /\ OkStatus(Reloaded(n0, c0).status) =>
                \/ m.state = "available" /\ m.config = c
                \/ c.loader # NoName /\ c.loader \notin loaders
      BY <1>1, <1>5, <2>3, <3>1, ReloadedContains
    <3>4. broken' = broken /\ loaders' = loaders
      BY <1>1, <1>2, LoadersStay
    <3> HIDE DEF m, c, n, c0, n0
    <3>5. LET inForce == \/ Serves(models', n) /\ models'[n].config = c
                         \/ c.loader # NoName /\ c.loader \notin loaders'
          IN  /\ inForce \/ n \in broken' \/ c.auto
              /\ load'.error = "OK" => inForce
      BY <1>2, <3>2, <3>3, <3>4 DEF Serves
    <3>6. n = load'.doc.models[i].name /\ c = Config(load'.doc.models[i])
      BY <1>2 DEF n, c
    <3> QED
      BY <1>2, <3>5, <3>6, ModelAppliedPrimed
  <2> QED
    BY <2>2, <2>3
<1> QED
  BY <1>2, <1>3, <1>4, <1>6, AppliedPrimed

\* Reading begins with nothing, and a section forgets the names of another.
LEMMA EarlyKept ==
    ASSUME NamesInv, AppliedInv, LoadStep
    PROVE  EarlyInv'
<1>1. load \in Loads /\ LoadInv /\ RegistriesInv /\ ReloadingInv /\ TypeInv
      /\ EarlyInv
  BY DEF NamesInv, TypeInv, LoadInv, AppliedInv
<1>2. CASE ParseConfig
  <2>1. load'.doc = load.doc \/ load'.stage # "read"
    BY <1>1, <1>2 DEF ParseConfig, EndLoad, Loads
  <2>2. load.stage = "read" /\ load'.inFile = load.inFile
        /\ load'.graphs = load.graphs
    BY <1>1, <1>2 DEF ParseConfig, EndLoad, Loads
  <2> QED
    BY <1>1, <2>1, <2>2, AppliedPrimed DEF EarlyInv
<1>3. CASE LoadCustomLoadersConfig
  <2>1. load.stage = "loaders" /\ load'.stage = "parse"
        /\ load'.inFile = load.inFile
    BY <1>1, <1>3 DEF LoadCustomLoadersConfig, Loads
  <2> QED
    BY <1>1, <2>1, AppliedPrimed DEF EarlyInv
<1>4. CASE ~(ParseConfig \/ LoadCustomLoadersConfig)
  <2>1. CASE \/ ParseMediapipeConfig \/ RetireModelsRemovedFromConfigFile
             \/ LoadCustomNodeLibrariesConfig \/ ProcessPipelineConfig
             \/ RetirePipelinesOtherThan \/ RetireGraphsOtherThan
    <3>1. load'.stage \in {"models", "libraries", "pipelines", "graphs"}
      BY <1>1, <2>1
         DEF ParseMediapipeConfig, RetireModelsRemovedFromConfigFile,
             LoadCustomNodeLibrariesConfig, ProcessPipelineConfig,
             RetirePipelinesOtherThan, RetireGraphsOtherThan, Loads
    <3> QED
      BY <3>1, AppliedPrimed
  <2>2. CASE LoadModel
    <3>1. load'.stage = "models"
      BY <1>1, <2>2, EntryDoes
    <3> QED
      BY <3>1, AppliedPrimed
  <2>3. CASE LoadMediapipeSubConfigModels
    <3>1. load'.stage \in {"models", "subs", "retire"}
      BY <1>1, <2>3 DEF LoadMediapipeSubConfigModels, Loads
    <3> QED
      BY <3>1, AppliedPrimed
  <2>4. CASE ProcessMediapipeConfig
    <3>1. load'.stage = "graphs"
      BY <1>1, <2>4 DEF ProcessMediapipeConfig, CreateGraph, ClearLoraAliases,
         ReloadGraph, NextGraph, Loads
    <3> QED
      BY <3>1, AppliedPrimed
  <2>5. CASE TryReloadGatedModelConfigs \/ FinishLoad
    <3>1. load'.stage \in {"gated", "ended"}
      BY <1>1, <2>5 DEF TryReloadGatedModelConfigs, FinishLoad, EndLoad, Loads
    <3> QED
      BY <3>1, AppliedPrimed
  <2> QED
    BY <1>4, <2>1, <2>2, <2>3, <2>4, <2>5 DEF LoadStep
<1> QED
  BY <1>2, <1>3, <1>4

\* Only a configuration with "auto" is put off.
LEMMA GatedAutoKept ==
    ASSUME NamesInv, AppliedInv, LoadStep
    PROVE  GatedAutoInv'
<1>1. /\ load \in Loads /\ LoadInv /\ RegistriesInv /\ ReloadingInv
      /\ load.gated \in Seq(Gated)
      /\ \A i \in DOMAIN load.gated : load.gated[i].config.auto
  BY DEF NamesInv, TypeInv, LoadInv, AppliedInv, GatedAutoInv, Loads
<1>2. CASE load'.gated = load.gated
  BY <1>1, <1>2, AppliedPrimed
<1>3. CASE TryReloadGatedModelConfigs
  <2>1. load'.gated = Tail(load.gated) /\ load.gated # <<>>
    BY <1>1, <1>3 DEF TryReloadGatedModelConfigs, Loads
  <2>2. \A i \in DOMAIN load'.gated :
           i + 1 \in DOMAIN load.gated /\ load'.gated[i] = load.gated[i + 1]
    BY <1>1, <2>1
  <2> QED
    BY <1>1, <2>2, AppliedPrimed
<1>4. CASE LoadModel /\ load'.gated # load.gated
  <2> DEFINE item == Head(load.todo)
             c == Config(item)
             s == Reloaded(item.name, c).status
  <2>1. /\ load'.gated = Append(load.gated, [name |-> item.name, config |-> c])
        /\ s = "REQUESTED_DYNAMIC_PARAMETERS_ON_SUBSCRIBED_MODEL"
    <3>1. ReloadListed(item.name, c)
      BY <1>1, <1>4 DEF LoadModel, SkipInvalid, Loads
    <3> HIDE DEF item, c
    <3> QED
      BY <1>1, <1>4, <3>1 DEF ReloadListed, Loads
  <2>2. c.auto
    BY <2>1 DEF Reloaded
  <2> HIDE DEF item, c
  <2>3. ASSUME NEW i \in DOMAIN load'.gated PROVE load'.gated[i].config.auto
    <3>1. CASE i \in DOMAIN load.gated
      <4>1. load'.gated[i] = load.gated[i]
        BY <1>1, <2>1, <3>1
      <4> QED
        BY <1>1, <3>1, <4>1
    <3>2. CASE i \notin DOMAIN load.gated
      <4>1. load'.gated[i] = [name |-> item.name, config |-> c]
        BY <1>1, <2>1, <2>3, <3>2
      <4> QED
        BY <2>2, <4>1
    <3> QED
      BY <3>1, <3>2
  <2> QED
    BY <2>3, AppliedPrimed
<1>5. CASE \/ ParseConfig \/ LoadCustomLoadersConfig \/ ParseMediapipeConfig
           \/ LoadMediapipeSubConfigModels \/ LoadCustomNodeLibrariesConfig
           \/ FinishLoad
  BY <1>1, <1>2, <1>5, QuietDoes
<1>6. CASE \/ RetireModelsRemovedFromConfigFile \/ ProcessPipelineConfig
           \/ RetirePipelinesOtherThan \/ RetireGraphsOtherThan
  BY <1>1, <1>2, <1>6
     DEF RetireModelsRemovedFromConfigFile, ProcessPipelineConfig,
         RetirePipelinesOtherThan, RetireGraphsOtherThan, Loads
<1>7. CASE ProcessMediapipeConfig
  BY <1>1, <1>2, <1>7 DEF ProcessMediapipeConfig, CreateGraph, ClearLoraAliases,
     ReloadGraph, NextGraph, Loads
<1> QED
  BY <1>2, <1>3, <1>4, <1>5, <1>6, <1>7 DEF LoadStep

\* The models, in every step of a load.
LEMMA ModelsApply ==
    ASSUME NamesInv, ReadInv, AppliedInv, LoadStep
    PROVE  EarlyInv' /\ ListedInv' /\ GatedAutoInv' /\ ModelsAppliedInv'
<1>1. EarlyInv' /\ GatedAutoInv'
  BY EarlyKept, GatedAutoKept
<1>2. ModelsAppliedInv' /\ ListedInv'
  BY LoadModelApplies, QuietApplies, RetireModelsApplies, LaterSectionsApply,
     GatedApplies DEF LoadStep
<1> QED
  BY <1>1, <1>2

-----------------------------------------------------------------------------
(* The pipelines *)

\* An entry that was handled stays so if its pipeline does.
LEMMA PipelineStays ==
    ASSUME load \in Loads, PipelinesAppliedInv, LoadStep,
           load'.doc = load.doc,
           NEW i \in PipelinesDone(load), FirstAt(load.doc.pipelines, i),
           NEW p, p = load.doc.pipelines[i],
           pipelines'[p.name] = pipelines[p.name],
           /\ p.library = NoName \/ p.library \in libraries'
           /\ \A m \in p.uses : Serves(models', m) /\ ~models'[m].config.auto
           => Fits(p)
    PROVE  PipelineApplied(i)'
<1>1. PipelineApplied(i)
  BY DEF PipelinesAppliedInv
<1>2. load'.error = "OK" => load.error = "OK"
  BY ErrorStays
<1>3. p = load'.doc.pipelines[i]
  OBVIOUS
<1>4. /\ IsRegistered(pipelines', p.name) <=> PipelineExists(p.name)
      /\ Serves(pipelines', p.name) <=> Serves(pipelines, p.name)
  BY DEF IsRegistered, PipelineExists, Serves
<1>5. /\ PipelineExists(p.name) /\ Fits(p) /\ ~IsAlias(p.name)
            => Serves(pipelines, p.name)
      /\ load.error = "OK" => /\ Serves(pipelines, p.name)
                              /\ pipelines[p.name].uses = p.uses
  BY <1>1 DEF PipelineApplied
<1> QED
  BY <1>2, <1>3, <1>4, <1>5, PipelineAppliedPrimed

LEMMA EarlierSections ==
    /\ load'.stage \notin {"pipelines", "graphs", "gated", "ended"}
          => PipelinesAppliedInv'
    /\ load'.stage \notin {"graphs", "gated", "ended"} => GraphsAppliedInv'
<1>1. load'.stage \notin {"pipelines", "graphs", "gated", "ended"}
         => PipelinesDone(load') = {}
  BY DEF PipelinesDone
<1>2. load'.stage \notin {"graphs", "gated", "ended"} => GraphsDone(load') = {}
  BY DEF GraphsDone
<1> QED
  BY <1>1, <1>2, AppliedPrimed

LEMMA EntriesOfPipelines ==
    ASSUME load \in Loads
    PROVE  /\ load.doc.pipelines \in Seq(PipelineEntries)
           /\ \A i \in DOMAIN load.doc.pipelines :
                 /\ load.doc.pipelines[i] \in PipelineEntries
                 /\ load.doc.pipelines[i].name \in Names
<1>1. load.doc \in Files \cup {EmptyFile}
  BY DEF Loads
<1>2. load.doc.pipelines \in Seq(PipelineEntries)
  BY <1>1, FilesAreLists
<1>3. \A i \in DOMAIN load.doc.pipelines :
         load.doc.pipelines[i] \in PipelineEntries
  BY <1>2
<1> QED
  BY <1>2, <1>3, EntriesTyped DEF AllEntries

\* processPipelineConfig makes the first entry of a name what the pipeline is.
LEMMA ProcessPipelineApplies ==
    ASSUME NamesInv, AppliedInv, ProcessPipelineConfig
    PROVE  PipelinesAppliedInv'
<1> DEFINE list == load.doc.pipelines
           todo == load.todo
           p == Head(todo)
           n == p.name
           refused == ~PipelineExists(n) /\ (ModelExists(n) \/ GraphExists(n))
           again == n \in load.inFile
<1>1. /\ load \in Loads /\ RegistriesInv /\ LoadStep /\ Exclusive /\ AliasInv
      /\ PipelinesAppliedInv /\ list \in Seq(PipelineEntries)
      /\ load.todo \in Seq(PipelineEntries)
  BY EntriesOfPipelines
     DEF NamesInv, TypeInv, LoadInv, TodoInv, LoadStep, AppliedInv,
         ProcessPipelineConfig
<1>2. /\ load.stage = "pipelines" /\ todo # <<>>
      /\ UNCHANGED <<models, graphs, aliases, unchecked, libraries>>
      /\ pipelines' = IF again \/ refused THEN pipelines
                ELSE [pipelines EXCEPT ![n] =
                        [state |-> IF Validates(n, p) THEN "available"
                                                      ELSE "failed",
                         uses |-> p.uses, library |-> p.library,
                         subs |-> {m \in p.uses : ModelExists(m)}]]
  BY DEF ProcessPipelineConfig
<1>3. /\ load'.stage = "pipelines" /\ load'.doc = load.doc
      /\ load'.todo = Tail(todo) /\ load'.inFile = load.inFile \cup {n}
      /\ load'.error = IF again \/ Validates(n, p) THEN load.error
                       ELSE FirstError(load.error, "PIPELINE_DEFINITION_INVALID")
  BY <1>1 DEF ProcessPipelineConfig, Loads
<1>4. /\ IsRest(todo, list) /\ PipelinesDone(load) = Read(todo, list)
      /\ load.inFile = NamesRead(Read(todo, list), list)
      /\ PipelinesDone(load') = Read(Tail(todo), list)
  BY <1>1, <1>2, <1>3 DEF PipelinesAppliedInv, PipelinesDone
<1>5. PICK k \in DOMAIN list :
         /\ k \notin Read(todo, list) /\ p = list[k]
         /\ 1 .. k - 1 = Read(todo, list)
         /\ Read(Tail(todo), list) = Read(todo, list) \cup {k}
         /\ IsRest(Tail(todo), list)
  <2> HIDE DEF list, todo
  <2> QED
    BY <1>1, <1>2, <1>4, OneLess, Zenon DEF p, todo
<1>6. load'.inFile = NamesRead(Read(Tail(todo), list), list)
  <2>1. NamesRead(Read(todo, list) \cup {k}, list)
           = NamesRead(Read(todo, list), list) \cup {list[k].name}
    BY DEF NamesRead
  <2> QED
    BY <1>3, <1>4, <1>5, <2>1
<1>7. n \in Names /\ k \in DOMAIN list
  BY <1>1, <1>5, EntriesOfPipelines
<1>8. ASSUME NEW i \in Read(todo, list), FirstAt(list, i)
      PROVE  PipelineApplied(i)'
  <2> DEFINE q == list[i]
  <2>1. q.name \in load.inFile
    BY <1>4 DEF NamesRead
  <2>2. i \in DOMAIN list
    <3>1. i \in 1 .. k - 1
      BY <1>5
    <3> QED
      BY <1>1, <1>7, <3>1
  <2>3. q.name \in Names
    BY <1>1, <2>2, EntriesOfPipelines
  <2>4. pipelines'[q.name] = pipelines[q.name]
    <3> HIDE DEF q, p
    <3> QED
      BY <1>1, <1>2, <1>7, <2>1, <2>3 DEF RegistriesInv
  <2>5. /\ q.library = NoName \/ q.library \in libraries'
        /\ \A m \in q.uses : Serves(models', m) /\ ~models'[m].config.auto
        => Fits(q)
    BY <1>2 DEF Fits, Serves
  <2> QED
    BY <1>1, <1>3, <1>4, <1>8, <2>4, <2>5, PipelineStays
<1>9. ASSUME FirstAt(list, k) PROVE PipelineApplied(k)'
  <2>1. ~again
    <3> SUFFICES ASSUME again PROVE FALSE
      OBVIOUS
    <3>1. PICK j \in Read(todo, list) : list[j].name = n
      BY <1>4 DEF NamesRead
    <3>2. j \in 1 .. k - 1
      BY <1>5
    <3> QED
      BY <1>5, <1>9, <3>1, <3>2 DEF FirstAt
  <2>2. p = load'.doc.pipelines[k]
    BY <1>3, <1>5
  <2>3. CASE refused
    <3>1. ~IsRegistered(pipelines', n)
      BY <1>2, <2>3 DEF PipelineExists, IsRegistered
    <3>2. load'.error # "OK"
      BY <1>3, <2>1, <2>3 DEF Validates, FirstError
    <3> QED
      BY <2>2, <3>1, <3>2, PipelineAppliedPrimed
  <2>4. CASE ~refused
    <3>1. ~ModelExists(n) /\ (~IsAlias(n) => ~GraphExists(n))
      BY <1>1, <1>7, <2>4 DEF Exclusive, GraphExists, AliasInv, IsAlias
    <3>2. /\ Validates(n, p) => Fits(p)
          /\ ~IsAlias(n) /\ Fits(p) => Validates(n, p)
      BY <3>1 DEF Validates, Fits
    <3>3. /\ pipelines'[n].state =
                IF Validates(n, p) THEN "available" ELSE "failed"
          /\ pipelines'[n].uses = p.uses
      <4> HIDE DEF p, n
      <4> QED
        BY <1>1, <1>2, <1>7, <2>1, <2>4, <3>2 DEF RegistriesInv
    <3>4. /\ p.library = NoName \/ p.library \in libraries'
          /\ \A m \in p.uses : Serves(models', m) /\ ~models'[m].config.auto
          => Fits(p)
      BY <1>2 DEF Fits, Serves
    <3>5. load'.error = "OK" => Validates(n, p)
      BY <1>3, <2>1 DEF FirstError
    <3>6. Validates(n, p) => Serves(pipelines', n)
      BY <3>3 DEF Serves
    <3> HIDE DEF p
    <3> QED
      BY <2>2, <3>2, <3>3, <3>4, <3>5, <3>6, PipelineAppliedPrimed
  <2> QED
    BY <2>3, <2>4
<1> QED
  BY <1>3, <1>4, <1>5, <1>6, <1>8, <1>9, AppliedPrimed

\* Going on to the graphs, or past them.
LEMMA QuietPipelines ==
    ASSUME load \in Loads, AppliedInv, LoadStep, load'.doc = load.doc,
           PipelinesDone(load') = PipelinesDone(load),
           load'.stage # "pipelines",
           UNCHANGED <<models, libraries>>,
           \A i \in PipelinesDone(load) :
              FirstAt(load.doc.pipelines, i) =>
                 pipelines'[load.doc.pipelines[i].name]
                    = pipelines[load.doc.pipelines[i].name]
    PROVE  PipelinesAppliedInv'
<1> SUFFICES ASSUME NEW i \in PipelinesDone(load),
                    FirstAt(load.doc.pipelines, i)
             PROVE  PipelineApplied(i)'
  BY AppliedPrimed
<1> DEFINE p == load.doc.pipelines[i]
<1>1. /\ p.library = NoName \/ p.library \in libraries'
      /\ \A m \in p.uses : Serves(models', m) /\ ~models'[m].config.auto
      => Fits(p)
  BY DEF Fits, Serves
<1> QED
  BY <1>1, PipelineStays DEF AppliedInv

\* What is tried again is no model of a pipeline, or is left as it is.
LEMMA GatedPipelines ==
    ASSUME NamesInv, AppliedInv, TryReloadGatedModelConfigs
    PROVE  PipelinesAppliedInv'
<1> DEFINE list == load.doc.pipelines
           n0 == Head(load.gated).name
           c0 == Head(load.gated).config
           m0 == Reloaded(n0, c0).model
<1>1. load \in Loads /\ RegistriesInv /\ LoadStep /\ PipelinesAppliedInv
      /\ load.gated \in Seq(Gated)
  BY DEF NamesInv, TypeInv, LoadInv, LoadStep, AppliedInv, Loads
<1>2. /\ load.stage = "gated" /\ load'.stage = "gated"
      /\ load'.doc = load.doc /\ load.gated # <<>>
      /\ UNCHANGED libraries
      /\ pipelines' = Notified(IF m0 = models[n0] THEN {} ELSE {n0})
      /\ models' = [models EXCEPT ![n0] = m0]
  BY <1>1 DEF TryReloadGatedModelConfigs, Loads
<1>3. PipelinesDone(load) = DOMAIN list /\ PipelinesDone(load') = DOMAIN list
  BY <1>2 DEF PipelinesDone
<1>4. n0 \in Names /\ c0.auto
  <2>1. /\ 1 \in DOMAIN load.gated /\ Head(load.gated) = load.gated[1]
        /\ Head(load.gated) \in Gated
    BY <1>1, <1>2
  <2> QED
    BY <2>1 DEF Gated, AppliedInv, GatedAutoInv
<1>5. \A n \in Names : pipelines'[n] = pipelines[n]
  <2>1. CASE Subscribed(n0)
    <3>1. m0 = models[n0]
      BY <1>4, <2>1 DEF Reloaded
    <3>2. pipelines' = Notified({})
      BY <1>2, <3>1
    <3> QED
      BY <3>2 DEF Notified
  <2>2. CASE ~Subscribed(n0)
    <3>1. \A n \in Names : pipelines[n].subs \cap {n0} = {}
      BY <2>2 DEF Subscribed
    <3> QED
      BY <1>2, <3>1 DEF Notified
  <2> QED
    BY <2>1, <2>2
<1>6. \A n \in Names : Serves(models', n) /\ ~models'[n].config.auto
         => Serves(models, n) /\ ~models[n].config.auto
  <2>1. m0.state = "available" /\ ~m0.config.auto => m0 = models[n0]
    <3>1. \/ m0 = models[n0] \/ m0.state # "available" \/ m0.config = c0
      <4>1. models[n0] \in Models
        BY <1>1, <1>4 DEF RegistriesInv
      <4> QED
        BY <4>1 DEF Reloaded, Models
    <3> QED
      BY <1>4, <3>1
  <2>2. models'[n0] = m0
    <3> HIDE DEF m0, n0
    <3> QED
      BY <1>1, <1>2, <1>4 DEF RegistriesInv
  <2>3. \A n \in Names : n # n0 => models'[n] = models[n]
    <3> HIDE DEF m0, n0
    <3> QED
      BY <1>1, <1>2 DEF RegistriesInv
  <2> HIDE DEF m0, n0
  <2> QED
    BY <2>1, <2>2, <2>3 DEF Serves
<1>7. ASSUME NEW i \in DOMAIN list, FirstAt(list, i) PROVE PipelineApplied(i)'
  <2> DEFINE p == list[i]
  <2>1. p.name \in Names /\ p.uses \subseteq Names
    BY <1>1, <1>7, EntriesOfPipelines, EntriesTyped
  <2>2. pipelines'[p.name] = pipelines[p.name]
    BY <1>5, <2>1
  <2>3. /\ p.library = NoName \/ p.library \in libraries'
        /\ \A m \in p.uses : Serves(models', m) /\ ~models'[m].config.auto
        => Fits(p)
    <3> HIDE DEF p
    <3> QED
      BY <1>2, <1>6, <2>1 DEF Fits
  <2> QED
    BY <1>1, <1>2, <1>3, <1>7, <2>2, <2>3, PipelineStays
<1> QED
  BY <1>2, <1>3, <1>7, AppliedPrimed

\* The pipelines, in every step of a load.
LEMMA PipelinesApply ==
    ASSUME NamesInv, AppliedInv, LoadStep
    PROVE  PipelinesAppliedInv'
<1> DEFINE list == load.doc.pipelines
<1>1. load \in Loads /\ LoadInv /\ RegistriesInv /\ ReloadingInv /\ TypeInv
      /\ EarlyInv /\ PipelinesAppliedInv /\ list \in Seq(PipelineEntries)
  BY EntriesOfPipelines DEF NamesInv, TypeInv, LoadInv, AppliedInv
<1>2. CASE ParseConfig
  <2>1. /\ load'.stage \in {"read", "ended", "loaders"}
        /\ load'.stage = "ended" => load'.doc = EmptyFile
    BY <1>1, <1>2 DEF ParseConfig, EndLoad, Loads, EarlyInv
  <2>2. PipelinesDone(load') = {}
    BY <2>1 DEF PipelinesDone, EmptyFile
  <2> QED
    BY <2>1, <2>2, AppliedPrimed
<1>3. CASE \/ LoadCustomLoadersConfig \/ ParseMediapipeConfig
           \/ RetireModelsRemovedFromConfigFile
  <2>1. load'.stage \in {"parse", "models", "libraries"}
    BY <1>1, <1>3 DEF LoadCustomLoadersConfig, ParseMediapipeConfig,
       RetireModelsRemovedFromConfigFile, Loads
  <2> QED
    BY <2>1, EarlierSections
<1>4. CASE LoadModel
  <2>1. load'.stage = "models"
    BY <1>1, <1>4, EntryDoes
  <2> QED
    BY <2>1, EarlierSections
<1>5. CASE LoadMediapipeSubConfigModels
  <2>1. load'.stage \in {"models", "subs", "retire"}
    BY <1>1, <1>5 DEF LoadMediapipeSubConfigModels, Loads
  <2> QED
    BY <2>1, EarlierSections
<1>6. CASE LoadCustomNodeLibrariesConfig
  <2>1. /\ load'.stage = "pipelines" /\ load'.doc = load.doc
        /\ load'.inFile = {} /\ load'.todo = list
    BY <1>1, <1>6 DEF LoadCustomNodeLibrariesConfig, Loads
  <2>2. IsRest(list, list) /\ PipelinesDone(load') = {}
    BY <1>1, <2>1, NothingRead DEF PipelinesDone
  <2>3. NamesRead({}, list) = {}
    BY DEF NamesRead
  <2> QED
    BY <2>1, <2>2, <2>3, AppliedPrimed
<1>7. CASE ProcessPipelineConfig
  BY <1>7, ProcessPipelineApplies
<1>8. CASE RetirePipelinesOtherThan
  <2>1. /\ load.stage = "pipelines" /\ load.todo = <<>>
        /\ load'.stage = "graphs" /\ load'.doc = load.doc
        /\ UNCHANGED <<models, libraries>>
    BY <1>1, <1>8 DEF RetirePipelinesOtherThan, Loads
  <2>2. /\ PipelinesDone(load) = DOMAIN list
        /\ PipelinesDone(load') = DOMAIN list
        /\ load.inFile = NamesRead(DOMAIN list, list)
    BY <1>1, <2>1, AllRead DEF PipelinesDone, PipelinesAppliedInv
  <2>3. ASSUME NEW i \in DOMAIN list
        PROVE  pipelines'[list[i].name] = pipelines[list[i].name]
    <3>1. list[i].name \in Names /\ list[i].name \in load.inFile
      BY <1>1, <2>2, EntriesOfPipelines DEF NamesRead
    <3> QED
      BY <1>8, <3>1 DEF RetirePipelinesOtherThan
  <2> QED
    BY <1>1, <2>1, <2>2, <2>3, QuietPipelines
<1>9. CASE RetireGraphsOtherThan \/ ProcessMediapipeConfig \/ FinishLoad
  <2>1. /\ load.stage \in {"graphs", "gated"} /\ load'.doc = load.doc
        /\ load'.stage \in {"graphs", "gated", "ended"}
        /\ UNCHANGED <<models, pipelines, libraries>>
    <3>1. CASE RetireGraphsOtherThan \/ FinishLoad
      BY <1>1, <3>1 DEF RetireGraphsOtherThan, FinishLoad, EndLoad, Loads,
         registries
    <3>2. CASE ProcessMediapipeConfig
      BY <1>1, <3>2 DEF ProcessMediapipeConfig, CreateGraph, ClearLoraAliases,
         ReloadGraph, NextGraph, Loads
    <3> QED
      BY <1>9, <3>1, <3>2
  <2>2. PipelinesDone(load) = DOMAIN list /\ PipelinesDone(load') = DOMAIN list
    BY <2>1 DEF PipelinesDone
  <2> QED
    BY <1>1, <2>1, <2>2, QuietPipelines
<1>10. CASE TryReloadGatedModelConfigs
  BY <1>10, GatedPipelines
<1> QED
  BY <1>2, <1>3, <1>4, <1>5, <1>6, <1>7, <1>8, <1>9, <1>10 DEF LoadStep

-----------------------------------------------------------------------------
(* The graphs *)

\* An entry that was handled stays so while its graph has its content.
LEMMA GraphStays ==
    ASSUME load \in Loads, GraphsAppliedInv, LoadStep,
           load'.graphs = load.graphs,
           NEW i \in GraphsDone(load), FirstAt(load.graphs, i),
           StandsAlone(load.graphs[i], load.graphs),
           NEW n, n = load.graphs[i].name,
           graphs'[n].ver = graphs[n].ver,
           IsRegistered(graphs, n) => IsRegistered(graphs', n)
    PROVE  GraphApplied(i)'
<1>1. GraphApplied(i)
  BY DEF GraphsAppliedInv
<1>2. load'.error = "OK" => load.error = "OK"
  BY ErrorStays
<1> QED
  BY <1>1, <1>2, GraphAppliedPrimed DEF GraphApplied

LEMMA EntriesOfGraphs ==
    ASSUME load \in Loads
    PROVE  /\ load.graphs \in Seq(GraphEntries)
           /\ \A i \in DOMAIN load.graphs :
                 /\ load.graphs[i] \in GraphEntries
                 /\ load.graphs[i].name \in Names
<1>1. load.graphs \in Seq(GraphEntries)
  BY DEF Loads
<1>2. \A i \in DOMAIN load.graphs : load.graphs[i] \in GraphEntries
  BY <1>1
<1> QED
  BY <1>1, <1>2, EntriesTyped DEF AllEntries

\* The entry that comes next.
LEMMA NextGraphEntry ==
    ASSUME TypeInv, ReadInv, load.stage = "graphs", load.todo # <<>>
    PROVE  \E k \in DOMAIN load.graphs :
              /\ Head(load.todo) = load.graphs[k]
              /\ k \notin GraphsDone(load) /\ 1 .. k - 1 = GraphsDone(load)
              /\ Read(Tail(load.todo), load.graphs) = GraphsDone(load) \cup {k}
<1> DEFINE list == load.graphs
           todo == load.todo
<1>1. /\ list \in Seq(GraphEntries) /\ todo \in Seq(GraphEntries)
      /\ IsRest(todo, list) /\ GraphsDone(load) = Read(todo, list)
  BY DEF TypeInv, LoadInv, TodoInv, Loads, ReadInv, GraphsReadInv, GraphsDone
<1>2. todo # <<>>
  OBVIOUS
<1> HIDE DEF list, todo
<1>3. PICK k \in DOMAIN list :
         /\ k \notin Read(todo, list) /\ Head(todo) = list[k]
         /\ 1 .. k - 1 = Read(todo, list)
         /\ Read(Tail(todo), list) = Read(todo, list) \cup {k}
  BY <1>1, <1>2, OneLess, Zenon
<1> QED
  BY <1>1, <1>3 DEF list, todo

\* A graph that stands alone is not found by an alias of an entry.
LEMMA NotFoundByAlias ==
    ASSUME AliasInv, NEW h \in Entries(load.graphs), h.name \in Names,
           NEW g, StandsAlone(g, load.graphs), h.name # g.name,
           aliases[h.name] = g.name, g.name # NoName
    PROVE  FALSE
<1>1. PICK e \in GraphEntries : e.name = g.name /\ h.name \in e.aliases
  BY DEF AliasInv
<1> QED
  BY <1>1 DEF StandsAlone

\* What processMediapipeConfig makes of the graphs that were handled.
LEMMA HandledGraphsStay ==
    ASSUME NamesInv, ReadInv, AppliedInv, ProcessMediapipeConfig,
           NEW i \in GraphsDone(load), FirstAt(load.graphs, i),
           StandsAlone(load.graphs[i], load.graphs)
    PROVE  GraphApplied(i)'
<1> DEFINE list == load.graphs
           h == Head(load.todo)
           d == FindGraph(h.name)
           n == list[i].name
<1>1. /\ load \in Loads /\ RegistriesInv /\ LoadInv /\ ReloadingInv /\ LoadStep
      /\ AliasInv /\ GraphsAppliedInv /\ TypeInv
  BY DEF NamesInv, TypeInv, LoadInv, AppliedInv, LoadStep
<1>2. /\ load.stage = "graphs" /\ load.todo # <<>>
      /\ h \in GraphEntries /\ h.name \in Names
  BY <1>1, ProcessMediapipeDoes
<1>3. load'.graphs = list
  BY <1>1 DEF ProcessMediapipeConfig, CreateGraph, ClearLoraAliases,
     ReloadGraph, NextGraph, Loads
<1>4. n \in load.inFile
  BY <1>1, <1>2 DEF GraphsAppliedInv, NamesRead
<1>5. n \in Names
  BY <1>1, <1>4 DEF Loads
<1>6. /\ graphs'[n].ver = graphs[n].ver
      /\ IsRegistered(graphs, n) => IsRegistered(graphs', n)
  <2>1. CASE UNCHANGED graphs
    BY <2>1 DEF IsRegistered
  <2>2. CASE load.after = "graphs" /\ h.name \notin load.inFile /\ CreateGraph(h)
    <3>1. GraphSkipped(h) \/ GraphPut(h, h.name)
      BY <1>1, <1>2, <2>2, CreateGraphDoes
    <3>2. CASE GraphPut(h, h.name)
      <4>1. graphs'[n] = graphs[n]
        <5>1. n # h.name
          BY <1>4, <2>2
        <5> HIDE DEF n, h
        <5> QED
          BY <1>1, <1>2, <1>5, <3>2, <5>1, GraphPutTyped
      <4> QED
        BY <4>1 DEF IsRegistered
    <3> QED
      BY <2>1, <3>1, <3>2 DEF GraphSkipped
  <2>3. CASE ClearLoraAliases(h, d)
    <3>1. graphs' = [graphs EXCEPT ![d].state = "reloading"]
      BY <2>3 DEF ClearLoraAliases
    <3> HIDE DEF d, n
    <3>2. /\ graphs'[n].ver = graphs[n].ver
          /\ graphs'[n].state = graphs[n].state \/ graphs'[n].state = "reloading"
      BY <1>1, <1>5, <3>1 DEF RegistriesInv, Graphs
    <3> QED
      BY <3>2 DEF IsRegistered
  <2>4. CASE load.after = "reload"
             /\ ReloadGraph(h, CHOOSE m \in Names : graphs[m].state = "reloading")
    <3> DEFINE r == CHOOSE m \in Names : graphs[m].state = "reloading"
    <3>1. \E m \in Names : graphs[m].state = "reloading"
      BY <1>1, <1>2, <2>4 DEF ReloadingInv
    <3>2. r \in Names /\ graphs[r].state = "reloading"
      BY <3>1
    <3>3. r = h.name \/ aliases[h.name] = r
      BY <1>1, <3>2 DEF ReloadingInv
    <3>4. h.name \notin load.inFile
      BY <1>1, <1>2, <2>4 DEF GraphsAppliedInv
    <3>5. r # n
      <4> SUFFICES ASSUME r = n PROVE FALSE
        OBVIOUS
      <4>1. aliases[h.name] = n
        BY <1>4, <3>3, <3>4
      <4>2. h \in Entries(list)
        <5>1. PICK k \in DOMAIN list : h = list[k]
          BY <1>1, <1>2, NextGraphEntry
        <5> QED
          BY <5>1 DEF Entries
      <4>3. n # NoName
        BY <1>5, NamesAssumption
      <4> QED
        BY <1>1, <1>2, <1>4, <3>4, <4>1, <4>2, <4>3, NotFoundByAlias
    <3>6. GraphPut(h, r)
      <4>1. IsRegistered(graphs, r) /\ ReloadGraph(h, r)
        BY <2>4, <3>2 DEF IsRegistered
      <4> HIDE DEF r, h
      <4> QED
        BY <1>1, <1>2, <3>2, <4>1, ReloadGraphDoes
    <3>7. graphs'[n] = graphs[n]
      <4> HIDE DEF r, n, h
      <4> QED
        BY <1>1, <1>2, <1>5, <3>2, <3>5, <3>6, GraphPutTyped
    <3> QED
      BY <3>7 DEF IsRegistered
  <2> QED
    BY <2>1, <2>2, <2>3, <2>4 DEF ProcessMediapipeConfig
<1> QED
  BY <1>1, <1>3, <1>6, GraphStays

\* The first entry of a name gives the graph its content, or is an error.
LEMMA EntryApplied ==
    ASSUME NamesInv, ReadInv, AppliedInv, ProcessMediapipeConfig,
           NEW h, h = Head(load.todo),
           load.after = "reload" \/ h.name \notin load.inFile,
           StandsAlone(h, load.graphs), load'.error = "OK",
           load'.after = "graphs"
    PROVE  IsRegistered(graphs', h.name) /\ graphs'[h.name].ver = h.ver
<1> DEFINE d == FindGraph(h.name)
<1>1. /\ load \in Loads /\ RegistriesInv /\ LoadInv /\ ReloadingInv
      /\ AliasInv
  BY DEF NamesInv, TypeInv, LoadInv, AppliedInv
<1>2. /\ load.stage = "graphs" /\ load.todo # <<>>
      /\ h \in GraphEntries /\ h.name \in Names
  BY <1>1, ProcessMediapipeDoes
<1>3. aliases[h.name] \in {NoName, h.name}
  BY <1>2, <1>1 DEF AliasInv, StandsAlone
<1>4. CASE load.after = "graphs" /\ h.name \notin load.inFile /\ d = NoName
           /\ CreateGraph(h)
  <2> DEFINE status == IF GraphExists(h.name)
                       THEN "PIPELINE_DEFINITION_ALREADY_EXIST"
                       ELSE ValidateGraph(h.name, h)
  <2>1. load'.error = IF status = "OK" THEN load.error
                      ELSE FirstError(load.error, status)
    BY <1>1, <1>4 DEF CreateGraph, NextGraph, Loads
  <2>2. status = "OK"
    BY <2>1 DEF FirstError
  <2>3. graphs' = [graphs EXCEPT ![h.name] =
                      [state |-> GraphState(status), ver |-> h.ver]]
    BY <1>4, <2>2 DEF CreateGraph
  <2> HIDE DEF status
  <2>4. graphs'[h.name] = [state |-> GraphState(status), ver |-> h.ver]
    BY <1>1, <1>2, <2>3 DEF RegistriesInv
  <2> QED
    BY <2>2, <2>4 DEF IsRegistered, GraphState
<1>5. CASE load.after = "graphs" /\ h.name \notin load.inFile /\ d # NoName
           /\ ~IsReloadRequired(d, h) /\ UNCHANGED <<graphs, aliases,
                                                     unchecked>>
  BY <1>1, <1>2, <1>5, FoundGraph DEF IsReloadRequired, IsRegistered
<1>6. CASE load.after = "reload"
           /\ ReloadGraph(h, CHOOSE m \in Names : graphs[m].state = "reloading")
  <2> DEFINE r == CHOOSE m \in Names : graphs[m].state = "reloading"
  <2>1. \E m \in Names : graphs[m].state = "reloading"
    BY <1>1, <1>2, <1>6 DEF ReloadingInv
  <2>2. r \in Names /\ graphs[r].state = "reloading" /\ ReloadGraph(h, r)
    BY <1>6, <2>1
  <2>3. r = h.name
    BY <1>1, <1>3, <2>2, NamesAssumption DEF ReloadingInv
  <2>4. GraphPut(h, r)
    <3> HIDE DEF r
    <3> QED
      BY <1>1, <1>2, <2>2, ReloadGraphDoes DEF IsRegistered
  <2>5. PICK s \in Errors :
           graphs' = [graphs EXCEPT ![h.name] =
                         [state |-> GraphState(s), ver |-> h.ver]]
    <3> HIDE DEF r
    <3> QED
      BY <2>3, <2>4 DEF GraphPut
  <2>6. graphs'[h.name] = [state |-> GraphState(s), ver |-> h.ver]
    BY <1>1, <1>2, <2>5 DEF RegistriesInv
  <2> QED
    BY <2>6 DEF IsRegistered, GraphState
<1>7. CASE load.after = "graphs" /\ ClearLoraAliases(h, d)
  BY <1>1, <1>7 DEF ClearLoraAliases, Loads
<1>8. \/ load.after = "graphs" /\ h.name \notin load.inFile /\ d = NoName
         /\ CreateGraph(h)
      \/ load.after = "graphs" /\ h.name \notin load.inFile /\ d # NoName
         /\ ~IsReloadRequired(d, h) /\ UNCHANGED <<graphs, aliases, unchecked>>
      \/ load.after = "reload"
         /\ ReloadGraph(h, CHOOSE m \in Names : graphs[m].state = "reloading")
      \/ load.after = "graphs" /\ ClearLoraAliases(h, d)
  BY DEF ProcessMediapipeConfig
<1> QED
  BY <1>4, <1>5, <1>6, <1>7, <1>8

LEMMA ProcessMediapipeApplies ==
    ASSUME NamesInv, ReadInv, AppliedInv, ProcessMediapipeConfig
    PROVE  GraphsAppliedInv'
<1> DEFINE list == load.graphs
           todo == load.todo
           h == Head(todo)
<1>1. /\ load \in Loads /\ RegistriesInv /\ LoadInv /\ ReloadingInv
      /\ GraphsAppliedInv /\ TypeInv
  BY DEF NamesInv, TypeInv, LoadInv, AppliedInv
<1>2. /\ load.stage = "graphs" /\ todo # <<>>
      /\ h \in GraphEntries /\ h.name \in Names
  BY <1>1, ProcessMediapipeDoes
<1>3. PICK k \in DOMAIN list :
         /\ h = list[k]
         /\ k \notin GraphsDone(load) /\ 1 .. k - 1 = GraphsDone(load)
         /\ Read(Tail(todo), list) = GraphsDone(load) \cup {k}
  BY <1>1, <1>2, NextGraphEntry
<1>4. load.inFile = NamesRead(GraphsDone(load), list)
  BY <1>1, <1>2 DEF GraphsAppliedInv
<1>5. CASE load.after = "graphs" /\ h.name \notin load.inFile
           /\ ClearLoraAliases(h, FindGraph(h.name))
  <2>1. /\ load'.stage = "graphs" /\ load'.graphs = list
        /\ load'.todo = todo /\ load'.inFile = load.inFile
    BY <1>1, <1>2, <1>5 DEF ClearLoraAliases, Loads
  <2>2. GraphsDone(load') = GraphsDone(load)
    BY <1>2, <2>1 DEF GraphsDone
  <2> QED
    BY <1>4, <1>5, <2>1, <2>2, HandledGraphsStay, AppliedPrimed
<1>6. CASE /\ load'.stage = "graphs" /\ load'.graphs = list
           /\ load'.todo = Tail(todo) /\ load'.after = "graphs"
           /\ load'.inFile = load.inFile \cup {h.name}
  <2>1. GraphsDone(load') = GraphsDone(load) \cup {k}
    BY <1>3, <1>6 DEF GraphsDone
  <2>2. load'.inFile = NamesRead(GraphsDone(load'), list)
    BY <1>3, <1>4, <1>6, <2>1 DEF NamesRead
  <2>3. ASSUME FirstAt(list, k), StandsAlone(list[k], list)
        PROVE  GraphApplied(k)'
    <3>1. h.name \notin load.inFile
      <4> SUFFICES ASSUME h.name \in load.inFile PROVE FALSE
        OBVIOUS
      <4>1. PICK j \in GraphsDone(load) : list[j].name = h.name
        BY <1>4 DEF NamesRead
      <4>2. j \in 1 .. k - 1
        BY <1>3
      <4> QED
        BY <1>3, <2>3, <4>1, <4>2 DEF FirstAt
    <3>2. load'.error = "OK" => /\ IsRegistered(graphs', h.name)
                                /\ graphs'[h.name].ver = h.ver
      BY <1>3, <1>6, <2>3, <3>1, EntryApplied
    <3> QED
      BY <1>3, <1>6, <3>2, GraphAppliedPrimed
  <2> QED
    BY <1>6, <2>1, <2>2, <2>3, HandledGraphsStay, AppliedPrimed
<1>7. \/ load.after = "graphs" /\ h.name \notin load.inFile
         /\ ClearLoraAliases(h, FindGraph(h.name))
      \/ /\ load'.stage = "graphs" /\ load'.graphs = list
         /\ load'.todo = Tail(todo) /\ load'.after = "graphs"
         /\ load'.inFile = load.inFile \cup {h.name}
  BY <1>1, <1>2 DEF ProcessMediapipeConfig, CreateGraph, ReloadGraph, NextGraph, Loads
<1> QED
  BY <1>5, <1>6, <1>7

\* The graphs, in every step of a load.
LEMMA GraphsApply ==
    ASSUME NamesInv, ReadInv, AppliedInv, LoadStep
    PROVE  GraphsAppliedInv'
<1> DEFINE list == load.graphs
<1>1. load \in Loads /\ LoadInv /\ RegistriesInv /\ ReloadingInv /\ TypeInv
      /\ EarlyInv /\ GraphsAppliedInv /\ list \in Seq(GraphEntries)
  BY EntriesOfGraphs DEF NamesInv, TypeInv, LoadInv, AppliedInv
<1>2. CASE ParseConfig
  <2>1. /\ load'.stage \in {"read", "ended", "loaders"}
        /\ load'.graphs = <<>>
    BY <1>1, <1>2 DEF ParseConfig, EndLoad, Loads, EarlyInv
  <2>2. GraphsDone(load') = {}
    BY <2>1 DEF GraphsDone
  <2> QED
    BY <2>1, <2>2, AppliedPrimed
<1>3. CASE \/ LoadCustomLoadersConfig \/ ParseMediapipeConfig
           \/ RetireModelsRemovedFromConfigFile
           \/ LoadCustomNodeLibrariesConfig \/ ProcessPipelineConfig
  <2>1. load'.stage \in {"parse", "models", "libraries", "pipelines"}
    BY <1>1, <1>3 DEF LoadCustomLoadersConfig, ParseMediapipeConfig,
       RetireModelsRemovedFromConfigFile, LoadCustomNodeLibrariesConfig,
       ProcessPipelineConfig, Loads
  <2> QED
    BY <2>1, EarlierSections
<1>4. CASE LoadModel
  <2>1. load'.stage = "models"
    BY <1>1, <1>4, EntryDoes
  <2> QED
    BY <2>1, EarlierSections
<1>5. CASE LoadMediapipeSubConfigModels
  <2>1. load'.stage \in {"models", "subs", "retire"}
    BY <1>1, <1>5 DEF LoadMediapipeSubConfigModels, Loads
  <2> QED
    BY <2>1, EarlierSections
<1>6. CASE RetirePipelinesOtherThan
  <2>1. /\ load'.stage = "graphs" /\ load'.graphs = list
        /\ load'.inFile = {} /\ load'.todo = list /\ load'.after = "retire"
    BY <1>1, <1>6 DEF RetirePipelinesOtherThan, Loads
  <2>2. GraphsDone(load') = {}
    BY <1>1, <2>1, NothingRead DEF GraphsDone
  <2>3. NamesRead({}, list) = {}
    BY DEF NamesRead
  <2> QED
    BY <2>1, <2>2, <2>3, AppliedPrimed
<1>7. CASE RetireGraphsOtherThan
  <2>1. /\ load.stage = "graphs" /\ load'.stage = "graphs"
        /\ load'.graphs = list /\ load'.todo = load.todo
        /\ load'.inFile = load.inFile /\ load'.after = "graphs"
    BY <1>1, <1>7 DEF RetireGraphsOtherThan, Loads
  <2>2. GraphsDone(load') = GraphsDone(load)
    BY <2>1 DEF GraphsDone
  <2>3. ASSUME NEW i \in GraphsDone(load), FirstAt(list, i),
               StandsAlone(list[i], list)
        PROVE  GraphApplied(i)'
    <3> DEFINE n == list[i].name
    <3>1. n \in Names
      <4>1. n \in load.inFile
        BY <1>1, <2>1 DEF GraphsAppliedInv, NamesRead
      <4> QED
        BY <1>1, <4>1 DEF Loads
    <3>2. /\ graphs'[n].ver = graphs[n].ver
          /\ IsRegistered(graphs, n) => IsRegistered(graphs', n)
      <4> HIDE DEF n
      <4>1. \/ graphs'[n] = graphs[n]
            \/ graphs'[n] = [graphs[n] EXCEPT !.state = "retired"]
        BY <1>7, <3>1 DEF RetireGraphsOtherThan
      <4>2. graphs[n] \in Graphs
        BY <1>1, <3>1 DEF RegistriesInv
      <4> QED
        BY <4>1, <4>2 DEF Graphs, IsRegistered
    <3> QED
      BY <1>1, <1>7, <2>1, <2>3, <3>2, GraphStays DEF LoadStep
  <2> QED
    BY <1>1, <2>1, <2>2, <2>3, AppliedPrimed DEF GraphsAppliedInv
<1>8. CASE ProcessMediapipeConfig
  BY <1>8, ProcessMediapipeApplies
<1>9. CASE TryReloadGatedModelConfigs \/ FinishLoad
  <2>1. /\ load'.graphs = list /\ UNCHANGED graphs
        /\ load'.stage \in {"gated", "ended"}
        /\ \/ load.stage = "gated"
           \/ load.stage = "graphs" /\ load.todo = <<>>
    BY <1>1, <1>9 DEF TryReloadGatedModelConfigs, FinishLoad, EndLoad, Loads,
       registries
  <2>2. GraphsDone(load) = DOMAIN list /\ GraphsDone(load') = DOMAIN list
    BY <1>1, <2>1, AllRead DEF GraphsDone
  <2>3. ASSUME NEW i \in DOMAIN list, FirstAt(list, i),
               StandsAlone(list[i], list)
        PROVE  GraphApplied(i)'
    BY <1>1, <2>1, <2>2, <2>3, GraphStays DEF IsRegistered
  <2> QED
    BY <2>1, <2>2, <2>3, AppliedPrimed
<1> QED
  BY <1>2, <1>3, <1>4, <1>5, <1>6, <1>7, <1>8, <1>9 DEF LoadStep

-----------------------------------------------------------------------------
(* What is left after a load *)

LEMMA StepApplies ==
    ASSUME NamesInv, ReadInv, AppliedInv, LoadStep
    PROVE  AppliedInv'
BY ModelsApply, PipelinesApply, GraphsApply DEF AppliedInv

LEMMA AppliedKept ==
    ASSUME AppliedInv, load' = load, broken' = broken, UNCHANGED registries
    PROVE  AppliedInv'
<1>1. /\ UNCHANGED <<models, pipelines, graphs, aliases, unchecked, loaders,
                     libraries>>
  BY DEF registries
<1>2. EarlyInv' /\ ListedInv' /\ GatedAutoInv'
  BY AppliedPrimed DEF AppliedInv, EarlyInv, ListedInv, GatedAutoInv
<1>3. ModelsAppliedInv'
  <2> SUFFICES ASSUME NEW i \in ModelsDone(load), WantedAt(load.doc.models, i)
               PROVE  ModelApplied(i)'
    BY AppliedPrimed
  <2>1. ModelApplied(i)
    BY DEF AppliedInv, ModelsAppliedInv
  <2> QED
    BY <1>1, <2>1, ModelAppliedPrimed
       DEF ModelApplied, Contained, InForce, Occupied, Refused, Listing,
           PipelineExists, GraphExists, ModelExists, IsRegistered, Serves
<1>4. PipelinesAppliedInv'
  <2> SUFFICES ASSUME NEW i \in PipelinesDone(load),
                      FirstAt(load.doc.pipelines, i)
               PROVE  PipelineApplied(i)'
    BY AppliedPrimed DEF AppliedInv, PipelinesAppliedInv
  <2>1. PipelineApplied(i)
    BY DEF AppliedInv, PipelinesAppliedInv
  <2> QED
    BY <1>1, <2>1, PipelineAppliedPrimed
       DEF PipelineApplied, Fits, PipelineExists, IsRegistered, Serves
<1>5. GraphsAppliedInv'
  <2> SUFFICES ASSUME NEW i \in GraphsDone(load), FirstAt(load.graphs, i),
                      StandsAlone(load.graphs[i], load.graphs)
               PROVE  GraphApplied(i)'
    BY AppliedPrimed DEF AppliedInv, GraphsAppliedInv
  <2>1. GraphApplied(i)
    BY DEF AppliedInv, GraphsAppliedInv
  <2> QED
    BY <1>1, <2>1, GraphAppliedPrimed DEF GraphApplied, IsRegistered
<1> QED
  BY <1>2, <1>3, <1>4, <1>5 DEF AppliedInv

\* Nothing has been handled before a load, and when it begins.
LEMMA NothingApplied ==
    /\ load \in {NoLoad, NewLoad} => AppliedInv
    /\ load' \in {NoLoad, NewLoad} => AppliedInv'
<1>1. ASSUME NEW l \in {NoLoad, NewLoad}
      PROVE  /\ l.stage \in {"none", "read"} /\ l.doc = EmptyFile
             /\ l.graphs = <<>> /\ l.inFile = {} /\ l.gated = <<>>
             /\ ModelsDone(l) = {} /\ PipelinesDone(l) = {}
             /\ GraphsDone(l) = {}
  BY DEF NoLoad, NewLoad, ModelsDone, PipelinesDone, GraphsDone
<1>2. ASSUME load \in {NoLoad, NewLoad} PROVE AppliedInv
  BY <1>1, <1>2 DEF AppliedInv, EarlyInv, ListedInv, GatedAutoInv,
     ModelsAppliedInv, PipelinesAppliedInv, GraphsAppliedInv
<1>3. ASSUME load' \in {NoLoad, NewLoad} PROVE AppliedInv'
  BY <1>1, <1>3, AppliedPrimed DEF AppliedInv
<1> QED
  BY <1>2, <1>3

\* While there is a load, only its steps change what it speaks of: whoever
\* loads holds configMtx.
LEMMA ThreadsApply ==
    ASSUME TypeInv, AppliedInv, ThreadStep
    PROVE  AppliedInv'
<1>1. LoadInv /\ OwnerInv
  BY DEF TypeInv
<1>2. CASE load' \in {NoLoad, NewLoad}
  BY <1>2, NothingApplied
<1>3. CASE load' = load /\ load.stage = "none"
  <2>1. /\ ModelsDone(load') = {} /\ PipelinesDone(load') = {}
        /\ GraphsDone(load') = {}
    BY <1>3 DEF ModelsDone, PipelinesDone, GraphsDone
  <2> QED
    BY <1>3, <2>1, AppliedPrimed DEF AppliedInv, GatedAutoInv
<1>4. CASE load' = load /\ load.stage # "none"
  <2>1. PICK t \in Threads : at[t] \in {"start", "load"} /\ owner = t
    BY <1>1, <1>4 DEF OwnerInv
  <2>2. owner # NoOne /\ at[Watcher] # "update"
    BY <1>1, <2>1, ThreadsAssumption DEF OwnerInv, Threads
  <2>3. broken' = broken /\ UNCHANGED registries
    <3> USE DEF outside
    <3>1. CASE WatcherCycle \/ WatcherLoaded \/ WatcherUpdate
      BY <2>2, <3>1 DEF WatcherCycle, WatcherLoaded, WatcherUpdate
    <3>2. CASE \E c \in Clients : \/ Request(c) \/ ClientChecks(c)
                                  \/ ClientLoads(c) \/ ClientLoaded(c)
                                  \/ ClientUpdates(c)
      BY <2>2, <3>2 DEF Request, ClientChecks, ClientLoads, ClientLoaded,
         ClientUpdates
    <3>3. CASE \/ \E content \in Contents : EditFile(content)
               \/ \E n \in Fragile : Break(n)
      BY <2>2, <3>3 DEF EditFile, Break
    <3> QED
      BY <3>1, <3>2, <3>3 DEF ThreadStep
  <2> QED
    BY <1>4, <2>3, AppliedKept
<1> QED
  BY <1>1, <1>2, <1>3, <1>4, ThreadStepDoes

LEMMA NextApplies ==
    ASSUME NamesInv, ReadInv, AppliedInv, [ConfigNext]_configVars
    PROVE  AppliedInv'
<1>1. CASE LoadStep
  BY <1>1, StepApplies
<1>2. CASE ThreadStep
  BY <1>2, ThreadsApply DEF NamesInv
<1>3. CASE UNCHANGED configVars
  BY <1>3, AppliedKept DEF configVars, outside
<1> QED
  BY <1>1, <1>2, <1>3 DEF ConfigNext, ThreadStep

LEMMA InitApplies ==
    ConfigInit => AppliedInv
BY NothingApplied DEF ConfigInit

\* The invariants say what LoadApplied says of a load that has ended.
LEMMA EndedIsApplied ==
    ASSUME NamesInv, AppliedInv
    PROVE  LoadApplied
<1>1. /\ load \in Loads /\ TypeInv /\ RegistriesInv
  BY DEF NamesInv, TypeInv, LoadInv
<1>2. ConfigTypeOK
  BY <1>1 DEF TypeInv, ConfigTypeOK, OwnerInv, RegistriesInv, LoadInv, Loads,
     Models, Pipelines, Graphs, ModelStates, PipelineStates, GraphStates
<1>3. ASSUME Loaded, NEW w \in Wanted(load.doc)
      PROVE  /\ \/ Runs(w) \/ w.name \in broken \/ Refused(w.name)
                \/ LoaderMissing(w) \/ w.config.auto
             /\ load.error = "OK" => Runs(w) \/ LoaderMissing(w)
  <2>1. PICK i \in DOMAIN load.doc.models :
           /\ WantedAt(load.doc.models, i)
           /\ w.name = load.doc.models[i].name
           /\ w.config = Config(load.doc.models[i])
    BY <1>1, WantedEntries
  <2>2. ModelsDone(load) = DOMAIN load.doc.models /\ ~Listing
    BY <1>3 DEF Loaded, ModelsDone, Listing
  <2>3. ModelApplied(i)
    BY <2>1, <2>2 DEF AppliedInv, ModelsAppliedInv
  <2> QED
    BY <2>1, <2>2, <2>3 DEF ModelApplied, Contained, InForce, Runs,
       LoaderMissing
<1>4. ASSUME Loaded, NEW p \in FirstOf(load.doc.pipelines)
      PROVE  /\ Validates(p.name, p) /\ PipelineExists(p.name)
                /\ ~IsAlias(p.name)
                   => Serves(pipelines, p.name)
             /\ load.error = "OK" => /\ Serves(pipelines, p.name)
                                     /\ pipelines[p.name].uses = p.uses
  <2>1. PICK i \in DOMAIN load.doc.pipelines :
           p = load.doc.pipelines[i] /\ FirstAt(load.doc.pipelines, i)
    BY DEF FirstOf, FirstAt
  <2>2. PipelineApplied(i)
    BY <1>4, <2>1 DEF AppliedInv, PipelinesAppliedInv, PipelinesDone, Loaded
  <2> QED
    BY <2>1, <2>2 DEF PipelineApplied, Validates, Fits
<1>5. ASSUME Loaded, NEW g \in FirstOf(load.graphs), load.error = "OK",
             StandsAlone(g, load.graphs)
      PROVE  IsRegistered(graphs, g.name) /\ graphs[g.name].ver = g.ver
  <2>1. PICK i \in DOMAIN load.graphs :
           g = load.graphs[i] /\ FirstAt(load.graphs, i)
    BY DEF FirstOf, FirstAt
  <2>2. GraphApplied(i)
    BY <1>5, <2>1 DEF AppliedInv, GraphsAppliedInv, GraphsDone, Loaded
  <2> QED
    BY <1>5, <2>1, <2>2 DEF GraphApplied
<1>6. FailureContained
  BY <1>3, <1>4 DEF FailureContained
<1>7. OkMeansApplied
  <2> SUFFICES ASSUME Loaded, load.error = "OK" PROVE OkMeansApplied
    BY DEF OkMeansApplied
  <2> QED
    BY <1>3, <1>4, <1>5 DEF OkMeansApplied
<1> QED
  BY <1>2, <1>6, <1>7 DEF LoadApplied

-----------------------------------------------------------------------------
(* Theorems *)

\* A name stands for one servable only, in every state of every load, whatever
\* the files hold and whatever fails: the occupation checks of loadModels,
\* PipelineDefinition::validate and MediapipeGraphDefinition::validate are
\* enough. An alias counts unless it was registered without its check, by a
\* graph whose queue could not be initialized, or is the name of its own graph.
THEOREM NamesStandForOne == ConfigSpec => []NamesAreExclusive
<1>1. ConfigInit => NamesInv
  BY InitNames
<1>2. NamesInv /\ [ConfigNext]_configVars => NamesInv'
  BY NextKeepsNames, StutterKeepsNames
<1>3. NamesInv => NamesAreExclusive
  BY OnlyOneUse DEF NamesInv
<1> QED
  BY <1>1, <1>2, <1>3, PTL DEF ConfigSpec

\* Every request that is answered OK, of a load or of no need for one, is
\* answered about a content the file had while it was made:
\* processConfigReloadRequest lets configMtx go between its calls, and the
\* watcher may load in between.
THEOREM RestSpeaksTruth == ConfigSpec => RestAnswersTruth
<1> DEFINE Inv == TypeInv /\ SeesInv
           Told == \A c \in Clients :
                      answer[c] = "none"
                      /\ answer'[c] \in {"OK_RELOADED", "OK_NOT_RELOADED"}
                         => md5 \in sees[c]
<1>1. ConfigInit => Inv
  BY InitNames DEF NamesInv
<1>2. Inv /\ [ConfigNext]_configVars => Inv'
  <2>1. ASSUME Inv, ConfigNext PROVE Inv'
    BY <2>1, TypesKept, NextKeepsSees
  <2>2. ASSUME Inv, UNCHANGED configVars PROVE Inv'
    <3>1. SeesInv'
      BY <2>2 DEF SeesInv, configVars, outside, threads, Contents
    <3> QED
      BY <2>2, <3>1, StutterKeepsTypes
  <2> QED
    BY <2>1, <2>2
<1>3. Inv /\ [ConfigNext]_configVars => [Told]_configVars
  <2> SUFFICES ASSUME Inv, ConfigNext, NEW c \in Clients, answer[c] = "none",
                      answer'[c] \in {"OK_RELOADED", "OK_NOT_RELOADED"}
               PROVE  md5 \in sees[c]
    OBVIOUS
  <2> QED
    BY AnswersComeFromUpdates
<1> QED
  BY <1>1, <1>2, <1>3, PTL DEF ConfigSpec, RestAnswersTruth

\* A model that serves with the configuration the file has for it keeps what it
\* has in every step of every load: loadModels tries the first entry of a name,
\* retireModelsRemovedFromConfigFile knows every name that was tried, and
\* tryReloadGatedModelConfigs tries the same configuration again. A graph that
\* is as the file has it stays too, unless an entry has the name of one of its
\* aliases.
THEOREM UnchangedStays == ConfigSpec => UnchangedNotInterrupted
<1> DEFINE Inv == TypeInv /\ ReadInv
           Stays ==
              LoadStep /\ load.stage # "read" =>
              /\ \A w \in Wanted(load.doc) :
                    Runs(w) /\ ~Occupied(w.name) /\ ~LoaderMissing(w)
                        => models'[w.name] = models[w.name]
              /\ \A g \in FirstOf(load.graphs) :
                    /\ Serves(graphs, g.name) /\ graphs[g.name].ver = g.ver
                    /\ load.stage \in {"graphs", "gated"}
                    /\ \A h \in Entries(load.graphs) :
                          h.name # g.name => aliases[h.name] # g.name
                    => graphs'[g.name] = graphs[g.name]
<1>1. ConfigInit => Inv
  BY InitNames, InitReads DEF NamesInv
<1>2. Inv /\ [ConfigNext]_configVars => Inv'
  BY TypesKept, StutterKeepsTypes, NextReads
<1>3. Inv /\ [ConfigNext]_configVars => [Stays]_configVars
  BY ModelsAreLeftAlone, GraphsAreLeftAlone
<1> QED
  BY <1>1, <1>2, <1>3, PTL DEF ConfigSpec, UnchangedNotInterrupted

\* After every load, whatever the file holds and whatever fails, each valid
\* model that can be loaded serves as the file says and each pipeline whose
\* models serve is available; and loadConfig returns OK only when all of the
\* file is in force. The exceptions are those of LoadApplied. A servable that
\* was handled early in a load is still so at its end: retirement, the later
\* sections and tryReloadGatedModelConfigs take nothing back.
THEOREM LoadsAreApplied == ConfigSpec => []LoadApplied
<1> DEFINE Inv == NamesInv /\ ReadInv /\ AppliedInv
<1>1. ConfigInit => Inv
  BY InitNames, InitReads, InitApplies
<1>2. Inv /\ [ConfigNext]_configVars => Inv'
  BY NextKeepsNames, StutterKeepsNames, NextReads, NextApplies DEF NamesInv
<1>3. Inv => LoadApplied
  BY EndedIsApplied
<1> QED
  BY <1>1, <1>2, <1>3, PTL DEF ConfigSpec
=============================================================================

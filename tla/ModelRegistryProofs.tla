------------------------- MODULE ModelRegistryProofs -------------------------
(***************************************************************************)
(* ModelRegistry for every number of calls and requests, every list of     *)
(* backends and every behaviour of the servers: types, that a change of    *)
(* the list is never forgotten, and that requests go where they should.    *)
(*                                                                         *)
(* First the facts about the operators of Routing, for every table:        *)
(* sorting and filtering lose, repeat and invent nothing, and the choice   *)
(* the code makes with its sort, its index and its first hits is the       *)
(* reference one.                                                          *)
(***************************************************************************)
EXTENDS ModelRegistry, FiniteSetTheorems, FunctionTheorems, SequenceTheorems, TLAPS

(***************************************************************************)
(* InOrder(positions, key) lists every position once, by key.  The number  *)
(* of positions up to i is an injection into 1..n, hence onto it.          *)
(***************************************************************************)
LEMMA InOrderEnumerates ==
  ASSUME NEW I \in SUBSET Int, IsFiniteSet(I), NEW key \in [I -> Int]
  PROVE  LET o == InOrder(I, key) IN
         /\ Cardinality(I) \in Nat
         /\ o \in [1..Cardinality(I) -> I]
         /\ \A i \in I : \E k \in 1..Cardinality(I) : o[k] = i
         /\ \A k, l \in 1..Cardinality(I) : k <= l <=> GoesBefore(key, o[k], o[l])
<1> DEFINE n == Cardinality(I)
           Rank(i) == Cardinality(UpTo(I, key, i))
           o == InOrder(I, key)
<1>0. n \in Nat
  BY FS_CardinalityType
<1>1. ASSUME NEW i \in I
      PROVE  /\ IsFiniteSet(UpTo(I, key, i)) /\ i \in UpTo(I, key, i)
             /\ Rank(i) \in 1..n
  <2>1. UpTo(I, key, i) \in SUBSET I /\ i \in UpTo(I, key, i)
    BY DEF UpTo, GoesBefore
  <2>2. IsFiniteSet(UpTo(I, key, i)) /\ Rank(i) <= n
    BY <2>1, FS_Subset
  <2>3. Rank(i) \in Nat /\ Rank(i) # 0
    BY <2>1, <2>2, FS_CardinalityType, FS_EmptySet
  <2> QED BY <1>0, <2>1, <2>2, <2>3
<1>2. ASSUME NEW i \in I, NEW j \in I, GoesBefore(key, j, i), i # j
      PROVE  Rank(j) < Rank(i)
  <2>1. UpTo(I, key, j) \in SUBSET UpTo(I, key, i)
    <3> SUFFICES ASSUME NEW x \in I, GoesBefore(key, x, j)
                 PROVE  GoesBefore(key, x, i)
      BY DEF UpTo
    <3>1. key[x] \in Int /\ key[j] \in Int /\ key[i] \in Int
      OBVIOUS
    <3> QED BY <1>2, <3>1 DEF GoesBefore
  <2>2. i \notin UpTo(I, key, j)
    BY <1>2 DEF UpTo, GoesBefore
  <2>3. Rank(j) <= Rank(i) /\ Rank(j) # Rank(i)
    BY <1>1, <2>1, <2>2, FS_Subset
  <2> QED BY <1>1, <2>3
<1>3. \A i, j \in I : i # j => GoesBefore(key, i, j) \/ GoesBefore(key, j, i)
  BY DEF GoesBefore
<1>4. \A i, j \in I : Rank(i) <= Rank(j) <=> GoesBefore(key, i, j)
  <2> SUFFICES ASSUME NEW i \in I, NEW j \in I
               PROVE  Rank(i) <= Rank(j) <=> GoesBefore(key, i, j)
    OBVIOUS
  <2>1. Rank(i) \in Int /\ Rank(j) \in Int
    BY <1>1, <1>0
  <2>2. CASE i = j
    BY <2>1, <2>2 DEF GoesBefore
  <2>3. CASE i # j /\ GoesBefore(key, i, j)
    BY <1>2, <2>1, <2>3
  <2>4. CASE i # j /\ ~GoesBefore(key, i, j)
    BY <1>2, <1>3, <2>1, <2>4
  <2> QED BY <2>2, <2>3, <2>4
<1>5. \A k \in 1..n : \E i \in I : Rank(i) = k
  <2> DEFINE f == [i \in I |-> Rank(i)]
  <2>1. f \in [I -> 1..n]
    BY <1>1
  <2>2. \A i, j \in I : f[i] = f[j] => i = j
    BY <1>1, <1>2, <1>3
  <2>3. f \in Injection(I, 1..n)
    BY <2>1, <2>2 DEF Injection, IsInjective
  <2>4. IsFiniteSet(1..n) /\ Cardinality(1..n) = n
    BY <1>0, FS_Interval
  <2>5. f \in Surjection(I, 1..n)
    BY <2>3, <2>4, FS_Injection
  <2> QED BY <2>5 DEF Surjection
<1>6. o = [k \in 1..n |-> CHOOSE i \in I : Rank(i) = k]
  BY DEF InOrder
<1>7. \A k \in 1..n : o[k] \in I /\ Rank(o[k]) = k
  BY <1>5, <1>6
<1>8. o \in [1..n -> I]
  BY <1>6, <1>7
<1>9. \A i \in I : \E k \in 1..n : o[k] = i
  <2> SUFFICES ASSUME NEW i \in I PROVE o[Rank(i)] = i
    BY <1>1
  <2> DEFINE j == o[Rank(i)]
  <2>1. Rank(j) = Rank(i) /\ j \in I /\ Rank(i) \in Int
    BY <1>1, <1>7, <1>0
  <2>2. CASE j # i
    <3> HIDE DEF j
    <3> QED BY <1>2, <1>3, <2>1, <2>2
  <2> QED BY <2>2
<1>10. \A k, l \in 1..n : k <= l <=> GoesBefore(key, o[k], o[l])
  BY <1>4, <1>7
<1> QED BY <1>0, <1>8, <1>9, <1>10

(***************************************************************************)
(* The positions of a sequence.                                            *)
(***************************************************************************)
LEMMA Positions ==
  ASSUME NEW S, NEW s \in Seq(S)
  PROVE  /\ Len(s) \in Nat /\ DOMAIN s = 1..Len(s) /\ DOMAIN s \in SUBSET Int
         /\ IsFiniteSet(DOMAIN s) /\ Cardinality(DOMAIN s) = Len(s)
         /\ \A I \in SUBSET (DOMAIN s) : I \in SUBSET Int /\ IsFiniteSet(I)
<1>1. Len(s) \in Nat /\ DOMAIN s = 1..Len(s)
  BY LenProperties
<1>2. IsFiniteSet(1..Len(s)) /\ Cardinality(1..Len(s)) = Len(s)
  <2>1. IsFiniteSet(1..Len(s))
        /\ Cardinality(1..Len(s)) = IF 1 > Len(s) THEN 0 ELSE Len(s) - 1 + 1
    BY <1>1, FS_Interval
  <2> QED BY <1>1, <2>1
<1>3. 1..Len(s) \in SUBSET Int
  BY <1>1
<1> QED BY <1>1, <1>2, <1>3, FS_Subset

LEMMA ElementType ==
  ASSUME NEW S, NEW s \in Seq(S), NEW i \in DOMAIN s
  PROVE  s[i] \in S
  BY ElementOfSeq, Positions

(***************************************************************************)
(* Arranging elements of a sequence gives a sequence of the same type.     *)
(***************************************************************************)
LEMMA ArrangeType ==
  ASSUME NEW S, NEW s \in Seq(S), NEW I \in SUBSET (DOMAIN s), NEW key \in [I -> Int]
  PROVE  Arrange(s, I, key) \in Seq(S)
<1>1. I \in SUBSET Int /\ IsFiniteSet(I)
  BY Positions
<1> DEFINE n == Cardinality(I)
           o == InOrder(I, key)
<1>2. n \in Nat /\ o \in [1..n -> I]
  BY <1>1, InOrderEnumerates
<1>3. \A k \in 1..n : s[o[k]] \in S
  BY <1>2, ElementOfSeq
<1>4. Arrange(s, I, key) = [k \in 1..n |-> s[o[k]]]
  BY <1>2 DEF Arrange
<1> QED BY <1>2, <1>3, <1>4

LEMMA KeepType ==
  ASSUME NEW S, NEW s \in Seq(S), NEW I \in SUBSET (DOMAIN s)
  PROVE  Keep(s, I) \in Seq(S)
<1>1. [i \in I |-> 0] \in [I -> Int]
  OBVIOUS
<1> QED BY <1>1, ArrangeType DEF Keep

(***************************************************************************)
(* Sorting keeps the type and the elements, and sorts.                     *)
(***************************************************************************)
LEMMA SortProperties ==
  ASSUME NEW S, NEW s \in Seq(S), Sortable(s)
  PROVE  LET t == SortByPriority(s) IN
         /\ t \in Seq(S) /\ Len(t) = Len(s)
         /\ Sortable(t) /\ IsSorted(t)
         /\ {t[i] : i \in DOMAIN t} = {s[i] : i \in DOMAIN s}
<1> DEFINE I   == DOMAIN s
           n   == Cardinality(I)
           key == [i \in I |-> s[i].config.priority]
           o   == InOrder(I, key)
           t   == SortByPriority(s)
<1>1. /\ I \in SUBSET Int /\ IsFiniteSet(I) /\ n = Len(s) /\ n \in Nat
      /\ I = 1..n
  BY Positions
<1>2. key \in [I -> Int]
  BY DEF Sortable
<1>3. /\ o \in [1..n -> I]
      /\ \A i \in I : \E k \in 1..n : o[k] = i
      /\ \A k, l \in 1..n : k <= l <=> GoesBefore(key, o[k], o[l])
  BY <1>1, <1>2, InOrderEnumerates
<1>4. t = [k \in 1..n |-> s[o[k]]]
  BY <1>3 DEF SortByPriority, Arrange
<1>5. t \in Seq(S)
  BY <1>2, ArrangeType DEF SortByPriority
<1>6. DOMAIN t = 1..n
  BY <1>4
<1>7. Len(t) = Len(s)
  BY <1>1, <1>5, <1>6, LenProperties
<1>8. \A k \in 1..n : t[k].config.priority = key[o[k]] /\ key[o[k]] \in Int
  BY <1>2, <1>3, <1>4
<1>9. Sortable(t)
  BY <1>6, <1>8 DEF Sortable
<1>10. IsSorted(t)
  <2> SUFFICES ASSUME NEW i \in 1..n, NEW j \in 1..n, i <= j
               PROVE  t[i].config.priority <= t[j].config.priority
    BY <1>6 DEF IsSorted
  <2> HIDE DEF key, o, t
  <2> QED BY <1>3, <1>8 DEF GoesBefore
<1>11. ASSUME NEW k \in DOMAIN t PROVE t[k] \in {s[i] : i \in DOMAIN s}
  <2>1. o[k] \in DOMAIN s /\ t[k] = s[o[k]]
    BY <1>3, <1>4, <1>6
  <2> QED BY <2>1
<1>12. ASSUME NEW i \in DOMAIN s PROVE s[i] \in {t[k] : k \in DOMAIN t}
  <2>1. PICK k \in 1..n : o[k] = i
    BY <1>3
  <2> QED BY <1>4, <1>6, <2>1
<1> QED BY <1>5, <1>7, <1>9, <1>10, <1>11, <1>12

(***************************************************************************)
(* A non-empty finite set of positions has a first one by any key.         *)
(***************************************************************************)
LEMMA FirstExists ==
  ASSUME NEW I \in SUBSET Int, IsFiniteSet(I), I # {}, NEW key \in [I -> Int]
  PROVE  \E i \in I : \A j \in I : GoesBefore(key, i, j)
<1> DEFINE n == Cardinality(I)
           o == InOrder(I, key)
<1>1. /\ n \in Nat
      /\ o \in [1..n -> I]
      /\ \A i \in I : \E k \in 1..n : o[k] = i
      /\ \A k, l \in 1..n : k <= l <=> GoesBefore(key, o[k], o[l])
  BY InOrderEnumerates
<1> HIDE DEF o, n
<1>2. 1 \in 1..n
  <2>1. PICK i \in I : TRUE
    OBVIOUS
  <2>2. PICK k \in 1..n : o[k] = i
    BY <1>1, <2>1
  <2> QED BY <1>1, <2>2
<1>3. \A j \in I : GoesBefore(key, o[1], j)
  BY <1>1, <1>2
<1> QED BY <1>1, <1>2, <1>3

\* The positions of the healthy entries that list the model.
Holders(entries, m) == {i \in Healthy(entries) : m \in entries[i].models}

(***************************************************************************)
(* ResolveBackend finds the first healthy entry that lists the model, and  *)
(* nothing only when there is none.                                        *)
(***************************************************************************)
LEMMA ResolveFindsFirst ==
  ASSUME NEW S, NEW es \in Seq(S), NEW m
  PROVE  \/ Holders(es, m) = {} /\ ResolveBackend(es, m) = None
         \/ \E i \in Holders(es, m) :
              /\ ResolveBackend(es, m) = es[i].config
              /\ \A j \in Holders(es, m) : i <= j
<1> DEFINE L == Listing(es, m)
           n == Cardinality(L)
           o == InOrder(L, [i \in L |-> 0])
           index == ModelIndex(es)
           listed == IF m \in DOMAIN index THEN index[m] ELSE <<>>
           healthy == {k \in DOMAIN listed : es[listed[k]].healthy}
           first == CHOOSE k \in healthy : \A l \in healthy : k <= l
<1>1. L \in SUBSET Int /\ IsFiniteSet(L)
  BY Positions DEF Listing
<1>2. [i \in L |-> 0] \in [L -> Int]
  OBVIOUS
<1>3. /\ n \in Nat
      /\ o \in [1..n -> L]
      /\ \A i \in L : \E k \in 1..n : o[k] = i
      /\ \A k, l \in 1..n : k <= l <=> GoesBefore([i \in L |-> 0], o[k], o[l])
  BY <1>1, <1>2, InOrderEnumerates
<1>4. ASSUME NEW k \in 1..n, NEW l \in 1..n, k <= l PROVE o[k] <= o[l]
  <2> HIDE DEF n, o, L
  <2>1. o[k] \in L /\ o[l] \in L /\ GoesBefore([i \in L |-> 0], o[k], o[l])
    BY <1>3, <1>4
  <2> QED BY <1>1, <2>1 DEF GoesBefore
<1>5. ResolveBackend(es, m)
        = IF healthy = {} THEN None ELSE es[listed[first]].config
  BY DEF ResolveBackend
<1>6. CASE L = {}
  <2>1. m \notin DOMAIN index
    BY <1>6 DEF ModelIndex, Listing
  <2>2. healthy = {}
    BY <2>1
  <2>3. Holders(es, m) = {}
    BY <1>6 DEF Holders, Healthy, Listing
  <2> QED BY <1>5, <2>2, <2>3
<1>7. CASE L # {}
  <2>1. m \in DOMAIN index /\ index[m] = o
    BY <1>7 DEF ModelIndex, Listing
  <2>2. listed = o
    BY <2>1
  <2>3. healthy = {k \in 1..n : es[o[k]].healthy}
    BY <1>3, <2>2
  <2> HIDE DEF listed, healthy, o, n
  <2>4. \A i \in Holders(es, m) : i \in L
    BY DEF Holders, Healthy, Listing
  <2>5. \A k \in healthy : o[k] \in Holders(es, m)
    BY <1>3, <2>3 DEF Holders, Healthy, Listing
  <2>6. ASSUME NEW i \in Holders(es, m) PROVE \E k \in healthy : o[k] = i
    <3>1. PICK k \in 1..n : o[k] = i
      BY <1>3, <2>4
    <3> QED BY <2>3, <3>1 DEF Holders, Healthy
  <2>7. CASE healthy = {}
    BY <1>5, <2>6, <2>7
  <2>8. CASE healthy # {}
    <3>1. healthy \in SUBSET Int /\ IsFiniteSet(healthy)
      <4>1. n \in Int /\ healthy \in SUBSET (1..n)
        BY <1>3, <2>3
      <4>2. IsFiniteSet(1..n)
        BY <4>1, FS_Interval
      <4>3. IsFiniteSet(healthy)
        BY <4>1, <4>2, FS_Subset
      <4> QED BY <4>1, <4>3
    <3>2. PICK k \in healthy : \A l \in healthy : GoesBefore([i \in healthy |-> 0], k, l)
      <4>1. [i \in healthy |-> 0] \in [healthy -> Int]
        OBVIOUS
      <4> QED BY <2>8, <3>1, <4>1, FirstExists
    <3>3. \A l \in healthy : k <= l
      BY <3>1, <3>2 DEF GoesBefore
    <3>4. first \in healthy /\ \A l \in healthy : first <= l
      BY <3>3
    <3> HIDE DEF first
    <3>5. \A j \in Holders(es, m) : o[first] <= j
      <4> SUFFICES ASSUME NEW j \in Holders(es, m) PROVE o[first] <= j
        OBVIOUS
      <4>1. PICK l \in healthy : o[l] = j
        BY <2>6
      <4> QED BY <1>4, <2>3, <3>4, <4>1
    <3>6. ResolveBackend(es, m) = es[o[first]].config
      BY <1>5, <2>2, <2>8
    <3> QED BY <2>5, <3>4, <3>5, <3>6
  <2> QED BY <2>7, <2>8
<1> QED BY <1>6, <1>7

(***************************************************************************)
(* DefaultBackend finds a healthy entry of the lowest priority number.     *)
(***************************************************************************)
LEMMA DefaultFindsLowest ==
  ASSUME NEW S, NEW es \in Seq(S), Sortable(es)
  PROVE  \/ Healthy(es) = {} /\ DefaultBackend(es) = None
         \/ \E i \in Healthy(es) :
              /\ DefaultBackend(es) = es[i].config
              /\ \A j \in Healthy(es) : es[i].config.priority <= es[j].config.priority
<1> DEFINE H   == Healthy(es)
           key == [i \in H |-> es[i].config.priority]
           first == CHOOSE i \in H : \A j \in H : GoesBefore(key, i, j)
<1>1. H \in SUBSET (DOMAIN es) /\ H \in SUBSET Int /\ IsFiniteSet(H)
  BY Positions DEF Healthy
<1>2. key \in [H -> Int]
  BY <1>1 DEF Sortable
<1>3. DefaultBackend(es) = IF H = {} THEN None ELSE es[first].config
  BY DEF DefaultBackend
<1>4. CASE H # {}
  <2>1. \E i \in H : \A j \in H : GoesBefore(key, i, j)
    BY <1>1, <1>2, <1>4, FirstExists
  <2>2. first \in H /\ \A j \in H : GoesBefore(key, first, j)
    BY <2>1
  <2>3. \A j \in H : key[j] = es[j].config.priority /\ key[j] \in Int
    BY <1>2
  <2> HIDE DEF first, key, H
  <2>4. \A j \in H : es[first].config.priority <= es[j].config.priority
    BY <2>2, <2>3 DEF GoesBefore
  <2> QED BY <1>3, <1>4, <2>2, <2>4 DEF H
<1> QED BY <1>3, <1>4

(***************************************************************************)
(* The choice of dispatch, from a table in order of priority, is one that  *)
(* the reference definition allows, whatever the entries and the model.    *)
(***************************************************************************)
THEOREM PickIsAllowed ==
  ASSUME NEW S, NEW es \in Seq(S), Sortable(es), IsSorted(es), NEW m,
         \A i \in DOMAIN es : es[i].config # None
  PROVE  Pick(es, m) \in AllowedTargets({es[i] : i \in DOMAIN es}, m)
<1> DEFINE E == {es[i] : i \in DOMAIN es}
           healthy == {e \in E : e.healthy}
           holders == {e \in healthy : m \in e.models}
<1>1. healthy = {es[i] : i \in Healthy(es)}
  BY DEF Healthy
<1>2. holders = {es[i] : i \in Holders(es, m)}
  BY <1>1 DEF Holders
<1>3. DOMAIN es \in SUBSET Int
  BY Positions
<1>4. Holders(es, m) \in SUBSET Healthy(es) /\ Healthy(es) \in SUBSET (DOMAIN es)
  BY DEF Holders, Healthy
<1>5. CASE Holders(es, m) # {}
  <2>1. PICK i \in Holders(es, m) :
               /\ ResolveBackend(es, m) = es[i].config
               /\ \A j \in Holders(es, m) : i <= j
    BY <1>5, ResolveFindsFirst
  <2>2. Pick(es, m) = es[i].config
    BY <1>4, <2>1 DEF Pick
  <2>3. \A j \in Holders(es, m) : es[i].config.priority <= es[j].config.priority
    BY <1>4, <2>1 DEF IsSorted
  <2>4. es[i] \in {x \in holders : \A y \in holders : x.config.priority <= y.config.priority}
    BY <1>2, <2>3
  <2>5. es[i].config \in Preferred(holders)
    BY <2>4 DEF Preferred
  <2>6. holders # {} /\ healthy # {}
    BY <2>4
  <2> QED BY <2>2, <2>5, <2>6 DEF AllowedTargets
<1>6. CASE Holders(es, m) = {}
  <2>1. Pick(es, m) = DefaultBackend(es)
    BY <1>6, ResolveFindsFirst DEF Pick
  <2>2. holders = {}
    BY <1>2, <1>6
  <2>3. CASE Healthy(es) = {}
    <3>1. healthy = {} /\ Pick(es, m) = None
      BY <1>1, <2>1, <2>3, DefaultFindsLowest
    <3> QED BY <3>1 DEF AllowedTargets
  <2>4. CASE Healthy(es) # {}
    <3>1. PICK i \in Healthy(es) :
                 /\ DefaultBackend(es) = es[i].config
                 /\ \A j \in Healthy(es) : es[i].config.priority <= es[j].config.priority
      BY <2>4, DefaultFindsLowest
    <3>2. es[i] \in {x \in healthy : \A y \in healthy : x.config.priority <= y.config.priority}
      BY <1>1, <3>1
    <3>3. es[i].config \in Preferred(healthy)
      BY <3>2 DEF Preferred
    <3>4. healthy # {}
      BY <3>2
    <3> QED BY <2>1, <2>2, <3>1, <3>3, <3>4 DEF AllowedTargets
  <2> QED BY <2>3, <2>4
<1> QED BY <1>5, <1>6

-----------------------------------------------------------------------------

(***************************************************************************)
(* Types.                                                                  *)
(***************************************************************************)
LEMMA FromBodyType ==
  ASSUME NEW b \in Bodies, NEW p \in Int
  PROVE  FromBody(b, p) \in Config
<1>1. b \in [name : Names, url : Urls, type : Types, priority : Int \cup {None}]
  BY BodiesAssumption
<1>2. (IF b.priority = None THEN p ELSE b.priority) \in Int
  BY <1>1
<1> QED BY <1>1, <1>2 DEF FromBody, Config

LEMMA EmptySequences == <<>> \in Seq(Config) /\ <<>> \in Seq(Answer)
  OBVIOUS

LEMMA NoRequestType == NoRequest \in RequestType
  BY EmptySequences DEF NoRequest, RequestType, Paths

LEMMA FetchingType ==
  ASSUME NEW cs \in Seq(Config)
  PROVE  /\ Fetching(cs) \in LoopType
         /\ Fetching(cs).pending = DOMAIN Fetching(cs).configs
<1>1. DOMAIN cs \in SUBSET Nat
  BY Positions
<1> QED BY <1>1, EmptySequences DEF Fetching, LoopType

LEMMA WaitingType == Waiting \in LoopType /\ Waiting.pending = {}
  BY EmptySequences DEF Waiting, LoopType

LEMMA AnswersAreSortable ==
  ASSUME NEW s \in Seq(Answer)
  PROVE  Sortable(s)
<1>1. \A i \in DOMAIN s : s[i] \in Answer
  BY ElementType
<1> QED BY <1>1 DEF Sortable, Answer, Config

LEMMA InitType == Init => TypeOK
<1> SUFFICES ASSUME Init PROVE TypeOK
  OBVIOUS
<1>1. backends \in Seq(Config) /\ loop \in LoopType /\ loop.pending \subseteq DOMAIN loop.configs
  BY InitialAssumption, FetchingType DEF Init
<1>2. registry \in [source : Seq(Config), table : Seq(Answer)]
  BY EmptySequences DEF Init
<1>3. server \in [Urls -> ServerStates] /\ edits \in 0..MaxEdits /\ flips \in 0..MaxFlips
  BY InitialAssumption, BoundsAssumption DEF Init
<1>4. req \in [Requests -> RequestType] /\ admin \in [Admins -> {"idle", "saving"}]
  BY NoRequestType DEF Init
<1> QED BY <1>1, <1>2, <1>3, <1>4 DEF Init, TypeOK

LEMMA EditType ==
  ASSUME TypeOK, NEW a \in Admins, NEW list \in Seq(Config), Edit(a, list)
  PROVE  TypeOK'
<1>1. edits' \in 0..MaxEdits
  BY BoundsAssumption DEF Edit, TypeOK
<1>2. admin' \in [Admins -> {"idle", "saving"}]
  BY DEF Edit, TypeOK
<1> QED BY <1>1, <1>2 DEF Edit, TypeOK

LEMMA AdminStepType ==
  ASSUME TypeOK, NEW a \in Admins, AdminStep(a)
  PROVE  TypeOK'
<1>1. ASSUME NEW b \in Bodies, AddBackend(a, b) PROVE TypeOK'
  <2>1. Append(backends, FromBody(b, 0)) \in Seq(Config)
    BY FromBodyType DEF TypeOK
  <2> QED BY <1>1, <2>1, EditType DEF AddBackend
<1>2. ASSUME NEW n \in Names, NEW b \in Bodies, UpdateBackend(a, n, b) PROVE TypeOK'
  <2>1. PICK i \in DOMAIN backends :
               Edit(a, [backends EXCEPT ![i] = FromBody(b, backends[i].priority)])
    BY <1>2 DEF UpdateBackend
  <2>2. FromBody(b, backends[i].priority) \in Config
    <3>1. backends[i] \in Config
      BY ElementType DEF TypeOK
    <3>2. backends[i].priority \in Int
      BY <3>1 DEF Config
    <3> QED BY <3>2, FromBodyType
  <2>3. [backends EXCEPT ![i] = FromBody(b, backends[i].priority)] \in Seq(Config)
    BY <2>2, ExceptSeq DEF TypeOK
  <2> QED BY <2>1, <2>3, EditType
<1>3. ASSUME NEW n \in Names, DeleteBackend(a, n) PROVE TypeOK'
  <2>1. Keep(backends, {i \in DOMAIN backends : backends[i].name # n}) \in Seq(Config)
    BY KeepType DEF TypeOK
  <2> QED BY <1>3, <2>1, EditType DEF DeleteBackend
<1>4. ASSUME SaveOk(a) PROVE TypeOK'
  BY <1>4 DEF SaveOk, TypeOK
<1>5. ASSUME NotSaved(a) PROVE TypeOK'
  BY <1>5 DEF NotSaved, TypeOK
<1> QED BY <1>1, <1>2, <1>3, <1>4, <1>5 DEF AdminStep

LEMMA LoopStepType ==
  ASSUME TypeOK, LoopStep
  PROVE  TypeOK'
<1>1. CASE WakeTimer
  BY <1>1 DEF WakeTimer, TypeOK, LoopType
<1>2. CASE WakeNotified
  BY <1>2 DEF WakeNotified, TypeOK, LoopType
<1>3. CASE CloneBackends
  BY <1>3, FetchingType DEF CloneBackends, TypeOK
<1>4. ASSUME NEW i \in loop.pending, FetchDone(i) PROVE TypeOK'
  <2> DEFINE state == server[loop.configs[i].url]
             entry == Entry(loop.configs[i], IF state # Down THEN state ELSE {}, state # Down)
  <2>1. loop.configs[i] \in Config
    BY ElementType DEF TypeOK, LoopType
  <2>2. state \in {Down, Silent} \cup SUBSET Models /\ state # Silent
    BY <1>4, <2>1, InitialAssumption DEF TypeOK, Config, FetchDone
  <2>3. entry \in Answer
    BY <2>1, <2>2 DEF Entry, Answer
  <2>4. /\ Append(loop.answers, entry) \in Seq(Answer)
        /\ loop.pending \ {i} \in SUBSET Nat
    BY <2>3 DEF TypeOK, LoopType
  <2>5. loop' = [loop EXCEPT !.pending = loop.pending \ {i},
                             !.answers = Append(loop.answers, entry)]
    BY <1>4 DEF FetchDone, Fetched
  <2> HIDE DEF entry
  <2>6. loop' \in LoopType /\ loop'.pending \subseteq DOMAIN loop'.configs
    BY <2>4, <2>5 DEF TypeOK, LoopType
  <2> QED BY <1>4, <2>6 DEF FetchDone, TypeOK
<1>5. CASE Publish
  <2>1. SortByPriority(loop.answers) \in Seq(Answer)
    BY AnswersAreSortable, SortProperties DEF TypeOK, LoopType
  <2>2. registry' \in [source : Seq(Config), table : Seq(Answer)]
    BY <1>5, <2>1 DEF Publish, RegistryOf, TypeOK, LoopType
  <2>3. loop' \in LoopType /\ loop'.pending = {}
    BY <1>5, WaitingType DEF Publish
  <2> QED BY <1>5, <2>2, <2>3 DEF Publish, TypeOK
<1> QED BY <1>1, <1>2, <1>3, <1>4, <1>5 DEF LoopStep

(***************************************************************************)
(* What a request is routed to is None or the configuration of an entry.   *)
(***************************************************************************)
LEMMA TargetType ==
  ASSUME NEW t \in Seq(Answer), NEW m
  PROVE  /\ Pick(t, m) \in {None} \cup Config
         /\ DefaultBackend(t) \in {None} \cup Config
<1>1. ASSUME NEW i \in DOMAIN t PROVE t[i].config \in Config
  <2>1. t[i] \in Answer
    BY ElementType
  <2> QED BY <2>1 DEF Answer
<1>2. ResolveBackend(t, m) \in {None} \cup Config
  BY <1>1, ResolveFindsFirst DEF Holders, Healthy
<1>3. DefaultBackend(t) \in {None} \cup Config
  BY <1>1, AnswersAreSortable, DefaultFindsLowest DEF Healthy
<1> QED BY <1>2, <1>3 DEF Pick

LEMMA SetRequestType ==
  ASSUME TypeOK, NEW r \in Requests, NEW record \in RequestType, SetRequest(r, record)
  PROVE  TypeOK'
  BY DEF SetRequest, TypeOK

LEMMA RequestStepType ==
  ASSUME TypeOK, NEW r \in Requests, RequestStep(r)
  PROVE  TypeOK'
<1>1. registry.table \in Seq(Answer) /\ req[r] \in RequestType
  BY DEF TypeOK
<1>2. ASSUME NEW m \in Models \cup {None}, ClientRequest(r, m) PROVE TypeOK'
  <2> DEFINE new == [NoRequest EXCEPT !.pc = "body", !.model = m, !.table = registry.table]
  <2>1. new \in RequestType
    BY <1>1, NoRequestType DEF RequestType
  <2> QED BY <1>2, <2>1, SetRequestType DEF ClientRequest
<1>3. ASSUME Passthrough(r) PROVE TypeOK'
  <2> DEFINE new == [NoRequest EXCEPT !.pc = "sent", !.table = registry.table,
                                      !.target = DefaultBackend(registry.table)]
  <2>1. new \in RequestType
    BY <1>1, NoRequestType, TargetType DEF RequestType
  <2> QED BY <1>3, <2>1, SetRequestType DEF Passthrough
<1>4. ASSUME NEW m \in Models \cup {None}, AdminChat(r, m) PROVE TypeOK'
  <2>1. PICK p \in Paths : SetRequest(r, [NoRequest EXCEPT !.pc = "chat", !.model = m, !.path = p])
    BY <1>4 DEF AdminChat, Paths
  <2>2. [NoRequest EXCEPT !.pc = "chat", !.model = m, !.path = p] \in RequestType
    BY NoRequestType DEF RequestType
  <2> QED BY <2>1, <2>2, SetRequestType
<1>5. ASSUME AdminChatDispatch(r) PROVE TypeOK'
  <2>1. [req[r] EXCEPT !.pc = "body", !.table = registry.table] \in RequestType
    BY <1>1 DEF RequestType
  <2> QED BY <1>5, <2>1, SetRequestType DEF AdminChatDispatch
<1>6. ASSUME Resolve(r) PROVE TypeOK'
  <2> DEFINE b == Pick(req[r].table, req[r].model)
             new == IF b = None THEN NoRequest ELSE [req[r] EXCEPT !.pc = "sent", !.target = b]
  <2>1. b \in {None} \cup Config
    BY <1>1, TargetType DEF RequestType
  <2>2. SetRequest(r, new)
    BY <1>6 DEF Resolve
  <2> HIDE DEF b
  <2>3. new \in RequestType
    BY <1>1, <2>1, NoRequestType DEF RequestType
  <2> QED BY <2>2, <2>3, SetRequestType
<1>7. ASSUME Answered(r) PROVE TypeOK'
  BY <1>7, NoRequestType, SetRequestType DEF Answered
<1> QED BY <1>2, <1>3, <1>4, <1>5, <1>6, <1>7 DEF RequestStep

LEMMA NextType == TypeOK /\ [Next]_vars => TypeOK'
<1> SUFFICES ASSUME TypeOK, [Next]_vars PROVE TypeOK'
  OBVIOUS
<1>1. ASSUME NEW a \in Admins, AdminStep(a) PROVE TypeOK'
  BY <1>1, AdminStepType
<1>2. CASE RefreshBackends
  BY <1>2 DEF RefreshBackends, TypeOK
<1>3. CASE LoopStep
  BY <1>3, LoopStepType
<1>4. ASSUME NEW u \in Urls, NEW state \in ServerStates, ServerChange(u, state) PROVE TypeOK'
  <2>1. flips' \in 0..MaxFlips
    BY <1>4, BoundsAssumption DEF ServerChange, TypeOK
  <2>2. server' \in [Urls -> ServerStates]
    BY <1>4 DEF ServerChange, TypeOK
  <2> QED BY <1>4, <2>1, <2>2 DEF ServerChange, TypeOK
<1>5. ASSUME NEW r \in Requests, RequestStep(r) PROVE TypeOK'
  BY <1>5, RequestStepType
<1>6. CASE UNCHANGED vars
  BY <1>6 DEF vars, TypeOK
<1> QED BY <1>1, <1>2, <1>3, <1>4, <1>5, <1>6 DEF Next

(***************************************************************************)
(* Every reachable state of the registry, the loop, the handlers and the   *)
(* requests has the types of TypeOK.                                       *)
(***************************************************************************)
THEOREM TypeCorrect == Spec => []TypeOK
  BY InitType, NextType, PTL DEF Spec

-----------------------------------------------------------------------------
(***************************************************************************)
(* RefreshOwed is not inductive: Publish may end a refresh whose list has  *)
(* become stale meanwhile, and it must then be known that somebody is      *)
(* still bound to wake the loop.                                           *)
(***************************************************************************)
RefreshInvariant ==
  /\ loop.pc = "waiting" /\ registry.source # backends => Pending
  /\ loop.pc = "fetching" /\ loop.configs # backends => Pending

LEMMA InitRefresh == Init => RefreshInvariant
  BY DEF Init, RefreshInvariant, Fetching

LEMMA EditRefresh ==
  ASSUME TypeOK, NEW a \in Admins, NEW list, Edit(a, list)
  PROVE  RefreshInvariant'
<1>1. Pending'
  BY DEF Edit, Pending, TypeOK
<1> QED BY <1>1 DEF RefreshInvariant

LEMMA AdminStepRefresh ==
  ASSUME TypeOK, RefreshInvariant, NEW a \in Admins, AdminStep(a)
  PROVE  RefreshInvariant'
<1>1. ASSUME NEW list, Edit(a, list) PROVE RefreshInvariant'
  BY <1>1, EditRefresh
<1>2. CASE SaveOk(a)
  BY <1>2 DEF SaveOk, RefreshInvariant, Pending
<1>3. CASE NotSaved(a)
  BY <1>3 DEF NotSaved, RefreshInvariant, Pending
<1> QED BY <1>1, <1>2, <1>3 DEF AdminStep, AddBackend, UpdateBackend, DeleteBackend

LEMMA LoopStepRefresh ==
  ASSUME TypeOK, RefreshInvariant, LoopStep
  PROVE  RefreshInvariant'
<1> USE DEF RefreshInvariant, Pending
<1>1. CASE WakeTimer
  BY <1>1 DEF WakeTimer, TypeOK, LoopType
<1>2. CASE WakeNotified
  BY <1>2 DEF WakeNotified, TypeOK, LoopType
<1>3. CASE CloneBackends
  BY <1>3 DEF CloneBackends, Fetching
<1>4. ASSUME NEW i \in loop.pending, FetchDone(i) PROVE RefreshInvariant'
  <2>1. loop'.pc = loop.pc /\ loop'.configs = loop.configs
    BY <1>4 DEF FetchDone, TypeOK, LoopType
  <2> QED BY <1>4, <2>1 DEF FetchDone
<1>5. CASE Publish
  BY <1>5 DEF Publish, Waiting
<1> QED BY <1>1, <1>2, <1>3, <1>4, <1>5 DEF LoopStep

LEMMA NextRefresh == TypeOK /\ RefreshInvariant /\ [Next]_vars => RefreshInvariant'
<1> SUFFICES ASSUME TypeOK, RefreshInvariant, [Next]_vars PROVE RefreshInvariant'
  OBVIOUS
<1>1. ASSUME NEW a \in Admins, AdminStep(a) PROVE RefreshInvariant'
  BY <1>1, AdminStepRefresh
<1>2. CASE RefreshBackends
  BY <1>2 DEF RefreshBackends, RefreshInvariant, Pending
<1>3. CASE LoopStep
  BY <1>3, LoopStepRefresh
<1>4. ASSUME NEW u \in Urls, NEW state \in ServerStates, ServerChange(u, state)
      PROVE  RefreshInvariant'
  BY <1>4 DEF ServerChange, RefreshInvariant, Pending
<1>5. ASSUME NEW r \in Requests, NEW record, SetRequest(r, record) PROVE RefreshInvariant'
  BY <1>5 DEF SetRequest, RefreshInvariant, Pending
<1>6. ASSUME NEW r \in Requests, RequestStep(r) PROVE RefreshInvariant'
  BY <1>5, <1>6 DEF RequestStep, ClientRequest, Passthrough, AdminChat, AdminChatDispatch,
                    Resolve, Answered
<1>7. CASE UNCHANGED vars
  BY <1>7 DEF vars, RefreshInvariant, Pending
<1> QED BY <1>1, <1>2, <1>3, <1>4, <1>6, <1>7 DEF Next

(***************************************************************************)
(* A change of the list of backends is never forgotten: as long as the     *)
(* table was made from another list, a refresh is owed, due or under way.  *)
(***************************************************************************)
THEOREM NoLostRefresh == Spec => []RefreshOwed
<1>1. TypeOK /\ RefreshInvariant => RefreshOwed
  BY DEF TypeOK, LoopType, RefreshInvariant, RefreshOwed
<1> QED BY <1>1, InitRefresh, NextRefresh, TypeCorrect, PTL DEF Spec

-----------------------------------------------------------------------------
(***************************************************************************)
(* Requests are routed from sorted tables: the first holder of a model in  *)
(* the index is a preferred one only because refresh sorted the entries.   *)
(***************************************************************************)
RoutingInvariant ==
  /\ IsSorted(registry.table)
  /\ \A r \in Requests :
       /\ IsSorted(req[r].table)
       /\ req[r].pc = "sent" => req[r].target = Pick(req[r].table, req[r].model)

LEMMA NoModelPicksDefault ==
  ASSUME NEW t \in Seq(Answer)
  PROVE  Pick(t, None) = DefaultBackend(t)
<1>1. ASSUME NEW i \in DOMAIN t PROVE None \notin t[i].models
  <2>1. t[i] \in Answer
    BY ElementType
  <2> QED BY <2>1, BodiesAssumption DEF Answer
<1>2. Holders(t, None) = {}
  BY <1>1 DEF Holders, Healthy
<1> QED BY <1>2, ResolveFindsFirst DEF Pick

LEMMA NoRequestIsRouted == IsSorted(NoRequest.table) /\ NoRequest.pc = "idle"
  BY DEF NoRequest, IsSorted

LEMMA InitRouting == Init => RoutingInvariant
<1>1. IsSorted(<<>>)
  BY DEF IsSorted
<1> QED BY <1>1, NoRequestIsRouted DEF Init, RoutingInvariant

LEMMA SetRequestRouting ==
  ASSUME TypeOK, RoutingInvariant, NEW r \in Requests, NEW record, SetRequest(r, record),
         IsSorted(record.table),
         record.pc = "sent" => record.target = Pick(record.table, record.model)
  PROVE  RoutingInvariant'
<1>1. \A q \in Requests : req'[q] = IF q = r THEN record ELSE req[q]
  BY DEF SetRequest, TypeOK
<1> QED BY <1>1 DEF SetRequest, RoutingInvariant

LEMMA RequestStepRouting ==
  ASSUME TypeOK, RoutingInvariant, NEW r \in Requests, RequestStep(r)
  PROVE  RoutingInvariant'
<1>1. registry.table \in Seq(Answer) /\ req[r] \in RequestType
  BY DEF TypeOK
<1>2. IsSorted(registry.table) /\ IsSorted(req[r].table)
  BY DEF RoutingInvariant
<1>3. ASSUME NEW m, ClientRequest(r, m) PROVE RoutingInvariant'
  <2> DEFINE new == [NoRequest EXCEPT !.pc = "body", !.model = m, !.table = registry.table]
  <2>1. new.pc = "body" /\ new.table = registry.table
    BY DEF NoRequest
  <2> QED BY <1>2, <1>3, <2>1, SetRequestRouting DEF ClientRequest
<1>4. ASSUME Passthrough(r) PROVE RoutingInvariant'
  <2> DEFINE new == [NoRequest EXCEPT !.pc = "sent", !.table = registry.table,
                                      !.target = DefaultBackend(registry.table)]
  <2>1. /\ new.model = None /\ new.table = registry.table
        /\ new.target = DefaultBackend(registry.table)
    BY DEF NoRequest
  <2>2. new.target = Pick(new.table, new.model)
    BY <1>1, <2>1, NoModelPicksDefault
  <2> QED BY <1>2, <1>4, <2>1, <2>2, SetRequestRouting DEF Passthrough
<1>5. ASSUME NEW m, AdminChat(r, m) PROVE RoutingInvariant'
  <2>1. PICK p : SetRequest(r, [NoRequest EXCEPT !.pc = "chat", !.model = m, !.path = p])
    BY <1>5 DEF AdminChat
  <2> DEFINE new == [NoRequest EXCEPT !.pc = "chat", !.model = m, !.path = p]
  <2>2. new.pc = "chat" /\ new.table = NoRequest.table
    BY DEF NoRequest
  <2> QED BY <2>1, <2>2, NoRequestIsRouted, SetRequestRouting
<1>6. ASSUME AdminChatDispatch(r) PROVE RoutingInvariant'
  <2> DEFINE new == [req[r] EXCEPT !.pc = "body", !.table = registry.table]
  <2>1. new.pc = "body" /\ new.table = registry.table
    BY <1>1 DEF RequestType
  <2> QED BY <1>2, <1>6, <2>1, SetRequestRouting DEF AdminChatDispatch
<1>7. ASSUME Resolve(r) PROVE RoutingInvariant'
  <2> DEFINE b == Pick(req[r].table, req[r].model)
             sent == [req[r] EXCEPT !.pc = "sent", !.target = b]
  <2>1. SetRequest(r, IF b = None THEN NoRequest ELSE sent)
    BY <1>7 DEF Resolve
  <2>2. sent.table = req[r].table /\ sent.target = b /\ sent.model = req[r].model
    BY <1>1 DEF RequestType
  <2>3. CASE b = None
    BY <2>1, <2>3, NoRequestIsRouted, SetRequestRouting
  <2>4. CASE b # None
    BY <1>2, <2>1, <2>2, <2>4, SetRequestRouting
  <2> QED BY <2>3, <2>4
<1>8. ASSUME Answered(r) PROVE RoutingInvariant'
  BY <1>8, NoRequestIsRouted, SetRequestRouting DEF Answered
<1> QED BY <1>3, <1>4, <1>5, <1>6, <1>7, <1>8 DEF RequestStep

LEMMA NextRouting == TypeOK /\ RoutingInvariant /\ [Next]_vars => RoutingInvariant'
<1> SUFFICES ASSUME TypeOK, RoutingInvariant, [Next]_vars PROVE RoutingInvariant'
  OBVIOUS
<1>1. ASSUME UNCHANGED <<registry, req>> PROVE RoutingInvariant'
  BY <1>1 DEF RoutingInvariant
<1>2. ASSUME NEW a \in Admins, AdminStep(a) PROVE UNCHANGED <<registry, req>>
  BY <1>2 DEF AdminStep, AddBackend, UpdateBackend, DeleteBackend, Edit, SaveOk, NotSaved
<1>3. CASE Publish
  <2>1. IsSorted(registry'.table)
    BY <1>3, AnswersAreSortable, SortProperties DEF Publish, RegistryOf, TypeOK, LoopType
  <2> QED BY <1>3, <2>1 DEF Publish, RoutingInvariant
<1>4. CASE LoopStep /\ ~Publish
  BY <1>1, <1>4 DEF LoopStep, WakeTimer, WakeNotified, CloneBackends, FetchDone
<1>5. CASE RefreshBackends \/ UNCHANGED vars
  BY <1>1, <1>5 DEF RefreshBackends, vars
<1>6. ASSUME NEW u, NEW state, ServerChange(u, state) PROVE RoutingInvariant'
  BY <1>1, <1>6 DEF ServerChange
<1>7. ASSUME NEW r \in Requests, RequestStep(r) PROVE RoutingInvariant'
  BY <1>7, RequestStepRouting
<1> QED BY <1>1, <1>2, <1>3, <1>4, <1>5, <1>6, <1>7 DEF Next

(***************************************************************************)
(* Every request that is sent goes to a healthy backend of the lowest      *)
(* priority number among the holders of its model, or among all if none.   *)
(***************************************************************************)
THEOREM RoutingCorrect == Spec => []RoutesToPreferred
<1>1. ASSUME TypeOK, RoutingInvariant, NEW r \in Requests, req[r].pc = "sent"
      PROVE  req[r].target \in AllowedTargets(EntriesOf(req[r].table), req[r].model)
  <2> DEFINE t == req[r].table
  <2>1. t \in Seq(Answer) /\ IsSorted(t) /\ req[r].target = Pick(t, req[r].model)
    BY <1>1 DEF TypeOK, RequestType, RoutingInvariant
  <2>2. Sortable(t)
    BY <2>1, AnswersAreSortable
  <2>3. ASSUME NEW i \in DOMAIN t PROVE t[i].config # None
    <3>1. t[i] \in Answer
      BY <2>1, ElementType
    <3> QED BY <3>1, BodiesAssumption DEF Answer
  <2> HIDE DEF t
  <2>4. Pick(t, req[r].model) \in AllowedTargets({t[i] : i \in DOMAIN t}, req[r].model)
    BY <2>1, <2>2, <2>3, PickIsAllowed
  <2> QED BY <2>1, <2>4 DEF EntriesOf, t
<1>2. TypeOK /\ RoutingInvariant => RoutesToPreferred
  BY <1>1 DEF RoutesToPreferred
<1> QED BY <1>2, InitRouting, NextRouting, TypeCorrect, PTL DEF Spec
-----------------------------------------------------------------------------
(***************************************************************************)
(* What a published table consists of: an entry for each backend of the    *)
(* list it was made from, the failed ones included, each once.  The        *)
(* answers come in any order and the sort moves them again, so that which  *)
(* entry is whose is a bijection that no position gives away.              *)
(***************************************************************************)
OneEach(entries, configs, I) ==
  \E p \in Bijection(DOMAIN entries, I) :
    \A k \in DOMAIN entries : entries[k].config = configs[p[k]]

\* A backend that failed lists no model.
FailedIsEmpty(entries) ==
  \A k \in DOMAIN entries : entries[k].healthy \/ entries[k].models = {}

TableInvariant ==
  /\ OneEach(loop.answers, loop.configs, DOMAIN loop.configs \ loop.pending)
  /\ FailedIsEmpty(loop.answers)
  /\ OneEach(registry.table, registry.source, DOMAIN registry.source)
  /\ FailedIsEmpty(registry.table)

TableOfSource ==
  /\ OneEach(registry.table, registry.source, DOMAIN registry.source)
  /\ FailedIsEmpty(registry.table)

LEMMA MakeBijection ==
  ASSUME NEW S, NEW T, NEW f \in [S -> T],
         \A a, b \in S : f[a] = f[b] => a = b,
         \A t \in T : \E a \in S : f[a] = t
  PROVE  f \in Bijection(S, T)
BY DEF Bijection, Injection, Surjection, IsInjective

LEMMA UseBijection ==
  ASSUME NEW S, NEW T, NEW f \in Bijection(S, T)
  PROVE  /\ f \in [S -> T]
         /\ \A a, b \in S : f[a] = f[b] => a = b
         /\ \A t \in T : \E a \in S : f[a] = t
BY DEF Bijection, Injection, Surjection, IsInjective

\* The empty list of answers is one each of nothing.
LEMMA NoneYet ==
  ASSUME NEW configs
  PROVE  OneEach(<<>>, configs, {}) /\ FailedIsEmpty(<<>>)
<1> DEFINE p == [k \in {} |-> k]
<1>1. DOMAIN <<>> = {}
  OBVIOUS
<1>2. p \in Bijection({}, {})
  BY MakeBijection
<1> HIDE DEF p
<1>3. OneEach(<<>>, configs, {})
  BY <1>1, <1>2 DEF OneEach
<1> QED BY <1>1, <1>3 DEF FailedIsEmpty

\* One more answer, of a backend that had not answered.
LEMMA OneMore ==
  ASSUME NEW S, NEW s \in Seq(S), NEW e \in S, NEW configs, NEW I, NEW i,
         i \notin I, e.config = configs[i], OneEach(s, configs, I)
  PROVE  OneEach(Append(s, e), configs, I \cup {i})
<1> DEFINE n == Len(s)
           t == Append(s, e)
<1>1. /\ n \in Nat /\ DOMAIN s = 1..n /\ DOMAIN t = 1..(n + 1)
      /\ \A k \in 1..n : t[k] = s[k] /\ t[n + 1] = e
  BY AppendProperties, LenProperties
<1>2. t[n + 1] = e
  OBVIOUS
<1>3. PICK p \in Bijection(1..n, I) : \A k \in 1..n : s[k].config = configs[p[k]]
  BY <1>1 DEF OneEach
<1> HIDE DEF n, t
<1>4. /\ p \in [1..n -> I]
      /\ \A a, b \in 1..n : p[a] = p[b] => a = b
      /\ \A x \in I : \E a \in 1..n : p[a] = x
  BY DEF Bijection, Injection, Surjection, IsInjective
<1> DEFINE q == [k \in 1..(n + 1) |-> IF k = n + 1 THEN i ELSE p[k]]
<1>5. \A k \in 1..(n + 1) : k # n + 1 => k \in 1..n
  BY <1>1
<1>6. \A k \in 1..n : k \in 1..(n + 1) /\ k # n + 1
  BY <1>1
<1>7. n + 1 \in 1..(n + 1)
  BY <1>1
<1>8. q \in [1..(n + 1) -> I \cup {i}]
  BY <1>4, <1>5
<1>9. q[n + 1] = i /\ \A k \in 1..n : q[k] = p[k]
  BY <1>6, <1>7
<1> HIDE DEF q
<1>10. ASSUME NEW a \in 1..(n + 1), NEW b \in 1..(n + 1), q[a] = q[b] PROVE a = b
  <2>1. CASE a = n + 1 /\ b # n + 1
    BY <1>4, <1>5, <1>9, <1>10, <2>1
  <2>2. CASE a # n + 1 /\ b = n + 1
    BY <1>4, <1>5, <1>9, <1>10, <2>2
  <2>3. CASE a # n + 1 /\ b # n + 1
    BY <1>4, <1>5, <1>9, <1>10, <2>3
  <2> QED BY <2>1, <2>2, <2>3
<1>11. ASSUME NEW x \in I \cup {i} PROVE \E a \in 1..(n + 1) : q[a] = x
  <2>1. CASE x = i
    BY <1>7, <1>9, <2>1
  <2>2. CASE x \in I
    <3>1. PICK a \in 1..n : p[a] = x
      BY <1>4, <2>2
    <3> QED BY <1>6, <1>9, <3>1
  <2> QED BY <2>1, <2>2
<1>12. q \in Bijection(1..(n + 1), I \cup {i})
  BY <1>8, <1>10, <1>11, MakeBijection
<1>13. ASSUME NEW k \in 1..(n + 1) PROVE t[k].config = configs[q[k]]
  <2>1. CASE k = n + 1
    BY <1>1, <1>2, <1>9, <2>1 DEF t, n
  <2>2. CASE k # n + 1
    BY <1>1, <1>3, <1>5, <1>9, <2>2
  <2> QED BY <2>1, <2>2
<1>14. OneEach(t, configs, I \cup {i})
  BY <1>1, <1>12, <1>13 DEF OneEach
<1> QED BY <1>14 DEF t

\* Sorting permutes.
LEMMA SortPermutes ==
  ASSUME NEW S, NEW s \in Seq(S), Sortable(s)
  PROVE  \E o \in Bijection(DOMAIN SortByPriority(s), DOMAIN s) :
           \A k \in DOMAIN SortByPriority(s) : SortByPriority(s)[k] = s[o[k]]
<1> DEFINE I   == DOMAIN s
           n   == Cardinality(I)
           key == [i \in I |-> s[i].config.priority]
           o   == InOrder(I, key)
           t   == SortByPriority(s)
<1>1. I \in SUBSET Int /\ IsFiniteSet(I)
  BY Positions
<1>2. key \in [I -> Int]
  BY DEF Sortable
<1>3. /\ n \in Nat
      /\ o \in [1..n -> I]
      /\ \A i \in I : \E k \in 1..n : o[k] = i
      /\ \A k, l \in 1..n : k <= l <=> GoesBefore(key, o[k], o[l])
  BY <1>1, <1>2, InOrderEnumerates
<1>4. t = [k \in 1..n |-> s[o[k]]]
  BY <1>3 DEF SortByPriority, Arrange
<1>5. DOMAIN t = 1..n /\ \A k \in 1..n : t[k] = s[o[k]]
  BY <1>4
<1> HIDE DEF o, n, t
<1>6. ASSUME NEW k \in 1..n, NEW l \in 1..n, o[k] = o[l] PROVE k = l
  <2>1. GoesBefore(key, o[k], o[k])
    BY <1>1, <1>2, <1>3 DEF GoesBefore
  <2>2. k <= l /\ l <= k
    BY <1>3, <1>6, <2>1
  <2> QED BY <1>3, <2>2
<1>7. o \in Bijection(1..n, I)
  BY <1>3, <1>6, MakeBijection
<1> QED BY <1>5, <1>7 DEF t

LEMMA SortedOneEach ==
  ASSUME NEW S, NEW s \in Seq(S), Sortable(s), NEW configs, NEW I,
         OneEach(s, configs, I), FailedIsEmpty(s)
  PROVE  OneEach(SortByPriority(s), configs, I) /\ FailedIsEmpty(SortByPriority(s))
<1> DEFINE t == SortByPriority(s)
<1>1. PICK o \in Bijection(DOMAIN t, DOMAIN s) : \A k \in DOMAIN t : t[k] = s[o[k]]
  BY SortPermutes
<1>2. PICK p \in Bijection(DOMAIN s, I) : \A k \in DOMAIN s : s[k].config = configs[p[k]]
  BY DEF OneEach
<1> DEFINE q == [k \in DOMAIN t |-> p[o[k]]]
<1> HIDE DEF t
<1>3. q \in Bijection(DOMAIN t, I)
  BY Fun_BijTransitive
<1>4. \A k \in DOMAIN t : o[k] \in DOMAIN s
  BY UseBijection
<1>5. \A k \in DOMAIN t : t[k].config = configs[q[k]]
  BY <1>1, <1>2, <1>4
<1> HIDE DEF q
<1>6. OneEach(t, configs, I)
  BY <1>3, <1>5 DEF OneEach
<1>7. FailedIsEmpty(t)
  BY <1>1, <1>4 DEF FailedIsEmpty
<1> QED BY <1>6, <1>7 DEF t

LEMMA FetchingNone ==
  ASSUME NEW cs
  PROVE  /\ OneEach(Fetching(cs).answers, cs, DOMAIN cs \ Fetching(cs).pending)
         /\ FailedIsEmpty(Fetching(cs).answers) /\ Fetching(cs).configs = cs
<1>1. /\ Fetching(cs).answers = <<>> /\ Fetching(cs).configs = cs
      /\ DOMAIN cs \ Fetching(cs).pending = {}
  BY DEF Fetching
<1> QED BY <1>1, NoneYet

LEMMA WaitingNone ==
  /\ OneEach(Waiting.answers, Waiting.configs, DOMAIN Waiting.configs \ Waiting.pending)
  /\ FailedIsEmpty(Waiting.answers)
<1>1. /\ Waiting.answers = <<>>
      /\ DOMAIN Waiting.configs \ Waiting.pending = {}
  BY DEF Waiting
<1> QED BY <1>1, NoneYet

LEMMA InitTable == Init => TableInvariant
<1> SUFFICES ASSUME Init PROVE TableInvariant
  OBVIOUS
<1>1. loop = Fetching(InitialBackends) /\ registry.source = <<>> /\ registry.table = <<>>
  BY DEF Init
<1>2. DOMAIN <<>> = {}
  OBVIOUS
<1> QED BY <1>1, <1>2, FetchingNone, NoneYet DEF TableInvariant

LEMMA FetchTable ==
  ASSUME TypeOK, TableInvariant, NEW i \in loop.pending, FetchDone(i)
  PROVE  /\ OneEach(loop'.answers, loop'.configs, DOMAIN loop'.configs \ loop'.pending)
         /\ FailedIsEmpty(loop'.answers)
<1> DEFINE e == Fetched(loop.configs[i])
           answered == DOMAIN loop.configs \ loop.pending
<1>1. loop.configs \in Seq(Config) /\ loop.answers \in Seq(Answer) /\ i \in DOMAIN loop.configs
  BY DEF TypeOK, LoopType
<1>2. /\ loop'.answers = Append(loop.answers, e) /\ loop'.configs = loop.configs
      /\ loop'.pending = loop.pending \ {i}
  BY DEF FetchDone, TypeOK, LoopType
<1>3. e.config = loop.configs[i] /\ (e.healthy \/ e.models = {})
  BY DEF Fetched, Entry
<1> HIDE DEF e
<1>4. DOMAIN loop'.configs \ loop'.pending = answered \cup {i}
  BY <1>1, <1>2
<1> DEFINE S == Answer \cup {e}
<1>5. loop.answers \in Seq(S) /\ e \in S
  BY <1>1
<1> HIDE DEF S
<1>6. i \notin answered /\ OneEach(loop.answers, loop.configs, answered)
  BY DEF TableInvariant
<1> HIDE DEF answered
<1>7. OneEach(Append(loop.answers, e), loop.configs, answered \cup {i})
  BY <1>3, <1>5, <1>6, OneMore
<1>8. FailedIsEmpty(Append(loop.answers, e))
  <2>1. /\ DOMAIN Append(loop.answers, e) = 1..(Len(loop.answers) + 1)
        /\ Len(loop.answers) \in Nat /\ DOMAIN loop.answers = 1..Len(loop.answers)
        /\ \A k \in 1..Len(loop.answers) : Append(loop.answers, e)[k] = loop.answers[k]
        /\ Append(loop.answers, e)[Len(loop.answers) + 1] = e
    BY <1>1
  <2> QED BY <1>3, <2>1 DEF FailedIsEmpty, TableInvariant
<1> QED BY <1>2, <1>4, <1>7, <1>8

LEMMA NextTable == TypeOK /\ TableInvariant /\ [Next]_vars => TableInvariant'
<1> SUFFICES ASSUME TypeOK, TableInvariant, [Next]_vars PROVE TableInvariant'
  OBVIOUS
<1>1. ASSUME UNCHANGED <<registry, loop.answers, loop.configs, loop.pending>>
      PROVE  TableInvariant'
  BY <1>1 DEF TableInvariant
<1>2. ASSUME NEW a \in Admins, AdminStep(a) PROVE TableInvariant'
  BY <1>1, <1>2 DEF AdminStep, AddBackend, UpdateBackend, DeleteBackend, Edit, SaveOk, NotSaved
<1>3. ASSUME NEW r \in Requests, RequestStep(r) PROVE TableInvariant'
  BY <1>1, <1>3 DEF RequestStep, ClientRequest, Passthrough, AdminChat, AdminChatDispatch,
     Resolve, Answered, SetRequest
<1>4. CASE RefreshBackends \/ UNCHANGED vars
  BY <1>1, <1>4 DEF RefreshBackends, vars
<1>5. ASSUME NEW u, NEW state, ServerChange(u, state) PROVE TableInvariant'
  BY <1>1, <1>5 DEF ServerChange
<1>6. CASE WakeTimer \/ WakeNotified
  <2>1. UNCHANGED <<registry, loop.answers, loop.configs, loop.pending>>
    BY <1>6 DEF WakeTimer, WakeNotified, TypeOK, LoopType
  <2> QED BY <1>1, <2>1
<1>7. CASE CloneBackends
  <2>1. loop' = Fetching(backends) /\ UNCHANGED registry
    BY <1>7 DEF CloneBackends
  <2> QED BY <2>1, FetchingNone DEF TableInvariant
<1>8. ASSUME NEW i \in loop.pending, FetchDone(i) PROVE TableInvariant'
  <2>1. UNCHANGED registry
    BY <1>8 DEF FetchDone
  <2> QED BY <1>8, <2>1, FetchTable DEF TableInvariant
<1>9. CASE Publish
  <2>1. /\ registry'.source = loop.configs /\ registry'.table = SortByPriority(loop.answers)
        /\ loop' = Waiting /\ loop.pending = {}
    BY <1>9 DEF Publish, RegistryOf
  <2>2. loop.answers \in Seq(Answer) /\ Sortable(loop.answers)
    BY AnswersAreSortable DEF TypeOK, LoopType
  <2>3. OneEach(loop.answers, loop.configs, DOMAIN loop.configs) /\ FailedIsEmpty(loop.answers)
    BY <2>1 DEF TableInvariant
  <2>4. /\ OneEach(registry'.table, registry'.source, DOMAIN registry'.source)
        /\ FailedIsEmpty(registry'.table)
    BY <2>1, <2>2, <2>3, SortedOneEach
  <2> QED BY <2>1, <2>4, WaitingNone DEF TableInvariant
<1> QED BY <1>2, <1>3, <1>4, <1>5, <1>6, <1>7, <1>8, <1>9 DEF Next, LoopStep

LEMMA TablesHold == Spec => [](TypeOK /\ TableInvariant)
BY InitTable, NextTable, TypeCorrect, PTL DEF Spec

(***************************************************************************)
(* However the answers of a refresh come in, the table that is published   *)
(* has an entry for each backend of the list that was asked, and no other, *)
(* none twice; a failed one is there and lists nothing (registry.rs:54).   *)
(***************************************************************************)
THEOREM TableHasItsBackends == Spec => []TableOfSource
<1>1. TableInvariant => TableOfSource
  BY DEF TableInvariant, TableOfSource
<1> QED BY <1>1, TablesHold, PTL

-----------------------------------------------------------------------------
(***************************************************************************)
(* The safe half of Convergence: while backends stay as they are, a table  *)
(* that was made from the current list is in sync with list and backends.  *)
(* That such a table comes is what RefreshOwed promises and fairness does. *)
(***************************************************************************)
Truthful(entries) ==
  \A k \in DOMAIN entries :
    /\ entries[k].healthy <=> server[entries[k].config.url] # Down
    /\ entries[k].healthy => entries[k].models = server[entries[k].config.url]

Told == Truthful(loop.answers) /\ Truthful(registry.table)

LEMMA NothingIsTruthful == Truthful(<<>>)
<1>1. DOMAIN <<>> = {}
  OBVIOUS
<1> QED BY <1>1 DEF Truthful

LEMMA NextTold == TypeOK /\ Told /\ [Next]_vars /\ UNCHANGED server => Told'
<1> SUFFICES ASSUME TypeOK, Told, [Next]_vars, UNCHANGED server PROVE Told'
  OBVIOUS
<1>1. ASSUME UNCHANGED <<registry, loop.answers>> PROVE Told'
  BY <1>1 DEF Told, Truthful
<1>2. ASSUME NEW a \in Admins, AdminStep(a) PROVE Told'
  BY <1>1, <1>2 DEF AdminStep, AddBackend, UpdateBackend, DeleteBackend, Edit, SaveOk, NotSaved
<1>3. ASSUME NEW r \in Requests, RequestStep(r) PROVE Told'
  BY <1>1, <1>3 DEF RequestStep, ClientRequest, Passthrough, AdminChat, AdminChatDispatch,
     Resolve, Answered, SetRequest
<1>4. CASE RefreshBackends \/ UNCHANGED vars
  BY <1>1, <1>4 DEF RefreshBackends, vars
<1>5. ASSUME NEW u, NEW state, ServerChange(u, state) PROVE Told'
  BY <1>1, <1>5 DEF ServerChange
<1>6. CASE WakeTimer \/ WakeNotified
  <2>1. UNCHANGED <<registry, loop.answers>>
    BY <1>6 DEF WakeTimer, WakeNotified, TypeOK, LoopType
  <2> QED BY <1>1, <2>1
<1>7. CASE CloneBackends
  <2>1. loop'.answers = <<>> /\ UNCHANGED registry
    BY <1>7 DEF CloneBackends, Fetching
  <2>2. Truthful(<<>>)'
    <3>1. DOMAIN <<>> = {}
      OBVIOUS
    <3> QED BY <3>1 DEF Truthful
  <2> QED BY <2>1, <2>2 DEF Told, Truthful
<1>8. ASSUME NEW i \in loop.pending, FetchDone(i) PROVE Told'
  <2> DEFINE e == Fetched(loop.configs[i])
             s == loop.answers
  <2>1. s \in Seq(Answer)
    BY DEF TypeOK, LoopType
  <2>2. loop'.answers = Append(s, e) /\ UNCHANGED registry
    BY <1>8 DEF FetchDone, TypeOK, LoopType
  <2>3. /\ e.healthy <=> server[e.config.url] # Down
        /\ e.healthy => e.models = server[e.config.url]
    BY DEF Fetched, Entry
  <2> HIDE DEF e
  <2>4. /\ DOMAIN Append(s, e) = 1..(Len(s) + 1)
        /\ Len(s) \in Nat /\ DOMAIN s = 1..Len(s)
        /\ \A k \in 1..Len(s) : Append(s, e)[k] = s[k]
        /\ Append(s, e)[Len(s) + 1] = e
    BY <2>1
  <2>5. Truthful(Append(s, e))
    BY <2>3, <2>4 DEF Told, Truthful
  <2> QED BY <2>2, <2>5 DEF Told, Truthful
<1>9. CASE Publish
  <2>1. registry'.table = SortByPriority(loop.answers) /\ loop'.answers = <<>>
    BY <1>9 DEF Publish, RegistryOf, Waiting
  <2>2. loop.answers \in Seq(Answer) /\ Sortable(loop.answers)
    BY AnswersAreSortable DEF TypeOK, LoopType
  <2> DEFINE t == SortByPriority(loop.answers)
  <2>3. PICK o \in Bijection(DOMAIN t, DOMAIN loop.answers) :
               \A k \in DOMAIN t : t[k] = loop.answers[o[k]]
    BY <2>2, SortPermutes
  <2>4. \A k \in DOMAIN t : o[k] \in DOMAIN loop.answers
    BY UseBijection
  <2>5. Truthful(t)
    BY <2>3, <2>4 DEF Told, Truthful
  <2>6. Truthful(<<>>)
    BY NothingIsTruthful
  <2> HIDE DEF t
  <2> QED BY <2>1, <2>5, <2>6 DEF Told, Truthful, t
<1> QED BY <1>2, <1>3, <1>4, <1>5, <1>6, <1>7, <1>8, <1>9 DEF Next, LoopStep

LEMMA OneEachHasAll ==
  ASSUME NEW entries, NEW configs, OneEach(entries, configs, DOMAIN configs)
  PROVE  {e.config : e \in EntriesOf(entries)} = {configs[i] : i \in DOMAIN configs}
<1>1. PICK p \in Bijection(DOMAIN entries, DOMAIN configs) :
             \A k \in DOMAIN entries : entries[k].config = configs[p[k]]
  BY DEF OneEach
<1>2. /\ \A k \in DOMAIN entries : p[k] \in DOMAIN configs
      /\ \A i \in DOMAIN configs : \E k \in DOMAIN entries : p[k] = i
  BY UseBijection
<1>3. ASSUME NEW e \in EntriesOf(entries) PROVE e.config \in {configs[i] : i \in DOMAIN configs}
  <2>1. PICK k \in DOMAIN entries : e = entries[k]
    BY DEF EntriesOf
  <2> QED BY <1>1, <1>2, <2>1
<1>4. ASSUME NEW i \in DOMAIN configs PROVE configs[i] \in {e.config : e \in EntriesOf(entries)}
  <2>1. PICK k \in DOMAIN entries : p[k] = i
    BY <1>2
  <2>2. entries[k] \in EntriesOf(entries) /\ entries[k].config = configs[i]
    BY <1>1, <2>1 DEF EntriesOf
  <2> QED BY <2>2
<1> QED BY <1>3, <1>4

(***************************************************************************)
(* In every behaviour in which no backend changes what it answers, a table *)
(* of the current list has exactly its backends and says what they answer. *)
(***************************************************************************)
THEOREM StillBackendsAreInSync ==
  Spec /\ [][UNCHANGED server]_vars => [](registry.source = backends => InSync)
<1>1. Init => Told
  <2>1. Init => loop.answers = <<>> /\ registry.table = <<>>
    BY DEF Init, Fetching
  <2> QED BY <2>1, NothingIsTruthful DEF Told
<1>2. TypeOK /\ Told /\ [Next]_vars /\ [UNCHANGED server]_vars => Told'
  <2>1. [UNCHANGED server]_vars => UNCHANGED server
    BY DEF vars
  <2> QED BY <2>1, NextTold
<1>3. TableInvariant /\ Told => (registry.source = backends => InSync)
  <2> SUFFICES ASSUME TableInvariant, Told, registry.source = backends PROVE InSync
    OBVIOUS
  <2>1. {e.config : e \in EntriesOf(registry.table)} = {backends[i] : i \in DOMAIN backends}
    BY OneEachHasAll DEF TableInvariant
  <2>2. ASSUME NEW e \in EntriesOf(registry.table)
        PROVE  /\ e.healthy <=> server[e.config.url] # Down
               /\ e.healthy => e.models = server[e.config.url]
    <3>1. PICK k \in DOMAIN registry.table : e = registry.table[k]
      BY DEF EntriesOf
    <3> QED BY <3>1 DEF Told, Truthful
  <2> QED BY <2>1, <2>2 DEF InSync
<1> QED BY <1>1, <1>2, <1>3, TablesHold, PTL DEF Spec
=============================================================================

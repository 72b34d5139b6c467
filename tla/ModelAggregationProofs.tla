----------------------- MODULE ModelAggregationProofs -----------------------
(***************************************************************************)
(* ModelAggregation for any backends, answers and listings: what a listing *)
(* has merged so far is told by the backends it has heard from, in the     *)
(* order it heard from them, whatever changes meanwhile.  Hence the three  *)
(* properties of a complete listing.                                       *)
(***************************************************************************)
EXTENDS ModelAggregation, FiniteSetTheorems, FunctionTheorems, SequenceTheorems, TLAPS

(***************************************************************************)
(* The table.  InOrder lists every position once, by key: the number of    *)
(* positions up to i is an injection into 1..n, hence onto it.             *)
(***************************************************************************)
LEMMA InOrderEnumerates ==
  ASSUME NEW I \in SUBSET Int, IsFiniteSet(I), NEW key \in [I -> Int]
  PROVE  LET o == InOrder(I, key) IN
         /\ Cardinality(I) \in Nat
         /\ o \in [1..Cardinality(I) -> I]
         /\ \A i \in I : \E k \in 1..Cardinality(I) : o[k] = i
         /\ \A k, l \in 1..Cardinality(I) : k <= l <=> GoesBefore(key, o[k], o[l])
<1> DEFINE n == Cardinality(I)
           Rank(i) == Cardinality(UpTo(I, key, i))
           o == InOrder(I, key)
<1>0. n \in Nat
  BY FS_CardinalityType
<1>1. ASSUME NEW i \in I
      PROVE  /\ IsFiniteSet(UpTo(I, key, i)) /\ i \in UpTo(I, key, i)
             /\ Rank(i) \in 1..n
  <2>1. UpTo(I, key, i) \in SUBSET I /\ i \in UpTo(I, key, i)
    BY DEF UpTo, GoesBefore
  <2>2. IsFiniteSet(UpTo(I, key, i)) /\ Rank(i) <= n
    BY <2>1, FS_Subset
  <2>3. Rank(i) \in Nat /\ Rank(i) # 0
    BY <2>1, <2>2, FS_CardinalityType, FS_EmptySet
  <2> QED BY <1>0, <2>1, <2>2, <2>3
<1>2. ASSUME NEW i \in I, NEW j \in I, GoesBefore(key, j, i), i # j
      PROVE  Rank(j) < Rank(i)
  <2>1. UpTo(I, key, j) \in SUBSET UpTo(I, key, i)
    <3> SUFFICES ASSUME NEW x \in I, GoesBefore(key, x, j)
                 PROVE  GoesBefore(key, x, i)
      BY DEF UpTo
    <3>1. key[x] \in Int /\ key[j] \in Int /\ key[i] \in Int
      OBVIOUS
    <3> QED BY <1>2, <3>1 DEF GoesBefore
  <2>2. i \notin UpTo(I, key, j)
    BY <1>2 DEF UpTo, GoesBefore
  <2>3. Rank(j) <= Rank(i) /\ Rank(j) # Rank(i)
    BY <1>1, <2>1, <2>2, FS_Subset
  <2> QED BY <1>1, <2>3
<1>3. \A i, j \in I : i # j => GoesBefore(key, i, j) \/ GoesBefore(key, j, i)
  BY DEF GoesBefore
<1>4. \A i, j \in I : Rank(i) <= Rank(j) <=> GoesBefore(key, i, j)
  <2> SUFFICES ASSUME NEW i \in I, NEW j \in I
               PROVE  Rank(i) <= Rank(j) <=> GoesBefore(key, i, j)
    OBVIOUS
  <2>1. Rank(i) \in Int /\ Rank(j) \in Int
    BY <1>1, <1>0
  <2>2. CASE i = j
    BY <2>1, <2>2 DEF GoesBefore
  <2>3. CASE i # j /\ GoesBefore(key, i, j)
    BY <1>2, <2>1, <2>3
  <2>4. CASE i # j /\ ~GoesBefore(key, i, j)
    BY <1>2, <1>3, <2>1, <2>4
  <2> QED BY <2>2, <2>3, <2>4
<1>5. \A k \in 1..n : \E i \in I : Rank(i) = k
  <2> DEFINE f == [i \in I |-> Rank(i)]
  <2>1. f \in [I -> 1..n]
    BY <1>1
  <2>2. \A i, j \in I : f[i] = f[j] => i = j
    BY <1>1, <1>2, <1>3
  <2>3. f \in Injection(I, 1..n)
    BY <2>1, <2>2 DEF Injection, IsInjective
  <2>4. IsFiniteSet(1..n) /\ Cardinality(1..n) = n
    BY <1>0, FS_Interval
  <2>5. f \in Surjection(I, 1..n)
    BY <2>3, <2>4, FS_Injection
  <2> QED BY <2>5 DEF Surjection
<1>6. o = [k \in 1..n |-> CHOOSE i \in I : Rank(i) = k]
  BY DEF InOrder
<1>7. \A k \in 1..n : o[k] \in I /\ Rank(o[k]) = k
  BY <1>5, <1>6
<1>8. o \in [1..n -> I]
  BY <1>6, <1>7
<1>9. \A i \in I : \E k \in 1..n : o[k] = i
  <2> SUFFICES ASSUME NEW i \in I PROVE o[Rank(i)] = i
    BY <1>1
  <2> DEFINE j == o[Rank(i)]
  <2>1. Rank(j) = Rank(i) /\ j \in I /\ Rank(i) \in Int
    BY <1>1, <1>7, <1>0
  <2>2. CASE j # i
    <3> HIDE DEF j
    <3> QED BY <1>2, <1>3, <2>1, <2>2
  <2> QED BY <2>2
<1>10. \A k, l \in 1..n : k <= l <=> GoesBefore(key, o[k], o[l])
  BY <1>4, <1>7
<1> QED BY <1>0, <1>8, <1>9, <1>10

LEMMA Positions ==
  ASSUME NEW T, NEW s \in Seq(T)
  PROVE  /\ Len(s) \in Nat /\ DOMAIN s = 1..Len(s) /\ DOMAIN s \in SUBSET Int
         /\ IsFiniteSet(DOMAIN s) /\ Cardinality(DOMAIN s) = Len(s)
         /\ \A I \in SUBSET (DOMAIN s) : I \in SUBSET Int /\ IsFiniteSet(I)
<1>1. Len(s) \in Nat /\ DOMAIN s = 1..Len(s)
  BY LenProperties
<1>2. IsFiniteSet(1..Len(s)) /\ Cardinality(1..Len(s)) = Len(s)
  <2>1. IsFiniteSet(1..Len(s))
        /\ Cardinality(1..Len(s)) = IF 1 > Len(s) THEN 0 ELSE Len(s) - 1 + 1
    BY <1>1, FS_Interval
  <2> QED BY <1>1, <2>1
<1>3. 1..Len(s) \in SUBSET Int
  BY <1>1
<1> QED BY <1>1, <1>2, <1>3, FS_Subset

\* Keep chooses from a sequence, in its order.
LEMMA KeepChooses ==
  ASSUME NEW T, NEW s \in Seq(T), NEW I \in SUBSET (DOMAIN s)
  PROVE  /\ Keep(s, I) \in Seq(T)
         /\ \E o \in [DOMAIN Keep(s, I) -> I] :
              /\ \A k \in DOMAIN Keep(s, I) : Keep(s, I)[k] = s[o[k]]
              /\ \A i \in I : \E k \in DOMAIN Keep(s, I) : o[k] = i
              /\ \A k, l \in DOMAIN Keep(s, I) : o[k] = o[l] => k = l
<1> DEFINE key == [i \in I |-> 0]
           n == Cardinality(I)
           o == InOrder(I, key)
<1>1. I \in SUBSET Int /\ IsFiniteSet(I) /\ key \in [I -> Int]
  BY Positions
<1>2. /\ n \in Nat /\ o \in [1..n -> I]
      /\ \A i \in I : \E k \in 1..n : o[k] = i
      /\ \A k, l \in 1..n : k <= l <=> GoesBefore(key, o[k], o[l])
  BY <1>1, InOrderEnumerates
<1>3. Keep(s, I) = [k \in 1..n |-> s[o[k]]]
  BY <1>2 DEF Keep, Arrange
<1>4. \A i \in I : s[i] \in T
  BY Positions, ElementOfSeq
<1>5. Keep(s, I) \in Seq(T) /\ DOMAIN Keep(s, I) = 1..n
  <2> HIDE DEF o, n
  <2> QED
    BY <1>2, <1>3, <1>4
<1>6. \A k, l \in 1..n : o[k] = o[l] => k = l
  <2> SUFFICES ASSUME NEW k \in 1..n, NEW l \in 1..n, o[k] = o[l] PROVE k = l
    OBVIOUS
  <2>1. o[k] \in I
    BY <1>2
  <2> HIDE DEF o, key, n
  <2>2. GoesBefore(key, o[k], o[l]) /\ GoesBefore(key, o[l], o[k])
    BY <1>1, <2>1 DEF GoesBefore
  <2> QED
    BY <1>2, <2>2
<1> HIDE DEF o, n
<1>7. \A k \in 1..n : Keep(s, I)[k] = s[o[k]]
  BY <1>3
<1> DEFINE kept == Keep(s, I)
<1>8. /\ o \in [DOMAIN kept -> I] /\ \A k \in DOMAIN kept : kept[k] = s[o[k]]
      /\ \A i \in I : \E k \in DOMAIN kept : o[k] = i
      /\ \A k, l \in DOMAIN kept : o[k] = o[l] => k = l
  BY <1>2, <1>5, <1>6, <1>7
<1> HIDE DEF kept
<1>9. \E f \in [DOMAIN kept -> I] :
         /\ \A k \in DOMAIN kept : kept[k] = s[f[k]]
         /\ \A i \in I : \E k \in DOMAIN kept : f[k] = i
         /\ \A k, l \in DOMAIN kept : f[k] = f[l] => k = l
  BY <1>8
<1> QED
  BY <1>5, <1>9 DEF kept

\* Sorting invents no entry.
LEMMA SortChooses ==
  ASSUME NEW T, NEW s \in Seq(T), Sortable(s)
  PROVE  /\ SortByPriority(s) \in Seq(T)
         /\ \A k \in DOMAIN SortByPriority(s) : \E i \in DOMAIN s : SortByPriority(s)[k] = s[i]
<1> DEFINE I == DOMAIN s
           key == [i \in I |-> s[i].config.priority]
           n == Cardinality(I)
           o == InOrder(I, key)
<1>1. I \in SUBSET Int /\ IsFiniteSet(I) /\ key \in [I -> Int]
  BY Positions DEF Sortable
<1>2. n \in Nat /\ o \in [1..n -> I]
  BY <1>1, InOrderEnumerates
<1>3. SortByPriority(s) = [k \in 1..n |-> s[o[k]]]
  BY <1>2 DEF SortByPriority, Arrange
<1>4. \A i \in I : s[i] \in T
  BY Positions, ElementOfSeq
<1> HIDE DEF o, n
<1>5. SortByPriority(s) \in Seq(T)
  BY <1>2, <1>3, <1>4
<1> QED
  BY <1>2, <1>3, <1>5

\* A non-empty finite set of positions has a first one by any key.
LEMMA FirstExists ==
  ASSUME NEW I \in SUBSET Int, IsFiniteSet(I), I # {}, NEW key \in [I -> Int]
  PROVE  \E i \in I : \A j \in I : GoesBefore(key, i, j)
<1> DEFINE n == Cardinality(I)
           o == InOrder(I, key)
<1>1. /\ n \in Nat
      /\ o \in [1..n -> I]
      /\ \A i \in I : \E k \in 1..n : o[k] = i
      /\ \A k, l \in 1..n : k <= l <=> GoesBefore(key, o[k], o[l])
  BY InOrderEnumerates
<1> HIDE DEF o, n
<1>2. 1 \in 1..n
  <2>1. PICK i \in I : TRUE
    OBVIOUS
  <2>2. PICK k \in 1..n : o[k] = i
    BY <1>1, <2>1
  <2> QED BY <1>1, <2>2
<1>3. \A j \in I : GoesBefore(key, o[1], j)
  BY <1>1, <1>2
<1> QED BY <1>1, <1>2, <1>3

\* The positions of the healthy entries that list the model.
Holders(entries, m) == {i \in Healthy(entries) : m \in entries[i].models}

\* ResolveBackend finds the first healthy entry that lists the model.
LEMMA ResolveFindsFirst ==
  ASSUME NEW T, NEW es \in Seq(T), NEW m
  PROVE  \/ Holders(es, m) = {} /\ ResolveBackend(es, m) = None
         \/ \E i \in Holders(es, m) :
              /\ ResolveBackend(es, m) = es[i].config
              /\ \A j \in Holders(es, m) : i <= j
<1> DEFINE L == Listing(es, m)
           n == Cardinality(L)
           o == InOrder(L, [i \in L |-> 0])
           index == ModelIndex(es)
           listed == IF m \in DOMAIN index THEN index[m] ELSE <<>>
           healthy == {k \in DOMAIN listed : es[listed[k]].healthy}
           first == CHOOSE k \in healthy : \A l \in healthy : k <= l
<1>1. L \in SUBSET Int /\ IsFiniteSet(L)
  BY Positions DEF Listing
<1>2. [i \in L |-> 0] \in [L -> Int]
  OBVIOUS
<1>3. /\ n \in Nat
      /\ o \in [1..n -> L]
      /\ \A i \in L : \E k \in 1..n : o[k] = i
      /\ \A k, l \in 1..n : k <= l <=> GoesBefore([i \in L |-> 0], o[k], o[l])
  BY <1>1, <1>2, InOrderEnumerates
<1>4. ASSUME NEW k \in 1..n, NEW l \in 1..n, k <= l PROVE o[k] <= o[l]
  <2> HIDE DEF n, o, L
  <2>1. o[k] \in L /\ o[l] \in L /\ GoesBefore([i \in L |-> 0], o[k], o[l])
    BY <1>3, <1>4
  <2> QED BY <1>1, <2>1 DEF GoesBefore
<1>5. ResolveBackend(es, m)
        = IF healthy = {} THEN None ELSE es[listed[first]].config
  BY DEF ResolveBackend
<1>6. CASE L = {}
  <2>1. m \notin DOMAIN index
    BY <1>6 DEF ModelIndex, Listing
  <2>2. healthy = {}
    BY <2>1
  <2>3. Holders(es, m) = {}
    BY <1>6 DEF Holders, Healthy, Listing
  <2> QED BY <1>5, <2>2, <2>3
<1>7. CASE L # {}
  <2>1. m \in DOMAIN index /\ index[m] = o
    BY <1>7 DEF ModelIndex, Listing
  <2>2. listed = o
    BY <2>1
  <2>3. healthy = {k \in 1..n : es[o[k]].healthy}
    BY <1>3, <2>2
  <2> HIDE DEF listed, healthy, o, n
  <2>4. \A i \in Holders(es, m) : i \in L
    BY DEF Holders, Healthy, Listing
  <2>5. \A k \in healthy : o[k] \in Holders(es, m)
    BY <1>3, <2>3 DEF Holders, Healthy, Listing
  <2>6. ASSUME NEW i \in Holders(es, m) PROVE \E k \in healthy : o[k] = i
    <3>1. PICK k \in 1..n : o[k] = i
      BY <1>3, <2>4
    <3> QED BY <2>3, <3>1 DEF Holders, Healthy
  <2>7. CASE healthy = {}
    BY <1>5, <2>6, <2>7
  <2>8. CASE healthy # {}
    <3>1. healthy \in SUBSET Int /\ IsFiniteSet(healthy)
      <4>1. n \in Int /\ healthy \in SUBSET (1..n)
        BY <1>3, <2>3
      <4>2. IsFiniteSet(1..n)
        BY <4>1, FS_Interval
      <4>3. IsFiniteSet(healthy)
        BY <4>1, <4>2, FS_Subset
      <4> QED BY <4>1, <4>3
    <3>2. PICK k \in healthy : \A l \in healthy : GoesBefore([i \in healthy |-> 0], k, l)
      <4>1. [i \in healthy |-> 0] \in [healthy -> Int]
        OBVIOUS
      <4> QED BY <2>8, <3>1, <4>1, FirstExists
    <3>3. \A l \in healthy : k <= l
      BY <3>1, <3>2 DEF GoesBefore
    <3>4. first \in healthy /\ \A l \in healthy : first <= l
      BY <3>3
    <3> HIDE DEF first
    <3>5. \A j \in Holders(es, m) : o[first] <= j
      <4> SUFFICES ASSUME NEW j \in Holders(es, m) PROVE o[first] <= j
        OBVIOUS
      <4>1. PICK l \in healthy : o[l] = j
        BY <2>6
      <4> QED BY <1>4, <2>3, <3>4, <4>1
    <3>6. ResolveBackend(es, m) = es[o[first]].config
      BY <1>5, <2>2, <2>8
    <3> QED BY <2>5, <3>4, <3>5, <3>6
  <2> QED BY <2>7, <2>8
<1> QED BY <1>6, <1>7

-----------------------------------------------------------------------------
(***************************************************************************)
(* The merge of one answer.                                                *)
(***************************************************************************)
Item == [name : Models, from : Nat]

Distinct(list) == \A j, k \in DOMAIN list : list[j].name = list[k].name => j = k

LEMMA Joined ==
  ASSUME NEW T, NEW s \in Seq(T), NEW t \in Seq(T)
  PROVE  /\ s \o t \in Seq(T) /\ DOMAIN (s \o t) = 1..(Len(s) + Len(t))
         /\ Len(s) \in Nat /\ Len(t) \in Nat /\ DOMAIN s = 1..Len(s) /\ DOMAIN t = 1..Len(t)
         /\ \A k \in DOMAIN s : k \in DOMAIN (s \o t) /\ (s \o t)[k] = s[k]
         /\ \A k \in DOMAIN t : Len(s) + k \in DOMAIN (s \o t) /\ (s \o t)[Len(s) + k] = t[k]
         /\ \A k \in DOMAIN (s \o t) :
              k \in DOMAIN s \/ (k > Len(s) /\ k - Len(s) \in DOMAIN t /\ (s \o t)[k] = t[k - Len(s)])
<1>1. /\ s \o t \in Seq(T) /\ Len(s) \in Nat /\ Len(t) \in Nat /\ DOMAIN s = 1..Len(s) /\ DOMAIN t = 1..Len(t)
      /\ DOMAIN (s \o t) = 1..(Len(s) + Len(t))
  OBVIOUS
<1>2. /\ \A k \in 1..Len(s) : (s \o t)[k] = s[k]
      /\ \A k \in 1..Len(t) : (s \o t)[Len(s) + k] = t[k]
  BY <1>1
<1> DEFINE n == Len(s)
           m == Len(t)
<1>3. \A k \in 1..(n + m) : k \in 1..n \/ (k > n /\ k - n \in 1..m /\ n + (k - n) = k)
  <2> HIDE DEF n, m
  <2> SUFFICES ASSUME n \in Nat, m \in Nat
               PROVE  \A k \in 1..(n + m) : k \in 1..n \/ (k > n /\ k - n \in 1..m /\ n + (k - n) = k)
    BY <1>1 DEF n, m
  <2> QED
    OBVIOUS
<1> QED
  BY <1>1, <1>2, <1>3

LEMMA FromItems ==
  ASSUME NEW i \in Nat, NEW names \in Seq(Models)
  PROVE  /\ From(i, names) \in Seq(Item) /\ Len(From(i, names)) = Len(names)
         /\ \A k \in 1..Len(names) : From(i, names)[k].name = names[k] /\ From(i, names)[k].from = i
<1>1. Len(names) \in Nat /\ DOMAIN names = 1..Len(names) /\ \A k \in 1..Len(names) : names[k] \in Models
  OBVIOUS
<1>2. From(i, names) = [k \in 1..Len(names) |-> [name |-> names[k], from |-> i]]
  BY <1>1 DEF From
<1>3. \A k \in 1..Len(names) : [name |-> names[k], from |-> i] \in Item
  BY <1>1 DEF Item
<1> QED
  BY <1>1, <1>2, <1>3

\* What AddNew adds: items of this answer, each with a new name, and so that no
\* name of the answer is missing afterwards.
LEMMA AddNewAdds ==
  ASSUME NEW merged \in Seq(Item), Distinct(merged), NEW i \in Nat, NEW names \in Seq(Models)
  PROVE  \E more \in Seq(Item) :
           /\ AddNew(merged, i, names) = merged \o more
           /\ \A k \in DOMAIN more : more[k].from = i /\ more[k].name \in S!ToSet(names) \ Listed(merged)
           /\ Distinct(merged \o more)
           /\ S!ToSet(names) \subseteq Listed(merged \o more)
<1> DEFINE new == {k \in DOMAIN names : /\ names[k] \notin Listed(merged)
                                        /\ \A j \in 1..(k - 1) : names[j] # names[k]}
           more == Keep(From(i, names), new)
<1>1. /\ Len(names) \in Nat /\ DOMAIN names = 1..Len(names) /\ Len(merged) \in Nat
      /\ DOMAIN merged = 1..Len(merged)
  OBVIOUS
<1>2. /\ From(i, names) \in Seq(Item) /\ DOMAIN From(i, names) = DOMAIN names
      /\ \A k \in DOMAIN names : From(i, names)[k].name = names[k] /\ From(i, names)[k].from = i
  BY <1>1, FromItems
<1>3. new \in SUBSET DOMAIN From(i, names)
  BY <1>2
<1>4. /\ more \in Seq(Item)
      /\ \E o \in [DOMAIN more -> new] :
           /\ \A k \in DOMAIN more : more[k] = From(i, names)[o[k]]
           /\ \A j \in new : \E k \in DOMAIN more : o[k] = j
           /\ \A k, l \in DOMAIN more : o[k] = o[l] => k = l
  <2> HIDE DEF new
  <2> QED
    BY <1>2, <1>3, KeepChooses
<1>5. AddNew(merged, i, names) = merged \o more
  BY DEF AddNew
<1>6. \A k \in new : k \in DOMAIN names /\ names[k] \notin Listed(merged) /\ \A j \in new : names[j] = names[k] => j = k
  <2> SUFFICES ASSUME NEW k \in new, NEW j \in new, names[j] = names[k] PROVE j = k
    OBVIOUS
  <2>1. j \in 1..Len(names) /\ k \in 1..Len(names)
    BY <1>1
  <2>2. ~ (j \in 1..(k - 1)) /\ ~ (k \in 1..(j - 1))
    OBVIOUS
  <2> QED
    BY <2>1, <2>2
<1>7. \A m \in S!ToSet(names) : m \notin Listed(merged) => \E k \in new : names[k] = m
  <2> SUFFICES ASSUME NEW m \in S!ToSet(names), m \notin Listed(merged)
               PROVE  \E k \in new : names[k] = m
    OBVIOUS
  <2> DEFINE at == {k \in DOMAIN names : names[k] = m}
             key == [k \in at |-> 0]
  <2>1. at # {} /\ at \in SUBSET DOMAIN names
    BY DEF S!ToSet
  <2>2. at \in SUBSET Int /\ IsFiniteSet(at)
    <3> HIDE DEF at
    <3> QED
      BY <2>1, Positions
  <2>3. key \in [at -> Int]
    OBVIOUS
  <2>4. PICK k \in at : \A j \in at : GoesBefore(key, k, j)
    <3> HIDE DEF at, key
    <3> QED
      BY <2>1, <2>2, <2>3, FirstExists
  <2>5. \A j \in at : k <= j
    BY <2>2, <2>4 DEF GoesBefore
  <2>6. \A j \in 1..(k - 1) : names[j] # names[k]
    BY <1>1, <2>5
  <2> QED
    BY <2>4, <2>6
<1> HIDE DEF new, more
<1>8. PICK o \in [DOMAIN more -> new] :
        /\ \A k \in DOMAIN more : more[k] = From(i, names)[o[k]]
        /\ \A j \in new : \E k \in DOMAIN more : o[k] = j
        /\ \A k, l \in DOMAIN more : o[k] = o[l] => k = l
  BY <1>4
<1>9. \A k \in DOMAIN more : more[k].name = names[o[k]] /\ more[k].from = i
  BY <1>2, <1>6, <1>8
<1>10. \A k \in DOMAIN more : more[k].from = i /\ more[k].name \in S!ToSet(names) \ Listed(merged)
  BY <1>6, <1>8, <1>9 DEF S!ToSet
<1>11. \A j, k \in DOMAIN more : more[j].name = more[k].name => j = k
  BY <1>6, <1>8, <1>9
<1> DEFINE all == merged \o more
<1>12. /\ \A k \in DOMAIN merged : k \in DOMAIN all /\ all[k] = merged[k]
       /\ \A k \in DOMAIN more : Len(merged) + k \in DOMAIN all /\ all[Len(merged) + k] = more[k]
       /\ \A k \in DOMAIN all :
            k \in DOMAIN merged \/ (k > Len(merged) /\ k - Len(merged) \in DOMAIN more /\ all[k] = more[k - Len(merged)])
  BY <1>4, Joined
<1>a. DOMAIN all \in SUBSET Int
  BY <1>4, Joined
<1> HIDE DEF all
<1>13. Distinct(all)
  <2> SUFFICES ASSUME NEW j \in DOMAIN all, NEW k \in DOMAIN all, all[j].name = all[k].name
               PROVE  j = k
    BY DEF Distinct
  <2>o. \A l \in DOMAIN merged : all[l].name \in Listed(merged)
    BY <1>12 DEF Listed
  <2>n. \A l \in DOMAIN all : l \notin DOMAIN merged => all[l].name \notin Listed(merged)
    BY <1>10, <1>12
  <2>1. CASE j \in DOMAIN merged /\ k \in DOMAIN merged
    BY <1>12, <2>1 DEF Distinct
  <2>2. CASE j \notin DOMAIN merged /\ k \notin DOMAIN merged
    <3>1. j - Len(merged) = k - Len(merged)
      BY <1>11, <1>12, <2>2
    <3> QED
      BY <1>1, <1>a, <3>1
  <2> QED
    BY <2>1, <2>2, <2>o, <2>n
<1>14. S!ToSet(names) \subseteq Listed(all)
  <2> SUFFICES ASSUME NEW m \in S!ToSet(names) PROVE m \in Listed(all)
    OBVIOUS
  <2>1. CASE m \in Listed(merged)
    <3>1. PICK k \in DOMAIN merged : merged[k].name = m
      BY <2>1 DEF Listed
    <3>2. k \in DOMAIN all /\ all[k].name = m
      BY <1>12, <3>1
    <3> QED
      BY <3>2 DEF Listed
  <2>2. CASE m \notin Listed(merged)
    <3>1. PICK j \in new : names[j] = m
      BY <1>7, <2>2
    <3>2. PICK k \in DOMAIN more : o[k] = j
      BY <1>8
    <3>3. more[k].name = m
      BY <1>9, <3>1, <3>2
    <3>4. (Len(merged) + k) \in DOMAIN all /\ all[Len(merged) + k].name = m
      BY <1>12, <3>3
    <3> QED
      BY <3>4 DEF Listed
  <2> QED
    BY <2>1, <2>2
<1> QED
  BY <1>4, <1>5, <1>10, <1>13, <1>14 DEF all

\* What a list says of one backend, when more is appended that is not of it.
LEMMA PieceKept ==
  ASSUME NEW merged \in Seq(Item), NEW more \in Seq(Item), NEW i, NEW names \in Seq(Models),
         \A k \in DOMAIN more : more[k].from # i, AsAnswered(merged, i, names)
  PROVE  AsAnswered(merged \o more, i, names)
<1> DEFINE all == merged \o more
<1>1. PICK start \in 0..Len(merged) :
        /\ {k \in DOMAIN merged : merged[k].from = i} = (start + 1)..(start + Len(names))
        /\ \A j \in DOMAIN names : merged[start + j].name = names[j]
  BY DEF AsAnswered
<1>2. /\ \A k \in DOMAIN merged : k \in DOMAIN all /\ all[k] = merged[k]
      /\ \A k \in DOMAIN all :
           k \in DOMAIN merged \/ (k > Len(merged) /\ k - Len(merged) \in DOMAIN more /\ all[k] = more[k - Len(merged)])
      /\ DOMAIN merged = 1..Len(merged) /\ Len(merged) \in Nat /\ Len(more) \in Nat
  BY Joined
<1>l. Len(names) \in Nat /\ DOMAIN names = 1..Len(names) /\ Len(all) = Len(merged) + Len(more)
  OBVIOUS
<1> HIDE DEF all
<1>3. {k \in DOMAIN all : all[k].from = i} = {k \in DOMAIN merged : merged[k].from = i}
  BY <1>2
<1>4. \A j \in DOMAIN names : all[start + j].name = names[j]
  <2> SUFFICES ASSUME NEW j \in DOMAIN names PROVE all[start + j].name = names[j]
    OBVIOUS
  <2>1. (start + j) \in (start + 1)..(start + Len(names))
    BY <1>1, <1>2, <1>l
  <2>2. (start + j) \in DOMAIN merged
    BY <1>1, <2>1
  <2> QED
    BY <1>1, <1>2, <2>2
<1>5. start \in 0..Len(all)
  BY <1>1, <1>2, <1>l
<1>6. AsAnswered(all, i, names)
  BY <1>1, <1>3, <1>4, <1>5 DEF AsAnswered
<1> QED
  BY <1>6 DEF all

\* The first answer of a backend makes its piece.
LEMMA PieceMade ==
  ASSUME NEW merged \in Seq(Item), NEW i \in Nat, NEW names \in Seq(Models),
         \A k \in DOMAIN merged : merged[k].from # i
  PROVE  AsAnswered(merged \o From(i, names), i, names)
<1> DEFINE more == From(i, names)
           all == merged \o more
<1>1. /\ more \in Seq(Item) /\ Len(more) = Len(names)
      /\ \A k \in 1..Len(names) : more[k].name = names[k] /\ more[k].from = i
  BY FromItems
<1> HIDE DEF more
<1>s. more \in Seq(Item)
  BY <1>1
<1>2. /\ \A k \in DOMAIN merged : k \in DOMAIN all /\ all[k] = merged[k]
      /\ \A k \in DOMAIN more : Len(merged) + k \in DOMAIN all /\ all[Len(merged) + k] = more[k]
      /\ \A k \in DOMAIN all :
           k \in DOMAIN merged \/ (k > Len(merged) /\ k - Len(merged) \in DOMAIN more /\ all[k] = more[k - Len(merged)])
      /\ DOMAIN merged = 1..Len(merged) /\ Len(merged) \in Nat /\ DOMAIN all = 1..(Len(merged) + Len(more))
  BY <1>s, Joined
<1>l. Len(names) \in Nat /\ DOMAIN names = 1..Len(names) /\ DOMAIN more = 1..Len(names)
      /\ Len(all) = Len(merged) + Len(more)
  <2>1. Len(all) = Len(merged) + Len(more)
    BY <1>s
  <2>2. Len(names) \in Nat /\ DOMAIN names = 1..Len(names)
    OBVIOUS
  <2>3. DOMAIN more = 1..Len(more)
    BY <1>s
  <2> QED
    BY <1>1, <2>1, <2>2, <2>3
<1> HIDE DEF all
<1>3. {k \in DOMAIN all : all[k].from = i} = (Len(merged) + 1)..(Len(merged) + Len(names))
  <2>1. \A k \in DOMAIN all : all[k].from = i <=> k \notin DOMAIN merged
    BY <1>1, <1>2, <1>l
  <2> QED
    BY <1>1, <1>2, <1>l, <2>1
<1>4. \A j \in DOMAIN names : all[Len(merged) + j].name = names[j]
  BY <1>1, <1>2, <1>l
<1>5. Len(merged) \in 0..Len(all)
  BY <1>1, <1>2, <1>l
<1>6. AsAnswered(all, i, names)
  BY <1>3, <1>4, <1>5 DEF AsAnswered
<1> QED
  BY <1>6 DEF all, more

-----------------------------------------------------------------------------
(***************************************************************************)
(* The invariant of a listing l while the backends are as srv says.  Every *)
(* backend asked is at one place: its task runs, has ended, or has been    *)
(* heard.  What was heard from a backend that did not change meanwhile is  *)
(* in the list, and what is in the list was heard; of two backends that    *)
(* name a model, the list has the one heard first.                         *)
(***************************************************************************)
EntryType == [config : Config, models : SUBSET Models, healthy : BOOLEAN]
DoneType == [from : Nat, answer : Answers \cup {Down}]
ListingType ==
  [kind : {"none", "models", "running"}, table : Seq(EntryType), running : SUBSET Nat,
   done : Seq(DoneType), merged : Seq(Item), order : Seq(Nat), stale : BOOLEAN, moved : SUBSET Urls]

Asked(l) == IF l.kind = "models" THEN Healthy(l.table) ELSE HealthyOllama(l.table)
Ended(l) == {l.done[k].from : k \in DOMAIN l.done}
Heard(l) == {l.order[k] : k \in DOMAIN l.order}
Unmoved(l, i) == l.table[i].config.url \notin l.moved
AnswerOf(l, srv, i) == srv[l.table[i].config.url]
Counts(l, srv, i) == Unmoved(l, i) /\ AnswerOf(l, srv, i) \in Answers

\* What the table says of a healthy backend is what the backend says.
Told(e, srv) == e.healthy => srv[e.config.url] \in Answers /\ e.models = S!ToSet(srv[e.config.url])

EachOnce(l) ==
  /\ l.running \cup Ended(l) \cup Heard(l) = Asked(l)
  /\ l.running \cap Ended(l) = {} /\ Heard(l) \cap (l.running \cup Ended(l)) = {}
  /\ \A j, k \in DOMAIN l.done : l.done[j].from = l.done[k].from => j = k

TableTold(l, srv) ==
  ~ l.stale => \A i \in DOMAIN l.table : Unmoved(l, i) => Told(l.table[i], srv)

DoneTold(l, srv) ==
  \A k \in DOMAIN l.done :
    Unmoved(l, l.done[k].from) => l.done[k].answer = AnswerOf(l, srv, l.done[k].from)

ItemsTold(l, srv) ==
  \A k \in DOMAIN l.merged :
    /\ l.merged[k].from \in Heard(l)
    /\ Unmoved(l, l.merged[k].from) =>
         Counts(l, srv, l.merged[k].from) /\ l.merged[k].name \in S!ToSet(AnswerOf(l, srv, l.merged[k].from))

ModelsTold(l, srv) ==
  l.kind = "models" =>
    /\ Distinct(l.merged)
    /\ \A i \in Heard(l) : Counts(l, srv, i) => S!ToSet(AnswerOf(l, srv, i)) \subseteq Listed(l.merged)

FirstTold(l, srv) ==
  l.kind = "models" =>
    \A k \in DOMAIN l.merged : \A a, b \in DOMAIN l.order :
      l.order[b] = l.merged[k].from /\ a < b /\ Counts(l, srv, l.order[a]) =>
        l.merged[k].name \notin S!ToSet(AnswerOf(l, srv, l.order[a]))

RunningTold(l, srv) ==
  l.kind # "models" =>
    \A i \in Heard(l) : Counts(l, srv, i) => AsAnswered(l.merged, i, AnswerOf(l, srv, i))

Good(l, srv) ==
  /\ l \in ListingType /\ (l.kind = "none" => l = Idle)
  /\ EachOnce(l) /\ TableTold(l, srv) /\ DoneTold(l, srv) /\ ItemsTold(l, srv)
  /\ ModelsTold(l, srv) /\ FirstTold(l, srv) /\ RunningTold(l, srv)

LEMMA HealthyPositions ==
  ASSUME NEW es \in Seq(EntryType)
  PROVE  Healthy(es) \in SUBSET Nat /\ HealthyOllama(es) \in SUBSET Healthy(es)
         /\ Healthy(es) \in SUBSET DOMAIN es
<1>1. DOMAIN es = 1..Len(es) /\ Len(es) \in Nat
  OBVIOUS
<1> QED
  BY <1>1 DEF Healthy, HealthyOllama

\* A backend changes: less is known of the answers, and that remains.
LEMMA MovedIsGood ==
  ASSUME NEW l, NEW srv, Good(l, srv), NEW u \in Urls, NEW srv2,
         \A v \in Urls : v # u => srv2[v] = srv[v], l.kind # "none",
         NEW new, new.kind = l.kind, new.table = l.table, new.running = l.running, new.done = l.done,
         new.merged = l.merged, new.order = l.order, new.stale = l.stale, new.moved = l.moved \cup {u},
         new \in ListingType
  PROVE  Good(new, srv2)
<1>1. \A i \in DOMAIN l.table : l.table[i].config.url \in Urls
  <2>1. \A i \in DOMAIN l.table : l.table[i] \in EntryType
    BY DEF Good, ListingType
  <2> QED
    BY <2>1 DEF EntryType, Config
<1>2. Asked(new) = Asked(l) /\ Ended(new) = Ended(l) /\ Heard(new) = Heard(l)
  BY DEF Asked, Ended, Heard
<1>3. EachOnce(new)
  BY <1>2 DEF EachOnce, Good
<1>4. Asked(l) \subseteq DOMAIN l.table
  BY HealthyPositions DEF Asked, Good, ListingType
<1>5. \A i \in DOMAIN l.table : Unmoved(new, i) => Unmoved(l, i) /\ AnswerOf(new, srv2, i) = AnswerOf(l, srv, i)
  BY <1>1 DEF Unmoved, AnswerOf
<1>6. \A i \in DOMAIN l.table : Counts(new, srv2, i) => Counts(l, srv, i) /\ AnswerOf(new, srv2, i) = AnswerOf(l, srv, i)
  BY <1>5 DEF Counts
<1>7. Heard(l) \subseteq DOMAIN l.table /\ Ended(l) \subseteq DOMAIN l.table
  BY <1>4 DEF EachOnce, Good
<1>8. TableTold(new, srv2)
  <2>1. \A i \in DOMAIN l.table : Unmoved(new, i) =>
          (Told(l.table[i], srv) => Told(l.table[i], srv2))
    BY <1>5 DEF Told, AnswerOf
  <2>2. TableTold(l, srv)
    BY DEF Good
  <2> QED
    BY <1>5, <2>1, <2>2 DEF TableTold
<1>9. DoneTold(new, srv2)
  <2>1. \A k \in DOMAIN l.done : l.done[k].from \in DOMAIN l.table
    BY <1>7 DEF Ended
  <2>2. DoneTold(l, srv)
    BY DEF Good
  <2> QED
    BY <1>5, <2>1, <2>2 DEF DoneTold
<1>10. ItemsTold(new, srv2)
  <2>1. ItemsTold(l, srv)
    BY DEF Good
  <2>2. \A i \in Heard(l) : Counts(l, srv, i) /\ Unmoved(new, i) => Counts(new, srv2, i)
    BY <1>5, <1>7 DEF Counts
  <2> QED
    BY <1>2, <1>5, <1>7, <2>1, <2>2 DEF ItemsTold
<1>11. ModelsTold(new, srv2)
  <2>1. ModelsTold(l, srv)
    BY DEF Good
  <2> QED
    BY <1>2, <1>6, <1>7, <2>1 DEF ModelsTold
<1>12. FirstTold(new, srv2)
  <2>1. FirstTold(l, srv)
    BY DEF Good
  <2>2. \A a \in DOMAIN l.order : l.order[a] \in DOMAIN l.table
    BY <1>7 DEF Heard
  <2> QED
    BY <1>6, <2>1, <2>2 DEF FirstTold
<1>13. RunningTold(new, srv2)
  <2>1. RunningTold(l, srv)
    BY DEF Good
  <2> QED
    BY <1>2, <1>6, <1>7, <2>1 DEF RunningTold
<1> QED
  BY <1>3, <1>8, <1>9, <1>10, <1>11, <1>12, <1>13 DEF Good

\* The table is cloned, and the tasks are spawned.
LEMMA SpawnedIsGood ==
  ASSUME NEW srv, NEW new \in ListingType, new.kind \in {"models", "running"}, new.running = Asked(new),
         new.done = <<>>, new.merged = <<>>, new.order = <<>>, TableTold(new, srv)
  PROVE  Good(new, srv)
<1>1. Ended(new) = {} /\ Heard(new) = {}
  BY DEF Ended, Heard
<1>2. EachOnce(new)
  BY <1>1 DEF EachOnce
<1>3. DoneTold(new, srv) /\ ItemsTold(new, srv)
  BY DEF DoneTold, ItemsTold
<1>4. ModelsTold(new, srv) /\ FirstTold(new, srv) /\ RunningTold(new, srv)
  BY <1>1 DEF ModelsTold, FirstTold, RunningTold, Distinct
<1> QED
  BY <1>2, <1>3, <1>4 DEF Good

LEMMA IdleIsGood ==
  ASSUME NEW srv
  PROVE  Good(Idle, srv)
<1> DEFINE nothing == <<>>
           l == Idle
<1>1. /\ nothing \in Seq(EntryType) /\ nothing \in Seq(DoneType) /\ nothing \in Seq(Item)
      /\ nothing \in Seq(Nat) /\ DOMAIN nothing = {}
  OBVIOUS
<1>2. l = [kind |-> "none", table |-> nothing, running |-> {}, done |-> nothing,
           merged |-> nothing, order |-> nothing, stale |-> FALSE, moved |-> {}]
  BY DEF Idle
<1> HIDE DEF nothing, l
<1>3. l \in ListingType
  BY <1>1, <1>2 DEF ListingType
<1>4. /\ l.kind = "none" /\ l.running = {} /\ l.done = nothing /\ l.merged = nothing /\ l.order = nothing
      /\ l.table = nothing
  BY <1>2
<1>5. Asked(l) = {} /\ Ended(l) = {} /\ Heard(l) = {}
  BY <1>1, <1>4 DEF Asked, Ended, Heard, HealthyOllama, Healthy
<1>6. EachOnce(l)
  BY <1>1, <1>4, <1>5 DEF EachOnce
<1>7. TableTold(l, srv) /\ DoneTold(l, srv) /\ ItemsTold(l, srv)
  BY <1>1, <1>4 DEF TableTold, DoneTold, ItemsTold
<1>8. ModelsTold(l, srv) /\ FirstTold(l, srv) /\ RunningTold(l, srv)
  BY <1>4, <1>5 DEF ModelsTold, FirstTold, RunningTold
<1>9. Good(l, srv)
  BY <1>3, <1>6, <1>7, <1>8 DEF Good, l
<1> QED
  BY <1>9 DEF l

\* A task ends: its backend is no longer asked, and not heard yet.
LEMMA EndedIsGood ==
  ASSUME NEW l, NEW srv, Good(l, srv), NEW i \in l.running, NEW answer \in Answers \cup {Down},
         answer = AnswerOf(l, srv, i),
         NEW new \in ListingType, new.kind = l.kind, new.table = l.table, new.running = l.running \ {i},
         new.done = Append(l.done, [from |-> i, answer |-> answer]),
         new.merged = l.merged, new.order = l.order, new.stale = l.stale, new.moved = l.moved
  PROVE  Good(new, srv)
<1> DEFINE last == [from |-> i, answer |-> answer]
<1>1. last.from = i /\ last.answer = answer /\ new.done = Append(l.done, last)
  OBVIOUS
<1> HIDE DEF last
<1>2. l.done \in Seq(DoneType)
  BY DEF Good, ListingType
<1>3. /\ Len(l.done) \in Nat /\ DOMAIN l.done = 1..Len(l.done) /\ DOMAIN new.done = 1..(Len(l.done) + 1)
      /\ new.done[Len(l.done) + 1] = last /\ \A k \in 1..Len(l.done) : new.done[k] = l.done[k]
  <2>1. new.done = Append(l.done, last)
    BY <1>1
  <2> QED
    BY <1>2, <2>1
<1>4. \A k \in DOMAIN new.done : k \in DOMAIN l.done \/ k = Len(l.done) + 1
  BY <1>3
<1>5. /\ Len(l.done) + 1 \in DOMAIN new.done /\ Len(l.done) + 1 \notin DOMAIN l.done
      /\ \A k \in DOMAIN l.done : k \in DOMAIN new.done /\ new.done[k] = l.done[k]
  BY <1>3
<1>6. Asked(new) = Asked(l) /\ Heard(new) = Heard(l) /\ Ended(new) = Ended(l) \cup {i}
  <2>1. Ended(new) = Ended(l) \cup {i}
    BY <1>1, <1>3, <1>4, <1>5 DEF Ended
  <2> QED
    BY <2>1 DEF Asked, Heard
<1>7. EachOnce(l)
  BY DEF Good
<1>8. EachOnce(new)
  <2>1. \A j, k \in DOMAIN new.done : new.done[j].from = new.done[k].from => j = k
    <3>1. \A k \in DOMAIN l.done : new.done[k].from # i
      BY <1>5, <1>7 DEF EachOnce, Ended
    <3> QED
      BY <1>1, <1>3, <1>4, <1>5, <1>7, <3>1 DEF EachOnce
  <2>2. new.running \cup Ended(new) \cup Heard(new) = Asked(new)
    BY <1>6, <1>7 DEF EachOnce
  <2>3. new.running \cap Ended(new) = {} /\ Heard(new) \cap (new.running \cup Ended(new)) = {}
    BY <1>6, <1>7 DEF EachOnce
  <2> QED
    BY <2>1, <2>2, <2>3 DEF EachOnce
<1>9. \A j : /\ Unmoved(new, j) <=> Unmoved(l, j)
             /\ AnswerOf(new, srv, j) = AnswerOf(l, srv, j) /\ (Counts(new, srv, j) <=> Counts(l, srv, j))
  BY DEF Unmoved, AnswerOf, Counts
<1>10. TableTold(new, srv)
  BY <1>9 DEF TableTold, Good
<1>11. DoneTold(new, srv)
  <2>1. DoneTold(l, srv)
    BY DEF Good
  <2> QED
    BY <1>1, <1>3, <1>4, <1>5, <1>9, <2>1 DEF DoneTold
<1>12. ItemsTold(new, srv)
  BY <1>6, <1>9 DEF ItemsTold, Good
<1>13. ModelsTold(new, srv) /\ RunningTold(new, srv)
  BY <1>6, <1>9 DEF ModelsTold, RunningTold, Good
<1>14. FirstTold(new, srv)
  BY <1>9 DEF FirstTold, Good
<1>15. l.kind # "none"
  BY DEF Good, Idle
<1> QED
  BY <1>8, <1>10, <1>11, <1>12, <1>13, <1>14, <1>15 DEF Good

\* What an answer adds to the list, which then is all.
Adds(l, i, answer, more, all) ==
  /\ all = l.merged \o more /\ \A k \in DOMAIN more : more[k].from = i
  /\ answer \in Answers => \A k \in DOMAIN more : more[k].name \in S!ToSet(answer)
  /\ answer = Down => more = <<>>
  /\ l.kind = "models" => Distinct(all) /\ \A k \in DOMAIN more : more[k].name \notin Listed(l.merged)
  /\ l.kind = "models" /\ answer \in Answers => S!ToSet(answer) \subseteq Listed(all)
  /\ l.kind # "models" /\ answer \in Answers => AsAnswered(all, i, answer)

\* The first of those that ended is heard, and its answer, if there is one, merged.
LEMMA HeardIsGood ==
  ASSUME NEW l, NEW srv, Good(l, srv), l.done # <<>>,
         NEW i, NEW answer, i = Head(l.done).from, answer = Head(l.done).answer,
         NEW new \in ListingType, new.kind = l.kind, new.table = l.table, new.running = l.running,
         new.done = Tail(l.done), new.order = Append(l.order, i), new.stale = l.stale, new.moved = l.moved,
         NEW more \in Seq(Item), Adds(l, i, answer, more, new.merged)
  PROVE  Good(new, srv)
<1>1. /\ l.done \in Seq(DoneType) /\ l.order \in Seq(Nat) /\ l.merged \in Seq(Item)
      /\ l.table \in Seq(EntryType)
  BY DEF Good, ListingType
<1>2. EachOnce(l) /\ TableTold(l, srv) /\ DoneTold(l, srv) /\ ItemsTold(l, srv)
      /\ ModelsTold(l, srv) /\ FirstTold(l, srv) /\ RunningTold(l, srv)
  BY DEF Good
<1>3. /\ Len(l.done) \in Nat /\ DOMAIN l.done = 1..Len(l.done) /\ 1 \in DOMAIN l.done
      /\ l.done[1] = Head(l.done) /\ l.done[1] \in DoneType
      /\ \A k \in DOMAIN new.done : k + 1 \in DOMAIN l.done /\ new.done[k] = l.done[k + 1] /\ k + 1 # 1
      /\ \A k \in DOMAIN l.done : k = 1 \/ (k - 1 \in DOMAIN new.done /\ new.done[k - 1] = l.done[k])
  <2>1. Len(l.done) \in Nat /\ Len(l.done) # 0 /\ DOMAIN l.done = 1..Len(l.done)
    BY <1>1
  <2>2. DOMAIN new.done = 1..(Len(l.done) - 1) /\ \A k \in 1..(Len(l.done) - 1) : new.done[k] = l.done[k + 1]
    BY <1>1, <2>1
  <2>3. l.done[1] = Head(l.done) /\ l.done[1] \in DoneType
    BY <1>1, <2>1
  <2>4. \A k \in DOMAIN new.done : k + 1 \in DOMAIN l.done /\ new.done[k] = l.done[k + 1] /\ k + 1 # 1
    BY <2>1, <2>2
  <2>5. \A k \in DOMAIN l.done : k = 1 \/ (k - 1 \in DOMAIN new.done /\ new.done[k - 1] = l.done[k])
    BY <2>1, <2>2
  <2>6. 1 \in DOMAIN l.done
    BY <2>1
  <2> QED
    BY <2>1, <2>3, <2>4, <2>5, <2>6
<1>4. i = l.done[1].from /\ answer = l.done[1].answer /\ answer \in Answers \cup {Down} /\ i \in Nat
  BY <1>3 DEF DoneType
<1>5. Ended(l) = Ended(new) \cup {i} /\ i \notin Ended(new)
  <2>1. \A k \in DOMAIN new.done : new.done[k].from \in Ended(l) /\ new.done[k].from # i
    <3>1. \A j, k \in DOMAIN l.done : l.done[j].from = l.done[k].from => j = k
      BY <1>2 DEF EachOnce
    <3> SUFFICES ASSUME NEW k \in DOMAIN new.done
                 PROVE  new.done[k].from \in Ended(l) /\ new.done[k].from # i
      OBVIOUS
    <3>2. k + 1 \in DOMAIN l.done /\ new.done[k] = l.done[k + 1] /\ k + 1 # 1
      BY <1>3
    <3>3. l.done[k + 1].from # l.done[1].from
      BY <1>3, <3>1, <3>2
    <3> QED
      BY <1>4, <3>2, <3>3 DEF Ended
  <2>2. \A k \in DOMAIN l.done : l.done[k].from = i \/ l.done[k].from \in Ended(new)
    BY <1>3, <1>4 DEF Ended
  <2>3. i \in Ended(l)
    BY <1>3, <1>4 DEF Ended
  <2> QED
    BY <2>1, <2>2, <2>3 DEF Ended
<1> USE DEF Adds
<1>6. /\ Len(l.order) \in Nat /\ DOMAIN l.order = 1..Len(l.order)
      /\ DOMAIN new.order = 1..(Len(l.order) + 1) /\ new.order[Len(l.order) + 1] = i
      /\ \A k \in DOMAIN l.order : k \in DOMAIN new.order /\ new.order[k] = l.order[k]
      /\ \A k \in DOMAIN new.order : k \in DOMAIN l.order \/ k = Len(l.order) + 1
  <2>1. Len(l.order) \in Nat /\ DOMAIN l.order = 1..Len(l.order)
    BY <1>1
  <2>2. DOMAIN new.order = 1..(Len(l.order) + 1) /\ new.order[Len(l.order) + 1] = i
        /\ \A k \in 1..Len(l.order) : new.order[k] = l.order[k]
    BY <1>1, <1>4
  <2> QED
    BY <2>1, <2>2
<1>7. Heard(new) = Heard(l) \cup {i} /\ Asked(new) = Asked(l)
  <2>1. Heard(new) = Heard(l) \cup {i}
    <3>1. Len(l.order) + 1 \in DOMAIN new.order
      BY <1>6
    <3> QED
      BY <1>6, <3>1 DEF Heard
  <2> QED
    BY <2>1 DEF Asked
<1>8. i \notin Heard(l) /\ i \notin l.running
  BY <1>2, <1>5 DEF EachOnce
<1>9. EachOnce(new)
  <2>1. \A j, k \in DOMAIN new.done : new.done[j].from = new.done[k].from => j = k
    <3> SUFFICES ASSUME NEW j \in DOMAIN new.done, NEW k \in DOMAIN new.done, new.done[j].from = new.done[k].from
                 PROVE  j = k
      OBVIOUS
    <3>1. j + 1 = k + 1
      BY <1>2, <1>3 DEF EachOnce
    <3>2. j \in Int /\ k \in Int
      <4>1. DOMAIN new.done \in SUBSET Int
        BY DEF ListingType
      <4> QED
        BY <4>1
    <3> QED
      BY <3>1, <3>2
  <2>2. new.running \cup Ended(new) \cup Heard(new) = Asked(new)
    BY <1>2, <1>5, <1>7 DEF EachOnce
  <2>3. new.running \cap Ended(new) = {} /\ Heard(new) \cap (new.running \cup Ended(new)) = {}
    BY <1>2, <1>5, <1>7, <1>8 DEF EachOnce
  <2> QED
    BY <2>1, <2>2, <2>3 DEF EachOnce
<1>10. \A j : /\ Unmoved(new, j) <=> Unmoved(l, j)
              /\ AnswerOf(new, srv, j) = AnswerOf(l, srv, j) /\ (Counts(new, srv, j) <=> Counts(l, srv, j))
  BY DEF Unmoved, AnswerOf, Counts
<1>11. Unmoved(l, i) => answer = AnswerOf(l, srv, i)
  BY <1>2, <1>3, <1>4 DEF DoneTold
<1>12. Counts(l, srv, i) => answer \in Answers /\ answer = AnswerOf(l, srv, i)
  BY <1>11 DEF Counts
<1>13. /\ \A k \in DOMAIN l.merged : k \in DOMAIN new.merged /\ new.merged[k] = l.merged[k]
       /\ \A k \in DOMAIN new.merged :
            k \in DOMAIN l.merged \/ \E j \in DOMAIN more : new.merged[k] = more[j]
  BY <1>1, Joined
<1>14. \A k \in DOMAIN l.merged : l.merged[k].from \in Heard(l) /\ l.merged[k].from # i
  BY <1>2, <1>8 DEF ItemsTold
<1>15. TableTold(new, srv)
  BY <1>2, <1>10 DEF TableTold
<1>16. DoneTold(new, srv)
  <2>1. \A k \in DOMAIN new.done : \E j \in DOMAIN l.done : new.done[k] = l.done[j]
    BY <1>3
  <2>2. DoneTold(l, srv)
    BY <1>2
  <2> QED
    BY <1>10, <2>1, <2>2 DEF DoneTold
<1>17. ItemsTold(new, srv)
  <2>1. \A k \in DOMAIN more : answer \in Answers
    BY <1>4
  <2>2. \A k \in DOMAIN more :
          Unmoved(l, i) => Counts(l, srv, i) /\ more[k].name \in S!ToSet(AnswerOf(l, srv, i))
    BY <1>11, <2>1 DEF Counts
  <2> SUFFICES ASSUME NEW k \in DOMAIN new.merged
               PROVE  /\ new.merged[k].from \in Heard(new)
                      /\ Unmoved(l, new.merged[k].from) =>
                           Counts(l, srv, new.merged[k].from)
                           /\ new.merged[k].name \in S!ToSet(AnswerOf(l, srv, new.merged[k].from))
    BY <1>10 DEF ItemsTold
  <2>3. CASE k \in DOMAIN l.merged
    BY <1>2, <1>7, <1>13, <2>3 DEF ItemsTold
  <2>4. CASE \E j \in DOMAIN more : new.merged[k] = more[j]
    BY <1>7, <2>2, <2>4
  <2> QED
    BY <1>13, <2>3, <2>4
<1>18. ModelsTold(new, srv)
  <2>1. Listed(l.merged) \subseteq Listed(new.merged)
    BY <1>13 DEF Listed
  <2> QED
    BY <1>2, <1>7, <1>10, <1>12, <2>1 DEF ModelsTold
<1>19. FirstTold(new, srv)
  <2> SUFFICES ASSUME l.kind = "models", NEW k \in DOMAIN new.merged,
                      NEW a \in DOMAIN new.order, NEW b \in DOMAIN new.order,
                      new.order[b] = new.merged[k].from, a < b, Counts(l, srv, new.order[a])
               PROVE  new.merged[k].name \notin S!ToSet(AnswerOf(l, srv, new.order[a]))
    BY <1>10 DEF FirstTold
  <2>1. a \in DOMAIN l.order /\ new.order[a] = l.order[a]
    BY <1>6
  <2>2. CASE k \in DOMAIN l.merged
    <3>1. new.merged[k] = l.merged[k] /\ new.order[b] # i
      BY <1>13, <1>14, <2>2
    <3>2. b \in DOMAIN l.order /\ new.order[b] = l.order[b]
      BY <1>6, <3>1
    <3> QED
      BY <1>2, <2>1, <2>2, <3>1, <3>2 DEF FirstTold
  <2>3. CASE \E j \in DOMAIN more : new.merged[k] = more[j]
    <3>1. new.merged[k].name \notin Listed(l.merged)
      BY <2>3
    <3>2. l.order[a] \in Heard(l)
      BY <2>1 DEF Heard
    <3>3. S!ToSet(AnswerOf(l, srv, l.order[a])) \subseteq Listed(l.merged)
      BY <1>2, <2>1, <3>2 DEF ModelsTold
    <3> QED
      BY <2>1, <3>1, <3>3
  <2> QED
    BY <1>13, <2>2, <2>3
<1>20. RunningTold(new, srv)
  <2> SUFFICES ASSUME l.kind # "models", NEW j \in Heard(new), Counts(l, srv, j)
               PROVE  AsAnswered(new.merged, j, AnswerOf(l, srv, j))
    BY <1>10 DEF RunningTold
  <2>1. CASE j = i
    BY <1>12, <2>1
  <2>2. CASE j \in Heard(l)
    <3>1. AsAnswered(l.merged, j, AnswerOf(l, srv, j)) /\ AnswerOf(l, srv, j) \in Seq(Models)
      BY <1>2, <2>2, ServersAssumption DEF RunningTold, Counts
    <3>2. \A k \in DOMAIN more : more[k].from # j
      BY <1>8, <2>2
    <3> QED
      BY <1>1, <3>1, <3>2, PieceKept
  <2> QED
    BY <1>7, <2>1, <2>2
<1>21. l.kind # "none"
  <2>1. Idle.done = <<>>
    BY DEF Idle
  <2> QED
    BY <2>1 DEF Good
<1> QED
  BY <1>9, <1>15, <1>16, <1>17, <1>18, <1>19, <1>20, <1>21 DEF Good

-----------------------------------------------------------------------------
(***************************************************************************)
(* The invariant of the specification.                                     *)
(***************************************************************************)
StateTypes ==
  /\ server \in [Urls -> ServerStates] /\ moved \in SUBSET Urls
  /\ table \in Seq(EntryType)
  /\ DOMAIN listing = Listings

TableTrue ==
  \A i \in DOMAIN table : table[i].config.url \notin moved => Told(table[i], server)

ListingsTrue == \A r \in Listings : Good(listing[r], server)

Invariant == StateTypes /\ TableTrue /\ ListingsTrue

LEMMA SortsEntries ==
  ASSUME NEW s \in Seq(EntryType), Sortable(s)
  PROVE  /\ SortByPriority(s) \in Seq(EntryType)
         /\ \A k \in DOMAIN SortByPriority(s) : \E i \in DOMAIN s : SortByPriority(s)[k] = s[i]
BY SortChooses

\* A refreshed table says what the backends say.
LEMMA RefreshTells ==
  ASSUME NEW srv \in [Urls -> ServerStates \ {Silent}],
         NEW answers, answers = [i \in DOMAIN Configs |->
           LET answer == srv[Configs[i].url] IN
           Entry(Configs[i], IF answer = Down THEN {} ELSE S!ToSet(answer), answer # Down)]
  PROVE  /\ RegistryOf(answers) \in Seq(EntryType)
         /\ \A k \in DOMAIN RegistryOf(answers) : Told(RegistryOf(answers)[k], srv)
<1>1. /\ Len(Configs) \in Nat /\ DOMAIN Configs = 1..Len(Configs)
      /\ \A i \in DOMAIN Configs : Configs[i] \in Config
  BY ConfigsAssumption
<1>2. ASSUME NEW i \in DOMAIN Configs
      PROVE  answers[i] \in EntryType /\ Told(answers[i], srv) /\ answers[i].config = Configs[i]
  <2> DEFINE answer == srv[Configs[i].url]
             models == IF answer = Down THEN {} ELSE S!ToSet(answer)
  <2>1. Configs[i] \in Config /\ Configs[i].url \in Urls
    BY <1>1 DEF Config
  <2>2. answer \in Answers \cup {Down}
    BY <2>1 DEF ServerStates
  <2>3. models \in SUBSET Models
    BY <2>2, ServersAssumption DEF S!ToSet
  <2>4. answers[i] = Entry(Configs[i], models, answer # Down)
    OBVIOUS
  <2>5. answers[i].config = Configs[i] /\ answers[i].models = models
    BY <2>4 DEF Entry
  <2>6. (answer # Down) \in BOOLEAN
    OBVIOUS
  <2>7. answers[i] \in EntryType
    BY <2>1, <2>3, <2>4, <2>6 DEF Entry, EntryType
  <2>8. answers[i].healthy => answer # Down
    BY <2>4, Zenon DEF Entry
  <2>9. Told(answers[i], srv)
    BY <2>2, <2>5, <2>8 DEF Told
  <2> QED
    BY <2>5, <2>7, <2>9
<1>3. answers \in Seq(EntryType) /\ DOMAIN answers = DOMAIN Configs
  <2>1. answers = [i \in 1..Len(Configs) |-> answers[i]]
    BY <1>1
  <2> QED
    BY <1>1, <1>2, <2>1
<1>4. Sortable(answers)
  <2> SUFFICES ASSUME NEW i \in DOMAIN answers PROVE answers[i].config.priority \in Int
    BY DEF Sortable
  <2> QED
    BY <1>1, <1>2, <1>3 DEF Config
<1>5. /\ SortByPriority(answers) \in Seq(EntryType)
      /\ \A k \in DOMAIN SortByPriority(answers) : \E i \in DOMAIN answers : SortByPriority(answers)[k] = answers[i]
  BY <1>3, <1>4, SortsEntries
<1> QED
  BY <1>2, <1>3, <1>5 DEF RegistryOf

LEMMA InvariantInit == Init => Invariant
<1> SUFFICES ASSUME Init PROVE Invariant
  OBVIOUS
<1>1. server \in [Urls -> ServerStates \ {Silent}] /\ moved = {} /\ table = Refreshed
  BY ServersAssumption DEF Init
<1>2. table \in Seq(EntryType) /\ \A i \in DOMAIN table : Told(table[i], server)
  BY <1>1, RefreshTells DEF Refreshed
<1>3. StateTypes
  BY <1>1, <1>2 DEF StateTypes, Init
<1>4. ListingsTrue
  BY IdleIsGood DEF Init, ListingsTrue
<1> QED
  BY <1>2, <1>3, <1>4 DEF Invariant, TableTrue

\* A step of one listing.
LEMMA OneListing ==
  ASSUME Invariant, NEW r \in Listings, NEW new, Good(new, server),
         listing' = [listing EXCEPT ![r] = new], UNCHANGED <<server, table, moved>>
  PROVE  Invariant'
<1>1. StateTypes' /\ TableTrue'
  <2>1. StateTypes'
    BY DEF Invariant, StateTypes
  <2>2. TableTrue'
    BY DEF Invariant, TableTrue, Told
  <2> QED
    BY <2>1, <2>2
<1>2. listing'[r] = new /\ \A q \in Listings : q # r => listing'[q] = listing[q]
  BY DEF Invariant, StateTypes
<1>3. ListingsTrue'
  BY <1>2 DEF Invariant, ListingsTrue
<1> QED
  BY <1>1, <1>3 DEF Invariant

LEMMA InvariantNext == Invariant /\ [Next]_vars => Invariant'
<1> SUFFICES ASSUME Invariant, [Next]_vars PROVE Invariant'
  OBVIOUS
<1>t. /\ server \in [Urls -> ServerStates] /\ moved \in SUBSET Urls /\ table \in Seq(EntryType)
      /\ DOMAIN listing = Listings
      /\ \A i \in DOMAIN table : table[i].config.url \notin moved => Told(table[i], server)
  BY DEF Invariant, StateTypes, TableTrue
<1>g. \A r \in Listings : Good(listing[r], server) /\ listing[r] \in ListingType
  BY DEF Invariant, ListingsTrue, Good
<1>1. ASSUME NEW u \in Urls, ServerChange(u) PROVE Invariant'
  <2>1. PICK answer \in {Down, Silent} \cup Answers : server' = [server EXCEPT ![u] = answer]
    BY <1>1 DEF ServerChange
  <2>2. /\ server' \in [Urls -> ServerStates] /\ moved' = moved \cup {u} /\ table' = table
        /\ \A v \in Urls : v # u => server'[v] = server[v]
    BY <1>1, <2>1, <1>t DEF ServerChange, ServerStates
  <2>3. StateTypes'
    BY <1>1, <2>2, <1>t DEF StateTypes, ServerChange
  <2>4. TableTrue'
    <3> SUFFICES ASSUME NEW i \in DOMAIN table, table[i].config.url \notin moved'
                 PROVE  Told(table[i], server')
      BY <2>2 DEF TableTrue
    <3>1. table[i] \in EntryType /\ table[i].config.url \in Urls
      <4>1. table[i] \in EntryType
        BY <1>t
      <4> QED
        BY <4>1 DEF EntryType, Config
    <3>2. server'[table[i].config.url] = server[table[i].config.url] /\ Told(table[i], server)
      BY <2>2, <3>1, <1>t
    <3> QED
      BY <3>2 DEF Told
  <2>5. ListingsTrue'
    <3> SUFFICES ASSUME NEW r \in Listings PROVE Good(listing'[r], server')
      BY DEF ListingsTrue
    <3>1. listing' = [q \in Listings |->
                        IF listing[q].kind = "none" THEN Idle ELSE [listing[q] EXCEPT !.moved = @ \cup {u}]]
      BY <1>1 DEF ServerChange
    <3>2. CASE listing[r].kind = "none"
      <4>1. listing'[r] = Idle
        BY <3>1, <3>2
      <4> QED
        BY <4>1, IdleIsGood
    <3>3. CASE listing[r].kind # "none"
      <4> DEFINE l == listing[r]
                 new == [l EXCEPT !.moved = l.moved \cup {u}]
      <4>1. listing'[r] = new
        BY <3>1, <3>3
      <4>2. l \in ListingType /\ Good(l, server) /\ l.kind # "none"
        BY <1>g, <3>3
      <4> HIDE DEF l
      <4>3. /\ new.kind = l.kind /\ new.table = l.table /\ new.running = l.running /\ new.done = l.done
            /\ new.merged = l.merged /\ new.order = l.order /\ new.stale = l.stale /\ new.moved = l.moved \cup {u}
            /\ new \in ListingType
        BY <4>2 DEF ListingType
      <4> HIDE DEF new
      <4>4. Good(new, server')
        BY <2>2, <4>2, <4>3, MovedIsGood
      <4> QED
        BY <4>1, <4>4
    <3> QED
      BY <3>2, <3>3
  <2> QED
    BY <2>3, <2>4, <2>5 DEF Invariant
<1>2. ASSUME Refresh PROVE Invariant'
  <2>1. server \in [Urls -> ServerStates \ {Silent}]
    BY <1>2, <1>t DEF Refresh
  <2>2. Refreshed \in Seq(EntryType) /\ \A i \in DOMAIN Refreshed : Told(Refreshed[i], server)
    BY <2>1, RefreshTells DEF Refreshed
  <2>3. table' = Refreshed /\ moved' = {} /\ server' = server /\ listing' = listing
    BY <1>2 DEF Refresh
  <2> HIDE DEF Refreshed
  <2>4. StateTypes'
    BY <2>2, <2>3, <1>t DEF StateTypes
  <2>5. TableTrue'
    BY <2>2, <2>3 DEF TableTrue, Told
  <2>6. ListingsTrue'
    BY <2>3, <1>g DEF ListingsTrue
  <2> QED
    BY <2>4, <2>5, <2>6 DEF Invariant
<1>3. ASSUME NEW r \in Listings, NEW kind \in {"models", "running"}, NEW asked,
             asked = (IF kind = "models" THEN Healthy(table) ELSE HealthyOllama(table)), Spawn(r, kind, asked)
      PROVE  Invariant'
  <2> DEFINE stale == moved # {}
             new == [Idle EXCEPT !.kind = kind, !.table = table, !.running = asked, !.stale = stale]
  <2>1. listing' = [listing EXCEPT ![r] = new] /\ UNCHANGED <<server, table, moved>>
    BY <1>3 DEF Spawn
  <2>0. stale \in BOOLEAN /\ (~ stale => moved = {})
    OBVIOUS
  <2> HIDE DEF stale
  <2>2. /\ Idle \in ListingType /\ Idle.done = <<>> /\ Idle.merged = <<>>
        /\ Idle.order = <<>> /\ Idle.moved = {}
    BY IdleIsGood DEF Good, Idle
  <2>5. asked \in SUBSET Nat
    BY <1>3, <1>t, HealthyPositions
  <2>6. new \in ListingType
    BY <2>0, <2>2, <2>5, <1>t DEF ListingType
  <2>3. /\ new.kind = kind /\ new.table = table /\ new.running = asked /\ new.done = <<>>
        /\ new.merged = <<>> /\ new.order = <<>> /\ new.moved = {}
    BY <2>2 DEF ListingType
  <2>4. ~ new.stale => moved = {}
    <3>1. new.stale = stale
      BY <2>2 DEF ListingType
    <3> QED
      BY <2>0, <3>1
  <2> HIDE DEF new
  <2>7. new.running = Asked(new)
    BY <1>3, <2>3 DEF Asked
  <2>8. TableTold(new, server)
    BY <2>3, <2>4, <1>t DEF TableTold, Unmoved
  <2>9. Good(new, server)
    BY <2>3, <2>6, <2>7, <2>8, SpawnedIsGood
  <2> QED
    BY <2>1, <2>9, OneListing
<1>4. ASSUME NEW r \in Listings, NEW i \in listing[r].running, TaskEnds(r, i) PROVE Invariant'
  <2> DEFINE l == listing[r]
             answer == server[l.table[i].config.url]
             last == [from |-> i, answer |-> answer]
             new == [l EXCEPT !.running = l.running \ {i}, !.done = Append(l.done, last)]
  <2>1. listing' = [listing EXCEPT ![r] = new] /\ UNCHANGED <<server, table, moved>>
    BY <1>4 DEF TaskEnds
  <2>2. l \in ListingType /\ Good(l, server) /\ i \in l.running /\ i \in Nat
    <3>1. l \in ListingType /\ Good(l, server) /\ i \in l.running
      BY <1>g
    <3> QED
      BY <3>1 DEF ListingType
  <2>3. answer \in Answers \cup {Down} /\ answer = AnswerOf(l, server, i)
    <3>1. i \in DOMAIN l.table
      <4>1. i \in Asked(l)
        BY <2>2 DEF Good, EachOnce
      <4> QED
        BY <2>2, <4>1, HealthyPositions DEF Asked, ListingType
    <3>2. l.table[i] \in EntryType
      BY <2>2, <3>1 DEF ListingType
    <3>3. l.table[i].config.url \in Urls
      BY <3>2 DEF EntryType, Config
    <3>4. answer # Silent
      BY <1>4 DEF TaskEnds
    <3> QED
      BY <3>3, <3>4, <1>t DEF ServerStates, AnswerOf
  <2>4. last \in DoneType
    BY <2>2, <2>3 DEF DoneType
  <2> HIDE DEF l, answer, last
  <2>5. /\ new.kind = l.kind /\ new.table = l.table /\ new.running = l.running \ {i}
        /\ new.done = Append(l.done, last) /\ new.merged = l.merged /\ new.order = l.order
        /\ new.stale = l.stale /\ new.moved = l.moved
    BY <2>2 DEF ListingType
  <2>6. new \in ListingType
    <3>1. Append(l.done, last) \in Seq(DoneType)
      BY <2>2, <2>4 DEF ListingType
    <3> QED
      BY <2>2, <3>1 DEF ListingType
  <2> HIDE DEF new
  <2>7. new.done = Append(l.done, [from |-> i, answer |-> answer])
    BY <2>5 DEF last
  <2>8. Good(new, server)
    BY <2>2, <2>3, <2>5, <2>6, <2>7, EndedIsGood
  <2> QED
    BY <2>1, <2>8, OneListing DEF l
<1>5. ASSUME NEW r \in Listings, MergeNext(r) PROVE Invariant'
  <2> DEFINE l == listing[r]
             next == Head(l.done)
             i == next.from
             answer == next.answer
             all == IF answer = Down THEN l.merged ELSE Merged(l.kind, l.merged, i, answer)
             new == [l EXCEPT !.done = Tail(l.done), !.order = Append(l.order, i), !.merged = all]
  <2>1. l.done # <<>> /\ listing' = [listing EXCEPT ![r] = new] /\ UNCHANGED <<server, table, moved>>
    BY <1>5 DEF MergeNext
  <2>2. l \in ListingType /\ Good(l, server)
    BY <1>g
  <2> HIDE DEF l
  <2>3. /\ l.done \in Seq(DoneType) /\ l.order \in Seq(Nat) /\ l.merged \in Seq(Item)
        /\ Tail(l.done) \in Seq(DoneType) /\ next \in DoneType
    <3>1. l.done \in Seq(DoneType) /\ l.order \in Seq(Nat) /\ l.merged \in Seq(Item)
      BY <2>2 DEF ListingType
    <3> QED
      BY <2>1, <3>1
  <2> HIDE DEF next
  <2>4. i \in Nat /\ answer \in Answers \cup {Down} /\ (answer \in Answers => answer \in Seq(Models))
    BY <2>3, ServersAssumption DEF DoneType
  <2> HIDE DEF i, answer
  <2>5. i \in Ended(l)
    <3>1. 1 \in DOMAIN l.done /\ l.done[1] = next
      BY <2>1, <2>3 DEF next
    <3> QED
      BY <3>1 DEF Ended, i
  <2>6. \A k \in DOMAIN l.merged : l.merged[k].from # i
    BY <2>2, <2>5 DEF Good, EachOnce, ItemsTold
  <2>7. \E more \in Seq(Item) : Adds(l, i, answer, more, all)
    <3>1. CASE answer = Down
      <4> DEFINE nothing == <<>>
      <4>1. nothing \in Seq(Item) /\ DOMAIN nothing = {} /\ l.merged \o nothing = l.merged
        BY <2>3
      <4>2. all = l.merged \o nothing /\ answer \notin Answers
        BY <3>1, <4>1, ServersAssumption
      <4>3. l.kind = "models" => Distinct(all)
        BY <2>2, <3>1 DEF Good, ModelsTold
      <4>4. nothing = <<>>
        OBVIOUS
      <4> HIDE DEF nothing, all
      <4> QED
        BY <3>1, <4>1, <4>2, <4>3, <4>4 DEF Adds
    <3>2. CASE answer # Down /\ l.kind = "models"
      <4>1. answer \in Answers /\ all = AddNew(l.merged, i, answer)
        BY <2>4, <3>2 DEF Merged
      <4>2. Distinct(l.merged)
        BY <2>2, <3>2 DEF Good, ModelsTold
      <4>3. PICK more \in Seq(Item) :
              /\ AddNew(l.merged, i, answer) = l.merged \o more
              /\ \A k \in DOMAIN more : more[k].from = i /\ more[k].name \in S!ToSet(answer) \ Listed(l.merged)
              /\ Distinct(l.merged \o more)
              /\ S!ToSet(answer) \subseteq Listed(l.merged \o more)
        BY <2>3, <2>4, <4>1, <4>2, AddNewAdds
      <4>4. all = l.merged \o more
        BY <4>1, <4>3
      <4>5. Distinct(all) /\ S!ToSet(answer) \subseteq Listed(all)
        BY <4>3, <4>4
      <4> HIDE DEF all
      <4> QED
        BY <3>2, <4>3, <4>4, <4>5 DEF Adds
    <3>3. CASE answer # Down /\ l.kind # "models"
      <4> DEFINE more == From(i, answer)
      <4>1. answer \in Answers /\ all = l.merged \o more
        BY <2>4, <3>3 DEF Merged
      <4>2. /\ more \in Seq(Item) /\ DOMAIN more = DOMAIN answer
            /\ \A k \in DOMAIN more : more[k].name = answer[k] /\ more[k].from = i
        <5>1. /\ more \in Seq(Item) /\ Len(more) = Len(answer)
              /\ \A k \in 1..Len(answer) : more[k].name = answer[k] /\ more[k].from = i
          BY <2>4, <4>1, FromItems
        <5>2. DOMAIN answer = 1..Len(answer)
          BY <2>4, <4>1
        <5> HIDE DEF more
        <5>3. DOMAIN more = 1..Len(more)
          BY <5>1
        <5> QED
          BY <5>1, <5>2, <5>3
      <4>3. AsAnswered(all, i, answer)
        BY <2>3, <2>4, <2>6, <4>1, PieceMade
      <4> HIDE DEF more, all
      <4>4. \A k \in DOMAIN more : more[k].name \in S!ToSet(answer)
        BY <4>2 DEF S!ToSet
      <4> QED
        BY <3>3, <4>1, <4>2, <4>3, <4>4 DEF Adds
    <3> QED
      BY <3>1, <3>2, <3>3
  <2>8. PICK more \in Seq(Item) : Adds(l, i, answer, more, all)
    BY <2>7
  <2> HIDE DEF all
  <2>9. all \in Seq(Item)
    BY <2>3, <2>8 DEF Adds
  <2>10. /\ new.kind = l.kind /\ new.table = l.table /\ new.running = l.running
         /\ new.done = Tail(l.done) /\ new.order = Append(l.order, i) /\ new.merged = all
         /\ new.stale = l.stale /\ new.moved = l.moved
    BY <2>2 DEF ListingType
  <2>11. new \in ListingType
    <3>1. Append(l.order, i) \in Seq(Nat)
      BY <2>3, <2>4
    <3> QED
      BY <2>2, <2>3, <2>9, <3>1 DEF ListingType
  <2> HIDE DEF new
  <2>12. i = Head(l.done).from /\ answer = Head(l.done).answer
    BY DEF i, answer, next
  <2>13. Adds(l, i, answer, more, new.merged)
    BY <2>8, <2>10
  <2>14. Good(new, server)
    BY <2>1, <2>2, <2>10, <2>11, <2>12, <2>13, HeardIsGood
  <2> QED
    BY <2>1, <2>14, OneListing DEF l
<1>6. ASSUME NEW r \in Listings, Answer(r) \/ Abandon(r) PROVE Invariant'
  <2>1. listing' = [listing EXCEPT ![r] = Idle] /\ UNCHANGED <<server, table, moved>>
    BY <1>6 DEF Answer, Abandon
  <2>2. Good(Idle, server)
    BY IdleIsGood
  <2> QED
    BY <2>1, <2>2, OneListing
<1>7. CASE UNCHANGED vars
  <2>1. /\ server' = server /\ table' = table /\ moved' = moved /\ listing' = listing
    BY <1>7 DEF vars
  <2>2. StateTypes'
    BY <2>1, <1>t DEF StateTypes
  <2>3. TableTrue'
    BY <2>1, <1>t DEF TableTrue, Told
  <2>4. ListingsTrue'
    BY <2>1, <1>g DEF ListingsTrue
  <2> QED
    BY <2>2, <2>3, <2>4 DEF Invariant
<1>8. ASSUME NEW r \in Listings, ListModels(r) \/ ListRunning(r) PROVE Invariant'
  <2>1. CASE ListModels(r)
    BY <1>3, <2>1 DEF ListModels
  <2>2. CASE ListRunning(r)
    <3>1. "running" # "models"
      OBVIOUS
    <3> QED
      BY <1>3, <2>2, <3>1 DEF ListRunning
  <2> QED
    BY <1>8, <2>1, <2>2
<1> QED
  BY <1>1, <1>2, <1>4, <1>5, <1>6, <1>7, <1>8 DEF Next, ListingStep

LEMMA AlwaysInvariant == Spec => []Invariant
BY InvariantInit, InvariantNext, PTL DEF Spec

-----------------------------------------------------------------------------
(***************************************************************************)
(* The properties of a listing that is complete.                           *)
(***************************************************************************)
\* Then every backend that was asked was heard.
LEMMA AllHeard ==
  ASSUME NEW l, NEW srv, Good(l, srv), l.running = {}, l.done = <<>>
  PROVE  Heard(l) = Asked(l)
<1>1. Ended(l) = {}
  BY DEF Ended
<1> QED
  BY <1>1 DEF Good, EachOnce

\* And while nothing changed, its answer is what the table says of it.
LEMMA QuietTold ==
  ASSUME NEW l, NEW srv, Good(l, srv), l.running = {}, l.done = <<>>, l.kind = "models",
         ~ l.stale, l.moved = {}
  PROVE  /\ Heard(l) = Healthy(l.table)
         /\ \A i \in Healthy(l.table) :
              /\ Counts(l, srv, i) /\ i \in DOMAIN l.table
              /\ l.table[i].models = S!ToSet(AnswerOf(l, srv, i))
<1>1. Heard(l) = Healthy(l.table)
  BY AllHeard DEF Asked
<1>2. ASSUME NEW i \in Healthy(l.table)
      PROVE  /\ Counts(l, srv, i) /\ i \in DOMAIN l.table
             /\ l.table[i].models = S!ToSet(AnswerOf(l, srv, i))
  <2>1. i \in DOMAIN l.table /\ l.table[i].healthy
    BY DEF Healthy
  <2>2. Unmoved(l, i)
    BY DEF Unmoved
  <2>3. Told(l.table[i], srv)
    BY <2>1, <2>2 DEF Good, TableTold
  <2> QED
    BY <2>1, <2>2, <2>3 DEF Told, Counts, AnswerOf
<1> QED
  BY <1>1, <1>2

\* A model that a healthy entry lists has a backend, and no other one has.
LEMMA ResolvesListed ==
  ASSUME NEW es \in Seq(EntryType), NEW m
  PROVE  m \in TableNames(es) <=> ResolveBackend(es, m) # None
<1>1. m \in TableNames(es) <=> Holders(es, m) # {}
  BY DEF TableNames, Holders
<1>2. ASSUME NEW i \in Holders(es, m) PROVE es[i].config # None
  <2>1. es[i] \in EntryType
    BY DEF Holders, Healthy
  <2> QED
    BY <2>1, ConfigsAssumption DEF EntryType
<1> QED
  BY <1>1, <1>2, ResolveFindsFirst

LEMMA AgreeFollows == Invariant => ListingsAgree
<1> SUFFICES ASSUME Invariant, NEW r \in Listings,
                    Complete(r), listing[r].kind = "models", Quiet(r)
             PROVE  LET l == listing[r] IN
                    /\ Listed(l.merged) = TableNames(l.table)
                    /\ Listed(l.merged) = {m \in Listed(l.merged) \cup TableNames(l.table) :
                                            ResolveBackend(l.table, m) # None}
                    /\ \A j, k \in DOMAIN l.merged : l.merged[j].name = l.merged[k].name => j = k
  BY DEF ListingsAgree
<1> DEFINE l == listing[r]
<1>1. /\ Good(l, server) /\ l.running = {} /\ l.done = <<>> /\ l.kind = "models"
      /\ ~ l.stale /\ l.moved = {}
  BY DEF Invariant, ListingsTrue, Complete, Quiet
<1> HIDE DEF l
<1>2. /\ l.table \in Seq(EntryType) /\ ItemsTold(l, server) /\ ModelsTold(l, server)
  BY <1>1 DEF Good, ListingType
<1>3. /\ Heard(l) = Healthy(l.table)
      /\ \A i \in Healthy(l.table) :
           Counts(l, server, i) /\ l.table[i].models = S!ToSet(AnswerOf(l, server, i))
  BY <1>1, QuietTold
<1>4. Listed(l.merged) \subseteq TableNames(l.table)
  <2> SUFFICES ASSUME NEW k \in DOMAIN l.merged PROVE l.merged[k].name \in TableNames(l.table)
    BY DEF Listed
  <2>1. l.merged[k].from \in Healthy(l.table)
    BY <1>2, <1>3 DEF ItemsTold
  <2>2. l.merged[k].name \in S!ToSet(AnswerOf(l, server, l.merged[k].from))
    BY <1>2, <1>3, <2>1 DEF ItemsTold, Counts
  <2> QED
    BY <1>3, <2>1, <2>2 DEF TableNames
<1>5. TableNames(l.table) \subseteq Listed(l.merged)
  BY <1>1, <1>2, <1>3 DEF TableNames, ModelsTold
<1>6. \A m : m \in TableNames(l.table) <=> ResolveBackend(l.table, m) # None
  BY <1>2, ResolvesListed
<1>7. Distinct(l.merged)
  BY <1>1, <1>2 DEF ModelsTold
<1>8. Listed(l.merged) = TableNames(l.table)
  BY <1>4, <1>5
<1>9. Listed(l.merged) = {m \in Listed(l.merged) \cup TableNames(l.table) :
                           ResolveBackend(l.table, m) # None}
  BY <1>6, <1>8
<1> QED
  BY <1>7, <1>8, <1>9 DEF Distinct, l

LEMMA ContainedFollows == Invariant => FailureIsContained
<1> SUFFICES ASSUME Invariant, NEW r \in Listings, Complete(r), NEW i \in Asked(listing[r]),
                    Counts(listing[r], server, i)
             PROVE  IF listing[r].kind = "models"
                    THEN S!ToSet(AnswerOf(listing[r], server, i)) \subseteq Listed(listing[r].merged)
                    ELSE AsAnswered(listing[r].merged, i, AnswerOf(listing[r], server, i))
  BY DEF FailureIsContained, Asked, Counts, Unmoved, AnswerOf
<1>1. Good(listing[r], server) /\ listing[r].running = {} /\ listing[r].done = <<>>
  BY DEF Invariant, ListingsTrue, Complete
<1>2. i \in Heard(listing[r])
  BY <1>1, AllHeard
<1> QED
  BY <1>1, <1>2 DEF Good, ModelsTold, RunningTold

LEMMA RoutedFollows == Invariant => InOrderMeansRouted
<1> SUFFICES ASSUME Invariant, NEW r \in Listings,
                    Complete(r), listing[r].kind = "models", Quiet(r),
                    \A j, k \in DOMAIN listing[r].order :
                      j <= k => listing[r].order[j] <= listing[r].order[k],
                    NEW k \in DOMAIN listing[r].merged
             PROVE  listing[r].table[listing[r].merged[k].from].config
                    = ResolveBackend(listing[r].table, listing[r].merged[k].name)
  BY DEF InOrderMeansRouted
<1> DEFINE l == listing[r]
           i == l.merged[k].from
           m == l.merged[k].name
<1>1. /\ Good(l, server) /\ l.running = {} /\ l.done = <<>> /\ l.kind = "models"
      /\ ~ l.stale /\ l.moved = {}
  BY DEF Invariant, ListingsTrue, Complete, Quiet
<1>2. \A a, b \in DOMAIN l.order : a <= b => l.order[a] <= l.order[b]
  OBVIOUS
<1>3. k \in DOMAIN l.merged /\ i = l.merged[k].from /\ m = l.merged[k].name
  OBVIOUS
<1> SUFFICES l.table[i].config = ResolveBackend(l.table, m)
  OBVIOUS
<1> HIDE DEF l, i, m
<1>4. /\ l.table \in Seq(EntryType) /\ l.order \in Seq(Nat)
      /\ ItemsTold(l, server) /\ FirstTold(l, server)
  BY <1>1 DEF Good, ListingType
<1>5. /\ Heard(l) = Healthy(l.table)
      /\ \A j \in Healthy(l.table) :
           Counts(l, server, j) /\ l.table[j].models = S!ToSet(AnswerOf(l, server, j))
  BY <1>1, QuietTold
<1>6. i \in Healthy(l.table)
  BY <1>3, <1>4, <1>5 DEF ItemsTold
<1>7. i \in Holders(l.table, m)
  <2>1. m \in S!ToSet(AnswerOf(l, server, i))
    BY <1>3, <1>4, <1>5, <1>6 DEF ItemsTold, Counts
  <2> QED
    BY <1>5, <1>6, <2>1 DEF Holders
<1>8. PICK f \in Holders(l.table, m) :
        /\ ResolveBackend(l.table, m) = l.table[f].config
        /\ \A j \in Holders(l.table, m) : f <= j
  BY <1>4, <1>7, ResolveFindsFirst
<1>9. f \in Healthy(l.table) /\ m \in l.table[f].models
  BY DEF Holders
<1>10. PICK a \in DOMAIN l.order : l.order[a] = f
  BY <1>5, <1>9 DEF Heard
<1>11. PICK b \in DOMAIN l.order : l.order[b] = i
  BY <1>5, <1>6 DEF Heard
<1>12. ~ (a < b)
  BY <1>1, <1>3, <1>4, <1>5, <1>9, <1>10, <1>11 DEF FirstTold
<1>13. a \in Nat /\ b \in Nat /\ i \in Nat /\ f \in Nat
  BY <1>4, <1>10, <1>11
<1>14. i <= f
  BY <1>2, <1>10, <1>11, <1>12, <1>13
<1>15. f <= i
  BY <1>7, <1>8
<1>16. i = f
  BY <1>13, <1>14, <1>15
<1> QED
  BY <1>8, <1>16

\* Whatever the backends, the order in which their answers come and what else
\* runs: while nothing changes, the list a client gets, the admin page's and the
\* models that routing finds a backend for are the same, and no model is twice.
THEOREM ListingsDoAgree == Spec => []ListingsAgree
BY AlwaysInvariant, AgreeFollows, PTL

\* A backend that refuses, fails or changes takes nothing from the others: every
\* model of one that answers and did not change is in the list, and what runs on
\* it is listed as it says, in one piece and once.
THEOREM FailuresAreContained == Spec => []FailureIsContained
BY AlwaysInvariant, ContainedFollows, PTL

\* The merge is right about what it assumes: when the answers come in the order
\* of the table, what is listed of a model is what the backend says that a
\* request for it goes to.
THEOREM OrderedListingsAreRouted == Spec => []InOrderMeansRouted
BY AlwaysInvariant, RoutedFollows, PTL
=============================================================================

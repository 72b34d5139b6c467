------------------------------- MODULE Routing -------------------------------
(***************************************************************************)
(* The pure part of src/src/registry.rs: how the answers of the backends   *)
(* become a routing table, and how a request's model picks a backend in    *)
(* it.  A configuration is a record [name, url, type, priority]; an entry  *)
(* of the table is [config, models, healthy], the models of one backend    *)
(* as a set.                                                               *)
(*                                                                         *)
(* No operator is recursive: the module is used by ModelRegistry, which    *)
(* has theorems.                                                           *)
(***************************************************************************)
EXTENDS Integers, Sequences, FiniteSets

CONSTANT None      \* Option::None: no backend, no model, no priority

Entry(config, models, healthy) ==
  [config |-> config, models |-> models, healthy |-> healthy]

(***************************************************************************)
(* A set of positions as a sequence: by key, and at equal keys by position *)
(* (which is what makes a sort stable).  Position i is the k-th when k     *)
(* positions, itself included, do not go after it.                         *)
(***************************************************************************)
GoesBefore(key, j, i) == key[j] < key[i] \/ (key[j] = key[i] /\ j <= i)

UpTo(positions, key, i) == {j \in positions : GoesBefore(key, j, i)}

InOrder(positions, key) ==
  [k \in 1..Cardinality(positions) |->
     CHOOSE i \in positions : Cardinality(UpTo(positions, key, i)) = k]

\* The elements of s at these positions, in the order of the key.
Arrange(s, positions, key) ==
  LET order == InOrder(positions, key) IN [k \in DOMAIN order |-> s[order[k]]]

Keep(s, positions) == Arrange(s, positions, [i \in positions |-> 0])

\* sort_by_key on the priority.
SortByPriority(s) == Arrange(s, DOMAIN s, [i \in DOMAIN s |-> s[i].config.priority])

\* model name -> the positions of the entries that list it, in order
Listing(entries, m) == {i \in DOMAIN entries : m \in entries[i].models}

ModelIndex(entries) ==
  [m \in UNION {entries[i].models : i \in DOMAIN entries} |->
     InOrder(Listing(entries, m), [i \in Listing(entries, m) |-> 0])]

(***************************************************************************)
(* A table is the sequence of its entries: the index is built from them    *)
(* once, and neither is changed afterwards.                                *)
(***************************************************************************)
RegistryOf(answers) == SortByPriority(answers)

\* The first healthy entry that lists the model.
ResolveBackend(entries, model) ==
  LET index   == ModelIndex(entries)
      listed  == IF model \in DOMAIN index THEN index[model] ELSE <<>>
      healthy == {k \in DOMAIN listed : entries[listed[k]].healthy}
      first   == CHOOSE k \in healthy : \A l \in healthy : k <= l
  IN  IF healthy = {} THEN None ELSE entries[listed[first]].config

Healthy(entries) == {i \in DOMAIN entries : entries[i].healthy}

\* min_by_key returns the first of several minima.
DefaultBackend(entries) ==
  LET key   == [i \in Healthy(entries) |-> entries[i].config.priority]
      first == CHOOSE i \in Healthy(entries) :
                 \A j \in Healthy(entries) : GoesBefore(key, i, j)
  IN  IF Healthy(entries) = {} THEN None ELSE entries[first].config

\* dispatch: the model's own backend, or else the default one; None is a 502.
Pick(entries, model) ==
  IF ResolveBackend(entries, model) # None
  THEN ResolveBackend(entries, model)
  ELSE DefaultBackend(entries)

\* Entries have a priority to sort by.
Sortable(s) == \A i \in DOMAIN s : s[i].config.priority \in Int

IsSorted(s) ==
  \A i, j \in DOMAIN s : i <= j => s[i].config.priority <= s[j].config.priority

-----------------------------------------------------------------------------
(***************************************************************************)
(* Reference definition of routing, over the set of entries: the backends  *)
(* a request for the model may go to, whatever the order of the table.     *)
(***************************************************************************)
Preferred(entries) ==
  {e.config : e \in {x \in entries :
                       \A y \in entries : x.config.priority <= y.config.priority}}

AllowedTargets(entries, model) ==
  LET healthy == {e \in entries : e.healthy}
      holders == {e \in healthy : model \in e.models}
  IN  IF healthy = {} THEN {None}
      ELSE Preferred(IF holders # {} THEN holders ELSE healthy)
=============================================================================

---------------------------- MODULE DtnSim_proofs ----------------------------
(***************************************************************************)
(* Invariants of the forwarding experiment.                                *)
(***************************************************************************)
EXTENDS DtnSim, EventQueue_proofs, FiniteSetTheorems

-----------------------------------------------------------------------------
(* Storage.                                                                 *)

PkgsOK == pkgs \in [Pkgs -> [src : Nodes, dst : Nodes, startAt : Nat]]

(* The order of a storage as a key.                                         *)
StartOf == [c \in Copy |-> pkgs[c.id].startAt]

IdOf == [c \in Copy |-> c.id]

LEMMA SizeType == pkgSize \in Nat \ {0}
BY DtnAssumption

LEMMA StartOfType ==
    ASSUME PkgsOK
    PROVE  StartOf \in [Copy -> Int] /\ \A c \in Copy : StartOf[c] = pkgs[c.id].startAt
BY DEF PkgsOK, StartOf, Copy

LEMMA IdOfType == \A c \in Copy : IdOf[c] = c.id
BY DEF IdOf

(* One storage, as StorageConsistent has it.                                *)
NodeOK(list, used, n) ==
    /\ used = pkgSize * Len(list)
    /\ config.bufSize # NONE => used =< config.bufSize
    /\ Sorted(list, StartOf)
    /\ Distinct(list, IdOf)
    /\ \A i \in 1 .. Len(list) : pkgs[list[i].id].dst # n

LEMMA ConsistentIsNodeOK ==
    ASSUME PkgsOK, NEW w \in Net
    PROVE  Consistent(w) <=> \A n \in Nodes : NodeOK(w.stored[n], w.usage[n], n)
<1> SUFFICES ASSUME NEW n \in Nodes
             PROVE  (/\ w.usage[n] = pkgSize * Len(w.stored[n])
                     /\ config.bufSize # NONE => w.usage[n] =< config.bufSize
                     /\ \A i, j \in DOMAIN w.stored[n] : i < j =>
                          /\ w.stored[n][i].id # w.stored[n][j].id
                          /\ pkgs[w.stored[n][i].id].startAt =< pkgs[w.stored[n][j].id].startAt
                     /\ \A i \in DOMAIN w.stored[n] : pkgs[w.stored[n][i].id].dst # n)
                    <=> NodeOK(w.stored[n], w.usage[n], n)
  BY DEF Consistent
<1>1. w.stored[n] \in Seq(Copy)
  BY DEF Net
<1> DEFINE list == w.stored[n]
<1> HIDE DEF list
<1>2. /\ DOMAIN list = 1 .. Len(list) /\ Len(list) \in Nat
      /\ \A i \in 1 .. Len(list) : list[i] \in Copy /\ StartOf[list[i]] = pkgs[list[i].id].startAt
  BY <1>1 DEF StartOf, list
<1>3. (\A i, j \in 1 .. Len(list) : i < j => list[i].id # list[j].id)
      <=> Distinct(list, IdOf)
  BY <1>2, IdOfType DEF Distinct
<1>4. (\A i, j \in 1 .. Len(list) : i < j => pkgs[list[i].id].startAt =< pkgs[list[j].id].startAt)
      <=> Sorted(list, StartOf)
  BY <1>2 DEF Sorted
<1> QED  BY <1>2, <1>3, <1>4 DEF NodeOK, list

(* The packages that a node has a copy of.                                  *)
Ids(w, n) == {w.stored[n][i].id : i \in DOMAIN w.stored[n]}

LEMMA HoldsIds ==
    ASSUME NEW w, NEW n, NEW id
    PROVE  Holds(w, n, id) <=> id \in Ids(w, n)
BY DEF Holds, Ids

(* storage_add_pkg with room.                                               *)
LEMMA AddNode ==
    ASSUME PkgsOK, config \in ConfigType, NEW n \in Nodes,
           NEW list \in Seq(Copy), NEW used \in Nat, NodeOK(list, used, n),
           NEW c \in Copy, \A i \in 1 .. Len(list) : list[i].id # c.id,
           pkgs[c.id].dst # n,
           config.bufSize = NONE \/ used + pkgSize =< config.bufSize,
           NEW new, new = AddInSequenceFromTail(list, c, pkg_has_earlier_startAt_than)
    PROVE  /\ new \in Seq(Copy) /\ used + pkgSize \in Nat
           /\ NodeOK(new, used + pkgSize, n)
           /\ Range(new) = Range(list) \cup {c}
<1>1. /\ Len(list) \in Nat /\ pkgSize \in Nat
      /\ \A i \in 1 .. Len(list) : list[i] \in Copy /\ StartOf[list[i]] = pkgs[list[i].id].startAt
      /\ StartOf[c] = pkgs[c.id].startAt /\ StartOf \in [Copy -> Int]
  BY SizeType, StartOfType
<1>2. Sorted(list, StartOf)
  BY DEF NodeOK
<1>3. new = AddedByKey(list, c, StartOf)
  <2> DEFINE S == {i \in DOMAIN list : ~ pkgs[c.id].startAt < pkgs[list[i].id].startAt}
             T == {i \in DOMAIN list : ~ StartOf[c] < StartOf[list[i]]}
  <2>1. S = T
    BY <1>1
  <2>2. new = InsertAt(list, 1 + (IF S = {} THEN 0 ELSE Max(S)), c)
    BY DEF AddInSequenceFromTail, pkg_has_earlier_startAt_than
  <2>3. AddedByKey(list, c, StartOf) = InsertAt(list, 1 + (IF T = {} THEN 0 ELSE Max(T)), c)
    BY DEF AddedByKey
  <2> HIDE DEF S, T
  <2> QED  BY <2>1, <2>2, <2>3
<1>4. new \in Seq(Copy) /\ Len(new) = Len(list) + 1
  BY <1>1, <1>2, <1>3, InsertedAt
<1>5. PICK k : Behind(new, list, c, k, StartOf)
  BY <1>1, <1>2, <1>3, InsertedAt
<1>6. PutAt(new, list, c, k)
  BY <1>5 DEF Behind
<1>7. Range(new) = Range(list) \cup {c}
  BY <1>4, <1>6, PutAtRange
<1>8. Sorted(new, StartOf)
  BY <1>1, <1>2, <1>4, <1>5, InsertedSorted
<1>9. \A i \in 1 .. Len(new) : pkgs[new[i].id].dst # n
  <2>1. \A i \in 1 .. Len(new) : new[i] \in Range(list) \cup {c}
    BY <1>4, <1>7, RangeIndex
  <2>2. \A d \in Range(list) : pkgs[d.id].dst # n
    BY RangeIndex DEF NodeOK
  <2> QED  BY <2>1, <2>2
<1>10. Distinct(new, IdOf)
  <2>1. \A x \in 1 .. Len(list) : IdOf[list[x]] # IdOf[c]
    BY <1>1, IdOfType
  <2>2. Distinct(list, IdOf)
    BY DEF NodeOK
  <2> QED  BY <1>1, <1>4, <1>6, <2>1, <2>2, PutAtDistinct
<1>11. used + pkgSize = pkgSize * Len(new)
  <2>1. used = pkgSize * Len(list)
    BY DEF NodeOK
  <2> QED  BY <1>1, <1>4, <2>1
<1>12. used + pkgSize \in Nat
  BY <1>1
<1> QED  BY <1>4, <1>7, <1>8, <1>9, <1>10, <1>11, <1>12 DEF NodeOK

(* storage_remove_pkg of a package that is there.                           *)
Without(list, id) == RemoveFirstMatch(list, LAMBDA c : c.id = id)

LEMMA RemoveNode ==
    ASSUME PkgsOK, config \in ConfigType, NEW n \in Nodes,
           NEW list \in Seq(Copy), NEW used \in Nat, NodeOK(list, used, n),
           NEW id, \E i \in 1 .. Len(list) : list[i].id = id,
           NEW new, new = Without(list, id)
    PROVE  /\ new \in Seq(Copy) /\ used - pkgSize \in Nat
           /\ NodeOK(new, used - pkgSize, n)
           /\ Range(new) = {c \in Range(list) : c.id # id}
<1> DEFINE I == {i \in 1 .. Len(list) : list[i].id = id}
           k == Min(I)
<1>1. I \in SUBSET Nat /\ I # {} /\ Len(list) \in Nat
  OBVIOUS
<1>2. new = RemoveAt(list, k)
  BY <1>1 DEF Without, RemoveFirstMatch, SelectInSeq
<1>3. k \in I
  <2>1. \E m \in I : \A j \in I : m =< j
    BY <1>1, SmallestExists
  <2> HIDE DEF I
  <2> QED  BY <2>1 DEF Min
<1>4. k \in 1 .. Len(list) /\ list[k].id = id
  BY <1>3
<1> HIDE DEF I, k
<1>5. Sorted(list, StartOf) /\ Distinct(list, IdOf)
  BY DEF NodeOK
<1>6. /\ new \in Seq(Copy) /\ Len(new) = Len(list) - 1
      /\ Sorted(new, StartOf) /\ Distinct(new, IdOf)
  BY <1>2, <1>4, <1>5, RemoveAtProperties, RemoveAtRest
<1>7. \A c : c \in Range(new) <=> c \in Range(list) /\ IdOf[c] # IdOf[list[k]]
  BY <1>2, <1>4, <1>5, RemoveAtRange
<1>8. Range(new) = {c \in Range(list) : c.id # id}
  <2>1. Range(list) \subseteq Copy /\ list[k] \in Copy
    BY <1>4, RangeIndex
  <2>2. \A c \in Range(list) : IdOf[c] = c.id
    BY <2>1, IdOfType
  <2>3. IdOf[list[k]] = id
    BY <1>4, <2>1, IdOfType
  <2> QED  BY <1>7, <2>2, <2>3
<1>9. \A i \in 1 .. Len(new) : pkgs[new[i].id].dst # n
  <2>1. \A i \in 1 .. Len(new) : new[i] \in Range(list)
    BY <1>6, <1>8, RangeIndex
  <2>2. \A d \in Range(list) : pkgs[d.id].dst # n
    BY RangeIndex DEF NodeOK
  <2> QED  BY <2>1, <2>2
<1>10. used - pkgSize = pkgSize * Len(new) /\ used - pkgSize \in Nat
  <2>1. used = pkgSize * Len(list) /\ pkgSize \in Nat
    BY SizeType DEF NodeOK
  <2>2. pkgSize * Len(list) - pkgSize = pkgSize * (Len(list) - 1)
    BY <1>1, <2>1
  <2>3. Len(list) - 1 \in Nat
    BY <1>1, <1>4
  <2>4. \A x \in Nat : pkgSize * x \in Nat
    BY <2>1
  <2> QED  BY <1>6, <2>1, <2>2, <2>3, <2>4
<1>11. config.bufSize # NONE => used - pkgSize =< config.bufSize
  BY SizeType DEF NodeOK, ConfigType, NONE
<1> QED  BY <1>6, <1>8, <1>9, <1>10, <1>11 DEF NodeOK

(* A new value in a copy.                                                   *)
Revalued(list, id, value) ==
    [i \in DOMAIN list |-> IF list[i].id = id THEN [list[i] EXCEPT !.value = value] ELSE list[i]]

LEMMA RevalueNode ==
    ASSUME PkgsOK, NEW n \in Nodes, NEW list \in Seq(Copy), NEW used \in Nat, NodeOK(list, used, n),
           NEW id, NEW value, value \in Int, NEW new, new = Revalued(list, id, value)
    PROVE  /\ new \in Seq(Copy) /\ NodeOK(new, used, n) /\ Len(new) = Len(list)
           /\ \A i \in 1 .. Len(list) : new[i].id = list[i].id /\ new[i].hops = list[i].hops
<1>1. Len(list) \in Nat /\ DOMAIN list = 1 .. Len(list) /\ \A i \in 1 .. Len(list) : list[i] \in Copy
  OBVIOUS
<1>2. new = [i \in 1 .. Len(list) |->
               IF list[i].id = id THEN [list[i] EXCEPT !.value = value] ELSE list[i]]
  BY <1>1 DEF Revalued
<1>3. \A i \in 1 .. Len(list) :
        new[i] \in Copy /\ new[i].id = list[i].id /\ new[i].hops = list[i].hops
  BY <1>1, <1>2 DEF Copy
<1>4. new \in Seq(Copy) /\ Len(new) = Len(list)
  <2>1. new \in [1 .. Len(list) -> Copy]
    BY <1>2, <1>3
  <2> QED  BY <1>1, <2>1
<1>5. \A i \in 1 .. Len(list) : /\ StartOf[new[i]] = StartOf[list[i]]
                                /\ IdOf[new[i]] = IdOf[list[i]]
  BY <1>1, <1>3, StartOfType, IdOfType
<1> QED  BY <1>3, <1>4, <1>5 DEF NodeOK, Sorted, Distinct

-----------------------------------------------------------------------------
(* What every value that net takes on the way through a handler satisfies.   *)

NoRoute(w) ==
    config.pkgRcdRoute = 0 =>
        /\ \A n \in Nodes : \A i \in DOMAIN w.stored[n] : w.stored[n][i].hops = 0
        /\ \A p \in Pkgs : w.hops[p] = 0

DeliveredIn(w) == {p \in Pkgs : w.endAt[p] # 0}

Counted(w) ==
    /\ w.sentPkgs >= Cardinality(DeliveredIn(w))
    /\ config.pkgRcdRoute = 0 => w.sentPkgs = Cardinality(DeliveredIn(w))

Good(w, now) ==
    /\ w \in Net
    /\ \A n \in Nodes : NodeOK(w.stored[n], w.usage[n], n)
    /\ \A p \in Pkgs : w.endAt[p] =< now
    /\ NoRoute(w)
    /\ Counted(w)

(* pkgs and config as they are once the packages are generated.             *)
Running == PkgsOK /\ config \in ConfigType

(* A copy that may be handed over.                                          *)
Fit(c) == c \in Copy /\ (config.pkgRcdRoute = 0 => c.hops = 0)

LEMMA GoodFields ==
    ASSUME NEW w \in Net
    PROVE  /\ w.stored \in [Nodes -> Seq(Copy)] /\ w.usage \in [Nodes -> Nat]
           /\ w.endAt \in [Pkgs -> Nat] /\ w.hops \in [Pkgs -> Nat]
           /\ w.sentPkgs \in Nat /\ w.trafficCount \in Nat
BY DEF Net

LEMMA StoredIsFit ==
    ASSUME NEW w, NEW now, Good(w, now), NEW n \in Nodes, NEW i \in 1 .. Len(w.stored[n])
    PROVE  Fit(w.stored[n][i]) /\ pkgs[w.stored[n][i].id].dst # n
<1>1. w.stored[n] \in Seq(Copy)
  BY GoodFields DEF Good
<1>2. DOMAIN w.stored[n] = 1 .. Len(w.stored[n]) /\ w.stored[n][i] \in Copy
  BY <1>1
<1>3. config.pkgRcdRoute = 0 => w.stored[n][i].hops = 0
  BY <1>2 DEF Good, NoRoute
<1>4. pkgs[w.stored[n][i].id].dst # n
  BY DEF Good, NodeOK
<1> QED  BY <1>2, <1>3, <1>4 DEF Fit

(* The lists of one node change and the rest does not.                      *)
WithList(w, n, list, used) == [w EXCEPT !.stored[n] = list, !.usage[n] = used]

LEMMA ListChange ==
    ASSUME NEW w, NEW now, Good(w, now), NEW n \in Nodes,
           NEW list \in Seq(Copy), NEW used \in Nat, NodeOK(list, used, n),
           config.pkgRcdRoute = 0 => \A i \in 1 .. Len(list) : list[i].hops = 0,
           NEW v, v = WithList(w, n, list, used)
    PROVE  /\ Good(v, now)
           /\ v.stored[n] = list /\ \A m \in Nodes \ {n} : v.stored[m] = w.stored[m]
           /\ v.endAt = w.endAt /\ v.trafficCount = w.trafficCount
<1>1. /\ w \in Net
      /\ w.stored \in [Nodes -> Seq(Copy)] /\ w.usage \in [Nodes -> Nat]
      /\ w.endAt \in [Pkgs -> Nat] /\ w.hops \in [Pkgs -> Nat]
      /\ w.sentPkgs \in Nat /\ w.trafficCount \in Nat
  BY GoodFields DEF Good
<1>2. /\ v.stored = [w.stored EXCEPT ![n] = list] /\ v.usage = [w.usage EXCEPT ![n] = used]
      /\ v.endAt = w.endAt /\ v.hops = w.hops
      /\ v.sentPkgs = w.sentPkgs /\ v.trafficCount = w.trafficCount
  BY <1>1 DEF Net, WithList
<1>3. v \in Net
  BY <1>1 DEF Net, WithList
<1>4. /\ v.stored[n] = list /\ v.usage[n] = used
      /\ \A m \in Nodes \ {n} : v.stored[m] = w.stored[m] /\ v.usage[m] = w.usage[m]
  BY <1>1, <1>2
<1>5. \A m \in Nodes : NodeOK(v.stored[m], v.usage[m], m)
  BY <1>4 DEF Good
<1>6. NoRoute(v)
  <2>1. DOMAIN list = 1 .. Len(list)
    OBVIOUS
  <2> QED  BY <1>2, <1>4, <2>1 DEF Good, NoRoute
<1>7. Counted(v)
  BY <1>2 DEF Good, Counted, DeliveredIn
<1> QED  BY <1>2, <1>3, <1>4, <1>5, <1>6, <1>7 DEF Good

(* storage_add_pkg of a package that is not there yet.                      *)
LEMMA AddEffect ==
    ASSUME Running, NEW w, NEW now, Good(w, now), NEW n \in Nodes,
           NEW c, Fit(c), c.id \notin Ids(w, n), pkgs[c.id].dst # n,
           NEW v, v = StorageAdd(w, n, c)
    PROVE  /\ Good(v, now)
           /\ Ids(v, n) = IF HasRoom(w, n) THEN Ids(w, n) \cup {c.id} ELSE Ids(w, n)
           /\ \A m \in Nodes \ {n} : v.stored[m] = w.stored[m]
           /\ v.endAt = w.endAt /\ v.trafficCount = w.trafficCount
<1>1. CASE ~ HasRoom(w, n)
  BY <1>1 DEF StorageAdd
<1>2. CASE HasRoom(w, n)
  <2> DEFINE list == w.stored[n]
             new == AddInSequenceFromTail(list, c, pkg_has_earlier_startAt_than)
             used == w.usage[n]
             more == used + pkgSize
  <2>1. v = WithList(w, n, new, more)
    BY <1>2 DEF StorageAdd, WithList
  <2>2. list \in Seq(Copy) /\ used \in Nat /\ NodeOK(list, used, n)
    BY GoodFields DEF Good
  <2>3. config.bufSize = NONE \/ used + pkgSize =< config.bufSize
    BY <1>2 DEF HasRoom
  <2>4. DOMAIN list = 1 .. Len(list) /\ \A i \in 1 .. Len(list) : list[i].id # c.id
    BY <2>2 DEF Ids
  <2> HIDE DEF list, used
  <2>5. /\ new \in Seq(Copy) /\ more \in Nat
        /\ NodeOK(new, more, n)
        /\ Range(new) = Range(list) \cup {c}
    BY <2>2, <2>3, <2>4, AddNode DEF Running, Fit
  <2> HIDE DEF new, more
  <2>6. config.pkgRcdRoute = 0 => \A i \in 1 .. Len(new) : new[i].hops = 0
    <3>1. ASSUME NEW d \in Range(list), config.pkgRcdRoute = 0  PROVE d.hops = 0
      BY <2>2, <3>1, StoredIsFit, RangeIndex DEF Fit, list
    <3>2. \A i \in 1 .. Len(new) : new[i] \in Range(list) \cup {c}
      BY <2>5, RangeIndex
    <3> QED  BY <3>1, <3>2 DEF Fit
  <2>7. /\ Good(v, now)
        /\ v.stored[n] = new /\ \A m \in Nodes \ {n} : v.stored[m] = w.stored[m]
        /\ v.endAt = w.endAt /\ v.trafficCount = w.trafficCount
    BY <2>1, <2>5, <2>6, ListChange
  <2>8. Ids(v, n) = Ids(w, n) \cup {c.id}
    <3>1. Ids(v, n) = {d.id : d \in Range(new)}
      BY <2>7 DEF Ids, Range
    <3>2. Ids(w, n) = {d.id : d \in Range(list)}
      BY DEF Ids, Range, list
    <3> QED  BY <2>5, <3>1, <3>2
  <2> QED  BY <1>2, <2>7, <2>8
<1> QED  BY <1>1, <1>2

(* storage_remove_pkg.                                                      *)
LEMMA RemoveEffect ==
    ASSUME Running, NEW w, NEW now, Good(w, now), NEW n \in Nodes, NEW id,
           NEW v, v = StorageRemove(w, n, id)
    PROVE  /\ Good(v, now)
           /\ Ids(v, n) = Ids(w, n) \ {id}
           /\ \A m \in Nodes \ {n} : v.stored[m] = w.stored[m]
           /\ v.endAt = w.endAt /\ v.trafficCount = w.trafficCount
<1>1. CASE id \notin Ids(w, n)
  <2>1. v = w
    BY <1>1, HoldsIds DEF StorageRemove
  <2> QED  BY <1>1, <2>1
<1>2. CASE id \in Ids(w, n)
  <2> DEFINE list == w.stored[n]
             new == Without(list, id)
             used == w.usage[n]
             less == used - pkgSize
  <2>1. v = WithList(w, n, new, less)
    BY <1>2, HoldsIds DEF StorageRemove, Without, WithList
  <2>2. list \in Seq(Copy) /\ used \in Nat /\ NodeOK(list, used, n)
    BY GoodFields DEF Good
  <2>4. DOMAIN list = 1 .. Len(list) /\ \E i \in 1 .. Len(list) : list[i].id = id
    BY <1>2, <2>2 DEF Ids
  <2> HIDE DEF list, used
  <2>5. /\ new \in Seq(Copy) /\ less \in Nat
        /\ NodeOK(new, less, n)
        /\ Range(new) = {c \in Range(list) : c.id # id}
    BY <2>2, <2>4, RemoveNode DEF Running
  <2> HIDE DEF new, less
  <2>6. config.pkgRcdRoute = 0 => \A i \in 1 .. Len(new) : new[i].hops = 0
    <3>1. ASSUME NEW d \in Range(list), config.pkgRcdRoute = 0  PROVE d.hops = 0
      BY <2>2, <3>1, StoredIsFit, RangeIndex DEF Fit, list
    <3>2. \A i \in 1 .. Len(new) : new[i] \in Range(list)
      BY <2>5, RangeIndex
    <3> QED  BY <3>1, <3>2
  <2>7. /\ Good(v, now)
        /\ v.stored[n] = new /\ \A m \in Nodes \ {n} : v.stored[m] = w.stored[m]
        /\ v.endAt = w.endAt /\ v.trafficCount = w.trafficCount
    BY <2>1, <2>5, <2>6, ListChange
  <2>8. Ids(v, n) = Ids(w, n) \ {id}
    <3>1. Ids(v, n) = {d.id : d \in Range(new)}
      BY <2>7 DEF Ids, Range
    <3>2. Ids(w, n) = {d.id : d \in Range(list)}
      BY DEF Ids, Range, list
    <3> QED  BY <2>5, <3>1, <3>2
  <2> QED  BY <2>7, <2>8
<1> QED  BY <1>1, <1>2

(* The new value of a copy that the ever-best method gives it.               *)
LEMMA SetValueEffect ==
    ASSUME Running, NEW w, NEW now, Good(w, now), NEW n \in Nodes, NEW id,
           NEW value, value \in Int, NEW v, v = SetValue(w, n, id, value)
    PROVE  /\ Good(v, now)
           /\ \A m \in Nodes : Ids(v, m) = Ids(w, m) /\ v.usage[m] = w.usage[m]
           /\ v.endAt = w.endAt /\ v.trafficCount = w.trafficCount
<1> DEFINE list == w.stored[n]
           new == Revalued(list, id, value)
           used == w.usage[n]
<1>1. /\ w \in Net /\ list \in Seq(Copy) /\ used \in Nat /\ NodeOK(list, used, n)
      /\ w.usage \in [Nodes -> Nat] /\ w.stored \in [Nodes -> Seq(Copy)]
  BY GoodFields DEF Good
<1>2. v = [w EXCEPT !.stored[n] = new]
  BY DEF SetValue, Revalued
<1>3. v = WithList(w, n, new, used)
  BY <1>1, <1>2 DEF Net, WithList
<1>4. DOMAIN list = 1 .. Len(list)
  BY <1>1
<1>5. \A i \in 1 .. Len(list) : config.pkgRcdRoute = 0 => list[i].hops = 0
  BY StoredIsFit DEF Fit
<1>5a. v.usage = w.usage
  BY <1>1, <1>2 DEF Net
<1>5b. new = Revalued(list, id, value)
  OBVIOUS
<1> HIDE DEF list, used, new
<1>6. /\ new \in Seq(Copy) /\ NodeOK(new, used, n) /\ Len(new) = Len(list)
      /\ \A i \in 1 .. Len(list) : new[i].id = list[i].id /\ new[i].hops = list[i].hops
  BY <1>1, <1>5b, RevalueNode DEF Running
<1>6a. config.pkgRcdRoute = 0 => \A i \in 1 .. Len(new) : new[i].hops = 0
  BY <1>5, <1>6
<1>7. /\ Good(v, now)
      /\ v.stored[n] = new /\ \A m \in Nodes \ {n} : v.stored[m] = w.stored[m]
      /\ v.endAt = w.endAt /\ v.trafficCount = w.trafficCount
  BY <1>1, <1>3, <1>6, <1>6a, ListChange
<1>8. Ids(v, n) = Ids(w, n)
  <2>1. DOMAIN new = DOMAIN list
    BY <1>4, <1>6
  <2> QED  BY <1>4, <1>6, <1>7, <2>1 DEF Ids, list
<1>9. \A m \in Nodes \ {n} : Ids(v, m) = Ids(w, m)
  BY <1>7 DEF Ids
<1> QED  BY <1>5a, <1>7, <1>8, <1>9

-----------------------------------------------------------------------------
(* node_recv.                                                               *)

LEMMA CardAdd ==
    ASSUME NEW S \in SUBSET Pkgs, NEW p
    PROVE  /\ Cardinality(S) \in Nat
           /\ Cardinality(S \cup {p}) = IF p \in S THEN Cardinality(S) ELSE Cardinality(S) + 1
<1>1. IsFiniteSet(S)
  BY DtnAssumption, FS_Subset
<1> QED  BY <1>1, FS_CardinalityType, FS_AddElement

CountedUp(w) == [w EXCEPT !.trafficCount = @ + 1]

LEMMA CountEffect ==
    ASSUME NEW w, NEW now, Good(w, now), NEW v, v = CountedUp(w)
    PROVE  /\ Good(v, now)
           /\ v.stored = w.stored /\ v.usage = w.usage /\ v.endAt = w.endAt
           /\ v.hops = w.hops /\ v.sentPkgs = w.sentPkgs
           /\ v.trafficCount = w.trafficCount + 1
<1>1. /\ w \in Net
      /\ w.stored \in [Nodes -> Seq(Copy)] /\ w.usage \in [Nodes -> Nat]
      /\ w.endAt \in [Pkgs -> Nat] /\ w.hops \in [Pkgs -> Nat]
      /\ w.sentPkgs \in Nat /\ w.trafficCount \in Nat
  BY GoodFields DEF Good
<1>2. /\ v.stored = w.stored /\ v.usage = w.usage /\ v.endAt = w.endAt
      /\ v.hops = w.hops /\ v.sentPkgs = w.sentPkgs
      /\ v.trafficCount = w.trafficCount + 1
  BY <1>1 DEF Net, CountedUp
<1>3. v \in Net
  <2> DEFINE x == w.trafficCount + 1
  <2>1. x \in Nat
    BY <1>1
  <2>2. v = [w EXCEPT !.trafficCount = x]
    BY DEF CountedUp
  <2> HIDE DEF x
  <2> QED  BY <1>1, <2>1, <2>2 DEF Net
<1>4. \A m \in Nodes : NodeOK(v.stored[m], v.usage[m], m)
  BY <1>2 DEF Good
<1>5. NoRoute(v) /\ Counted(v) /\ \A p \in Pkgs : v.endAt[p] =< now
  BY <1>2 DEF Good, NoRoute, Counted, DeliveredIn
<1> QED  BY <1>2, <1>3, <1>4, <1>5 DEF Good

(* An arrival at the destination that replaces the recorded one, if any.    *)
LEMMA RecordEffect ==
    ASSUME Running, NEW w, NEW now \in Nat \ {0}, Good(w, now), NEW c, Fit(c),
           w.endAt[c.id] = 0 \/ (w.endAt[c.id] = now /\ config.pkgRcdRoute # 0),
           NEW v, v = Record(w, c, now)
    PROVE  /\ Good(v, now)
           /\ v.stored = w.stored /\ v.usage = w.usage
           /\ v.endAt = [w.endAt EXCEPT ![c.id] = now]
           /\ v.trafficCount = w.trafficCount
<1> DEFINE p == c.id
<1>1. /\ w \in Net /\ p \in Pkgs /\ c.hops \in Nat
      /\ w.stored \in [Nodes -> Seq(Copy)] /\ w.usage \in [Nodes -> Nat]
      /\ w.endAt \in [Pkgs -> Nat] /\ w.hops \in [Pkgs -> Nat]
      /\ w.sentPkgs \in Nat /\ w.trafficCount \in Nat
  BY GoodFields DEF Good, Fit, Copy
<1>2. /\ v.stored = w.stored /\ v.usage = w.usage
      /\ v.endAt = [w.endAt EXCEPT ![p] = now] /\ v.hops = [w.hops EXCEPT ![p] = c.hops]
      /\ v.sentPkgs = w.sentPkgs + 1 /\ v.trafficCount = w.trafficCount
  BY <1>1 DEF Net, Record
<1>3. v \in Net
  <2> DEFINE x == w.sentPkgs + 1
             f == [w.endAt EXCEPT ![p] = now]
             g == [w.hops EXCEPT ![p] = c.hops]
  <2>1. x \in Nat /\ f \in [Pkgs -> Nat] /\ g \in [Pkgs -> Nat]
    BY <1>1
  <2>2. v = [w EXCEPT !.sentPkgs = x, !.endAt = f, !.hops = g]
    BY <1>1 DEF Record, Net
  <2> HIDE DEF x, f, g
  <2> QED  BY <1>1, <2>1, <2>2 DEF Net
<1> HIDE DEF p
<1>4. \A m \in Nodes : NodeOK(v.stored[m], v.usage[m], m)
  BY <1>2 DEF Good
<1>5. \A o \in Pkgs : v.endAt[o] =< now
  BY <1>1, <1>2 DEF Good
<1>6. NoRoute(v)
  BY <1>1, <1>2 DEF Good, NoRoute, Fit
<1>7. DeliveredIn(v) = DeliveredIn(w) \cup {p}
  BY <1>1, <1>2 DEF DeliveredIn
<1>8. Counted(v)
  <2>1. DeliveredIn(w) \in SUBSET Pkgs
    BY DEF DeliveredIn
  <2>2. /\ Cardinality(DeliveredIn(w)) \in Nat
        /\ Cardinality(DeliveredIn(v)) = IF p \in DeliveredIn(w) THEN Cardinality(DeliveredIn(w))
                                         ELSE Cardinality(DeliveredIn(w)) + 1
    BY <1>7, <2>1, CardAdd
  <2>3. Counted(w)
    BY DEF Good
  <2>4. config.pkgRcdRoute = 0 => p \notin DeliveredIn(w)
    BY DEF DeliveredIn, p
  <2> QED  BY <1>1, <1>2, <2>2, <2>3, <2>4 DEF Counted
<1> QED  BY <1>2, <1>3, <1>4, <1>5, <1>6, <1>8 DEF Good, p

(* An arrival where the package is going.                                   *)
LEMMA ArrivalEffect ==
    ASSUME Running, NEW w, NEW now \in Nat \ {0}, Good(w, now), NEW n \in Nodes,
           NEW c, Fit(c), pkgs[c.id].dst = n, NEW v, v = node_recv(w, n, c, now)
    PROVE  /\ Good(v, now)
           /\ v.stored = w.stored /\ v.usage = w.usage
           /\ \A p \in Pkgs : v.endAt[p] = IF p = c.id /\ w.endAt[p] = 0 THEN now ELSE w.endAt[p]
           /\ v.trafficCount = w.trafficCount + 1
<1> DEFINE u == CountedUp(w)
<1>1. v = IF BetterArrival(w, c, now) THEN Record(u, c, now) ELSE u
  BY DEF node_recv, CountedUp
<1>2. /\ Good(u, now)
      /\ u.stored = w.stored /\ u.usage = w.usage /\ u.endAt = w.endAt
      /\ u.trafficCount = w.trafficCount + 1
  BY CountEffect
<1> HIDE DEF u
<1>3. /\ c.id \in Pkgs /\ c.hops \in Nat /\ w.endAt \in [Pkgs -> Nat] /\ w.hops \in [Pkgs -> Nat]
      /\ w.endAt[c.id] =< now /\ (config.pkgRcdRoute = 0 => c.hops = 0 /\ w.hops[c.id] = 0)
  BY GoodFields DEF Good, Fit, Copy, NoRoute
<1>4. CASE BetterArrival(w, c, now)
  <2>1. w.endAt[c.id] = 0 \/ (w.endAt[c.id] = now /\ config.pkgRcdRoute # 0)
    BY <1>3, <1>4 DEF BetterArrival
  <2>2. /\ Good(v, now) /\ v.stored = u.stored /\ v.usage = u.usage
        /\ v.endAt = [u.endAt EXCEPT ![c.id] = now] /\ v.trafficCount = u.trafficCount
    BY <1>1, <1>2, <1>4, <2>1, RecordEffect
  <2> QED  BY <1>2, <1>3, <2>1, <2>2
<1>5. CASE ~ BetterArrival(w, c, now)
  <2>1. w.endAt[c.id] # 0
    BY <1>5 DEF BetterArrival
  <2> QED  BY <1>1, <1>2, <1>5, <2>1
<1> QED  BY <1>4, <1>5

(* A reception by another node: the package is there now, or there was no    *)
(* room for it.                                                             *)
LEMMA CarryEffect ==
    ASSUME Running, NEW w, NEW now, Good(w, now), NEW n \in Nodes,
           NEW c, Fit(c), pkgs[c.id].dst # n, NEW v, v = node_recv(w, n, c, now)
    PROVE  /\ Good(v, now)
           /\ Ids(v, n) = IF HasRoom(w, n) THEN Ids(w, n) \cup {c.id} ELSE Ids(w, n)
           /\ \A m \in Nodes \ {n} : v.stored[m] = w.stored[m]
           /\ v.endAt = w.endAt /\ v.trafficCount = w.trafficCount + 1
<1> DEFINE u == CountedUp(w)
           d == [c EXCEPT !.hops = @ + config.pkgRcdRoute]
<1>1. v = IF Holds(w, n, c.id) THEN u ELSE StorageAdd(u, n, d)
  BY DEF node_recv, CountedUp
<1>2. /\ Good(u, now)
      /\ u.stored = w.stored /\ u.usage = w.usage /\ u.endAt = w.endAt
      /\ u.trafficCount = w.trafficCount + 1
  BY CountEffect
<1>3. Fit(d) /\ d.id = c.id
  <2>1. config.pkgRcdRoute \in {0, 1}
    BY DEF Running, ConfigType
  <2> QED  BY <2>1 DEF Fit, Copy
<1>4. Ids(u, n) = Ids(w, n) /\ (HasRoom(u, n) <=> HasRoom(w, n))
  BY <1>2 DEF Ids, HasRoom
<1> HIDE DEF u, d
<1>5. CASE c.id \in Ids(w, n)
  <2>1. v = u
    BY <1>1, <1>5, HoldsIds
  <2> QED  BY <1>2, <1>4, <1>5, <2>1
<1>6. CASE c.id \notin Ids(w, n)
  <2>1. v = StorageAdd(u, n, d)
    BY <1>1, <1>6, HoldsIds
  <2>2. d.id \notin Ids(u, n) /\ pkgs[d.id].dst # n
    BY <1>3, <1>4, <1>6
  <2>3. /\ Good(v, now)
        /\ Ids(v, n) = IF HasRoom(u, n) THEN Ids(u, n) \cup {d.id} ELSE Ids(u, n)
        /\ \A m \in Nodes \ {n} : v.stored[m] = u.stored[m]
        /\ v.endAt = u.endAt /\ v.trafficCount = u.trafficCount
    BY <1>2, <1>3, <2>1, <2>2, AddEffect
  <2> QED  BY <1>2, <1>3, <1>4, <2>3
<1> QED  BY <1>5, <1>6

(* node_recv, whoever receives.                                             *)
LEMMA RecvEffect ==
    ASSUME Running, NEW w, NEW now \in Nat \ {0}, Good(w, now), NEW n \in Nodes,
           NEW c, Fit(c), NEW v, v = node_recv(w, n, c, now)
    PROVE  /\ Good(v, now)
           /\ Ids(v, n) = IF pkgs[c.id].dst # n /\ HasRoom(w, n)
                          THEN Ids(w, n) \cup {c.id} ELSE Ids(w, n)
           /\ \A m \in Nodes \ {n} : Ids(v, m) = Ids(w, m)
           /\ \A p \in Pkgs : v.endAt[p] = IF p = c.id /\ pkgs[p].dst = n /\ w.endAt[p] = 0
                                           THEN now ELSE w.endAt[p]
           /\ v.trafficCount = w.trafficCount + 1
<1>1. CASE pkgs[c.id].dst = n
  <2>1. /\ Good(v, now) /\ v.stored = w.stored
        /\ \A p \in Pkgs : v.endAt[p] = IF p = c.id /\ w.endAt[p] = 0 THEN now ELSE w.endAt[p]
        /\ v.trafficCount = w.trafficCount + 1
    BY <1>1, ArrivalEffect
  <2>2. \A m \in Nodes : Ids(v, m) = Ids(w, m)
    BY <2>1 DEF Ids
  <2> QED  BY <1>1, <2>1, <2>2
<1>2. CASE pkgs[c.id].dst # n
  <2>1. /\ Good(v, now)
        /\ Ids(v, n) = IF HasRoom(w, n) THEN Ids(w, n) \cup {c.id} ELSE Ids(w, n)
        /\ \A m \in Nodes \ {n} : v.stored[m] = w.stored[m]
        /\ v.endAt = w.endAt /\ v.trafficCount = w.trafficCount + 1
    BY <1>2, CarryEffect
  <2>2. \A m \in Nodes \ {n} : Ids(v, m) = Ids(w, m)
    BY <2>1 DEF Ids
  <2> QED  BY <1>2, <2>1, <2>2
<1> QED  BY <1>1, <1>2

(* The copy goes from a to b.                                               *)
LEMMA HandOverEffect ==
    ASSUME Running, NEW w, NEW now \in Nat \ {0}, Good(w, now),
           NEW a \in Nodes, NEW b \in Nodes, a # b,
           NEW c, Fit(c), NEW v, v = HandOver(w, a, b, c, now)
    PROVE  /\ Good(v, now)
           /\ Ids(v, a) = Ids(w, a) \ {c.id}
           /\ Ids(v, b) = IF pkgs[c.id].dst # b /\ HasRoom(w, b)
                          THEN Ids(w, b) \cup {c.id} ELSE Ids(w, b)
           /\ \A m \in Nodes \ {a, b} : Ids(v, m) = Ids(w, m)
           /\ \A p \in Pkgs : v.endAt[p] = IF p = c.id /\ pkgs[p].dst = b /\ w.endAt[p] = 0
                                           THEN now ELSE w.endAt[p]
           /\ v.trafficCount = w.trafficCount + 1
<1> DEFINE u == node_recv(w, b, c, now)
<1>1. /\ Good(u, now)
      /\ Ids(u, b) = IF pkgs[c.id].dst # b /\ HasRoom(w, b)
                     THEN Ids(w, b) \cup {c.id} ELSE Ids(w, b)
      /\ \A m \in Nodes \ {b} : Ids(u, m) = Ids(w, m)
      /\ \A p \in Pkgs : u.endAt[p] = IF p = c.id /\ pkgs[p].dst = b /\ w.endAt[p] = 0
                                      THEN now ELSE w.endAt[p]
      /\ u.trafficCount = w.trafficCount + 1
  BY RecvEffect
<1>2. v = StorageRemove(u, a, c.id)
  BY DEF HandOver
<1> HIDE DEF u
<1>3. /\ Good(v, now)
      /\ Ids(v, a) = Ids(u, a) \ {c.id}
      /\ \A m \in Nodes \ {a} : v.stored[m] = u.stored[m]
      /\ v.endAt = u.endAt /\ v.trafficCount = u.trafficCount
  BY <1>1, <1>2, RemoveEffect
<1>4. \A m \in Nodes \ {a} : Ids(v, m) = Ids(u, m)
  BY <1>3 DEF Ids
<1> QED  BY <1>1, <1>3, <1>4

-----------------------------------------------------------------------------
(* Room.                                                                    *)

(* The usage of a node is that of the packages it has a copy of.            *)
LEMMA UsageOfIds ==
    ASSUME Running, NEW w, NEW now, Good(w, now), NEW n \in Nodes
    PROVE  /\ Ids(w, n) \in SUBSET Pkgs
           /\ w.usage[n] = pkgSize * Cardinality(Ids(w, n))
<1> DEFINE list == w.stored[n]
           f == [i \in 1 .. Len(list) |-> list[i].id]
<1>1. list \in Seq(Copy) /\ NodeOK(list, w.usage[n], n)
  BY GoodFields DEF Good
<1>2. Ids(w, n) = {list[i].id : i \in DOMAIN list}
  BY DEF Ids
<1> HIDE DEF list
<1>3. Len(list) \in Nat /\ DOMAIN list = 1 .. Len(list) /\ \A i \in 1 .. Len(list) : list[i] \in Copy
  BY <1>1
<1>4. Ids(w, n) \in SUBSET Pkgs
  BY <1>2, <1>3 DEF Copy
<1>5. \A i, j \in 1 .. Len(list) : i # j => list[i].id # list[j].id
  <2>1. \A i, j \in 1 .. Len(list) : i < j => list[i].id # list[j].id
    BY <1>1, <1>3, IdOfType DEF NodeOK, Distinct
  <2> QED  BY <1>3, <2>1
<1>6. f \in Bijection(1 .. Len(list), Ids(w, n))
  <2>1. f \in [1 .. Len(list) -> Ids(w, n)]
    BY <1>2, <1>3
  <2>2. \A x, y \in 1 .. Len(list) : x # y => f[x] # f[y]
    BY <1>5
  <2>3. \A p \in Ids(w, n) : \E i \in 1 .. Len(list) : f[i] = p
    BY <1>2, <1>3
  <2> HIDE DEF f
  <2> QED  BY <2>1, <2>2, <2>3 DEF Bijection, Injection, Surjection, IsInjective
<1>7. Cardinality(Ids(w, n)) = Len(list)
  <2>1. IsFiniteSet(1 .. Len(list)) /\ Cardinality(1 .. Len(list)) = Len(list)
    BY <1>3, FS_Interval
  <2>2. ExistsBijection(1 .. Len(list), Ids(w, n))
    BY <1>6 DEF ExistsBijection
  <2> QED  BY <2>1, <2>2, FS_Bijection
<1>8. w.usage[n] = pkgSize * Len(list)
  BY <1>1 DEF NodeOK
<1> QED  BY <1>4, <1>7, <1>8

(* With these packages in a storage there is no room for another one.       *)
Full(S) == config.bufSize # NONE /\ pkgSize * (Cardinality(S) + 1) > config.bufSize

LEMMA NoRoomIsFull ==
    ASSUME Running, NEW w, NEW now, Good(w, now), NEW n \in Nodes, ~ HasRoom(w, n)
    PROVE  Full(Ids(w, n))
<1>1. /\ w.usage[n] = pkgSize * Cardinality(Ids(w, n))
      /\ Cardinality(Ids(w, n)) \in Nat /\ pkgSize \in Nat
  BY UsageOfIds, CardAdd, SizeType
<1>2. pkgSize * (Cardinality(Ids(w, n)) + 1) = w.usage[n] + pkgSize
  BY <1>1
<1>3. config.bufSize # NONE /\ ~(w.usage[n] + pkgSize =< config.bufSize)
  BY DEF HasRoom
<1>4. config.bufSize \in Int
  BY DEF Running, ConfigType, NONE
<1>5. w.usage[n] \in Nat
  BY GoodFields DEF Good
<1> QED  BY <1>1, <1>2, <1>3, <1>4, <1>5 DEF Full

LEMMA FullGrows ==
    ASSUME Running, NEW T \in SUBSET Pkgs, NEW S \in SUBSET T, Full(S)
    PROVE  Full(T)
<1>1. Cardinality(S) \in Nat /\ Cardinality(T) \in Nat /\ Cardinality(S) =< Cardinality(T)
  <2>1. IsFiniteSet(T)
    BY DtnAssumption, FS_Subset
  <2> QED  BY <2>1, FS_Subset, FS_CardinalityType
<1>2. PICK s \in Nat : s = Cardinality(S)
  BY <1>1
<1>3. PICK t \in Nat : t = Cardinality(T)
  BY <1>1
<1>4. pkgSize \in Nat /\ s =< t
  BY <1>1, <1>2, <1>3, SizeType
<1>5. pkgSize * (s + 1) =< pkgSize * (t + 1)
  BY <1>4
<1>6. config.bufSize \in Int
  BY DEF Running, ConfigType, NONE
<1>7. pkgSize * (s + 1) \in Int /\ pkgSize * (t + 1) \in Int
  BY <1>4
<1> QED  BY <1>2, <1>3, <1>5, <1>6, <1>7 DEF Full

-----------------------------------------------------------------------------
(* One direction of a contact: the copies that a lists, one after the other, *)
(* each kept, copied to b or moved to b.                                    *)

(* What becomes of the copy c in place j.  sent: the places that the rule of *)
(* the oracle chooses; "no_replica": it keeps a single copy.                *)
Passes(v, u, a, b, c, now, method, sent, j) ==
    \/ j \notin sent /\ u = v
    \/ /\ j \in sent /\ (pkgs[c.id].dst = b \/ method = "no_replica")
       /\ u = HandOver(v, a, b, c, now)
    \/ /\ j \in sent /\ pkgs[c.id].dst # b /\ method # "no_replica"
       /\ \E x, d : /\ d \in Copy /\ d.id = c.id /\ d.hops = c.hops
                    /\ x \in {v, SetValue(v, a, c.id, d.value)}
                    /\ u = node_recv(x, b, d, now)

(* The effect of it.                                                        *)
PassEffect(v, u, a, b, c, now, method, sent, j) ==
    /\ Good(u, now)
    /\ \A m \in Nodes \ {a, b} : Ids(u, m) = Ids(v, m)
    /\ Ids(u, a) = IF j \in sent /\ (pkgs[c.id].dst = b \/ method = "no_replica")
                   THEN Ids(v, a) \ {c.id} ELSE Ids(v, a)
    /\ Ids(u, b) = IF j \in sent /\ pkgs[c.id].dst # b /\ HasRoom(v, b)
                   THEN Ids(v, b) \cup {c.id} ELSE Ids(v, b)
    /\ \A p \in Pkgs : u.endAt[p] = IF j \in sent /\ p = c.id /\ pkgs[p].dst = b /\ v.endAt[p] = 0
                                    THEN now ELSE v.endAt[p]
    /\ u.trafficCount = IF j \in sent THEN v.trafficCount + 1 ELSE v.trafficCount

LEMMA PassHasEffect ==
    ASSUME Running, NEW v, NEW now \in Nat \ {0}, Good(v, now),
           NEW a \in Nodes, NEW b \in Nodes, a # b, NEW c, Fit(c),
           NEW method, NEW sent, NEW j,
           NEW u, Passes(v, u, a, b, c, now, method, sent, j)
    PROVE  PassEffect(v, u, a, b, c, now, method, sent, j)
<1>1. CASE j \notin sent /\ u = v
  BY <1>1 DEF PassEffect
<1>2. CASE /\ j \in sent /\ (pkgs[c.id].dst = b \/ method = "no_replica")
           /\ u = HandOver(v, a, b, c, now)
  BY <1>2, HandOverEffect DEF PassEffect
<1>3. ASSUME j \in sent, pkgs[c.id].dst # b, method # "no_replica",
             NEW x, NEW d, d \in Copy, d.id = c.id, d.hops = c.hops,
             x \in {v, SetValue(v, a, c.id, d.value)}, u = node_recv(x, b, d, now)
      PROVE  PassEffect(v, u, a, b, c, now, method, sent, j)
  <2>1. Fit(d) /\ d.value \in Int /\ c.id \in Pkgs
    BY <1>3 DEF Fit, Copy
  <2>2. /\ Good(x, now) /\ \A m \in Nodes : Ids(x, m) = Ids(v, m) /\ x.usage[m] = v.usage[m]
        /\ x.endAt = v.endAt /\ x.trafficCount = v.trafficCount
    BY <1>3, <2>1, SetValueEffect
  <2>3. HasRoom(x, b) <=> HasRoom(v, b)
    BY <2>2 DEF HasRoom
  <2>4. /\ Good(u, now)
        /\ Ids(u, b) = IF pkgs[d.id].dst # b /\ HasRoom(x, b)
                       THEN Ids(x, b) \cup {d.id} ELSE Ids(x, b)
        /\ \A m \in Nodes \ {b} : Ids(u, m) = Ids(x, m)
        /\ \A p \in Pkgs : u.endAt[p] = IF p = d.id /\ pkgs[p].dst = b /\ x.endAt[p] = 0
                                        THEN now ELSE x.endAt[p]
        /\ u.trafficCount = x.trafficCount + 1
    <3>1. u = node_recv(x, b, d, now)
      BY <1>3
    <3>2. Good(x, now) /\ Fit(d)
      BY <2>1, <2>2
    <3>3. PICK y, e : y = x /\ e = d /\ Good(y, now) /\ Fit(e) /\ u = node_recv(y, b, e, now)
      BY <3>1, <3>2
    <3>4. /\ Good(u, now)
          /\ Ids(u, b) = IF pkgs[e.id].dst # b /\ HasRoom(y, b)
                         THEN Ids(y, b) \cup {e.id} ELSE Ids(y, b)
          /\ \A m \in Nodes \ {b} : Ids(u, m) = Ids(y, m)
          /\ \A p \in Pkgs : u.endAt[p] = IF p = e.id /\ pkgs[p].dst = b /\ y.endAt[p] = 0
                                          THEN now ELSE y.endAt[p]
          /\ u.trafficCount = y.trafficCount + 1
      BY <3>3, RecvEffect, SMTT(30)
    <3> QED  BY <3>3, <3>4
  <2>5. /\ \A m \in Nodes \ {a, b} : Ids(u, m) = Ids(v, m)
        /\ Ids(u, a) = Ids(v, a)
        /\ Ids(u, b) = IF HasRoom(v, b) THEN Ids(v, b) \cup {c.id} ELSE Ids(v, b)
    BY <1>3, <2>2, <2>3, <2>4
  <2>6. \A p \in Pkgs : u.endAt[p] = v.endAt[p]
    BY <1>3, <2>2, <2>4
  <2>7. u.trafficCount = v.trafficCount + 1
    BY <2>2, <2>4
  <2> QED  BY <1>3, <2>4, <2>5, <2>6, <2>7 DEF PassEffect
<1> QED  BY <1>1, <1>2, <1>3 DEF Passes

(* The packages sent by the copies up to place j.                           *)
SentIds(w, a, sent, j) == {w.stored[a][i].id : i \in sent \cap (1 .. j)}

(* How v differs from w when the copies up to place j have had their turn.  *)
Delivers(w, v, a, b) ==
    \A p \in Pkgs :
        \/ v.endAt[p] = w.endAt[p]
        \/ /\ w.endAt[p] = 0 /\ v.endAt[p] # 0 /\ pkgs[p].dst = b
           /\ p \in Ids(w, a) /\ p \notin Ids(v, a)

Moves(w, v, a, b, method) ==
    /\ \A m \in Nodes \ {a, b} : Ids(v, m) = Ids(w, m)
    /\ Ids(v, a) \subseteq Ids(w, a)
    /\ Ids(w, b) \subseteq Ids(v, b) /\ Ids(v, b) \subseteq Ids(w, a) \cup Ids(w, b)
    /\ method = "no_replica" => \A p \in Ids(v, a) : p \in Ids(v, b) => p \in Ids(w, b)

Loses(w, v, a, b, method) ==
    \A p \in Ids(w, a) \ Ids(v, a) :
        \/ v.endAt[p] # 0
        \/ method = "no_replica" /\ (p \in Ids(v, b) \/ Full(Ids(v, b)))

(* Only what was sent gets to b, and what was sent to its destination b has   *)
(* arrived.                                                                 *)
Arrives(w, v, a, b, sent, j) ==
    /\ Ids(v, b) \subseteq Ids(w, b) \cup SentIds(w, a, sent, j)
    /\ \A p \in SentIds(w, a, sent, j) : pkgs[p].dst = b => v.endAt[p] # 0

(* With room everywhere b gets what was sent, and what arrives does so now.    *)
Floods(w, v, a, b, now, sent, j) ==
    /\ config.bufSize = NONE =>
         \A p \in SentIds(w, a, sent, j) : pkgs[p].dst = b \/ p \in Ids(v, b)
    /\ \A p \in Pkgs : v.endAt[p] = w.endAt[p] \/ v.endAt[p] = now

PassInv(w, v, a, b, now, method, sent, j) ==
    /\ Good(v, now)
    /\ \A i \in j + 1 .. Len(w.stored[a]) : w.stored[a][i].id \in Ids(v, a)
    /\ Delivers(w, v, a, b)
    /\ Moves(w, v, a, b, method)
    /\ Loses(w, v, a, b, method)
    /\ Arrives(w, v, a, b, sent, j)
    /\ Floods(w, v, a, b, now, sent, j)
    /\ v.trafficCount = w.trafficCount + Cardinality(SentIds(w, a, sent, j))

LEMMA PassStart ==
    ASSUME Running, NEW w, NEW now, Good(w, now), NEW a \in Nodes, NEW b \in Nodes, a # b,
           NEW method, NEW sent
    PROVE  PassInv(w, w, a, b, now, method, sent, 0)
<1>1. w.stored[a] \in Seq(Copy) /\ w.trafficCount \in Nat
  BY GoodFields DEF Good
<1>2. \A i \in 0 + 1 .. Len(w.stored[a]) : w.stored[a][i].id \in Ids(w, a)
  BY <1>1 DEF Ids
<1>3. SentIds(w, a, sent, 0) = {}
  BY DEF SentIds
<1>4. w.trafficCount = w.trafficCount + Cardinality(SentIds(w, a, sent, 0))
  <2>1. Cardinality({}) = 0
    BY FS_EmptySet
  <2>2. Cardinality(SentIds(w, a, sent, 0)) = 0
    BY <1>3, <2>1
  <2> QED  BY <1>1, <2>2
<1>5. Arrives(w, w, a, b, sent, 0) /\ Floods(w, w, a, b, now, sent, 0)
  BY <1>3 DEF Arrives, Floods
<1> QED  BY <1>2, <1>4, <1>5 DEF PassInv, Delivers, Moves, Loses

(* Each copy has its turn once.                                             *)
LEMMA SentIdsStep ==
    ASSUME Running, NEW w, NEW now, Good(w, now), NEW a \in Nodes,
           NEW sent, NEW j \in 1 .. Len(w.stored[a]), NEW k, k = j - 1
    PROVE  /\ \A i \in j + 1 .. Len(w.stored[a]) : w.stored[a][i].id # w.stored[a][j].id
           /\ Cardinality(SentIds(w, a, sent, k)) \in Nat
           /\ Cardinality(SentIds(w, a, sent, j))
                = IF j \in sent THEN Cardinality(SentIds(w, a, sent, k)) + 1
                                ELSE Cardinality(SentIds(w, a, sent, k))
<1> DEFINE list == w.stored[a]
<1>1. list \in Seq(Copy) /\ Distinct(list, IdOf)
  BY GoodFields DEF Good, NodeOK
<1> HIDE DEF list
<1>2. /\ Len(list) \in Nat /\ j \in 1 .. Len(list)
      /\ \A i \in 1 .. Len(list) : list[i] \in Copy /\ list[i].id \in Pkgs
  <2>1. /\ Len(list) \in Nat /\ j \in 1 .. Len(list)
        /\ \A i \in 1 .. Len(list) : list[i] \in Copy
    BY <1>1 DEF list
  <2> QED  BY <2>1 DEF Copy
<1>3. \A i, m \in 1 .. Len(list) : i < m => list[i].id # list[m].id
  BY <1>1, <1>2, IdOfType DEF Distinct
<1>4. \A i \in j + 1 .. Len(list) : list[i].id # list[j].id
  BY <1>2, <1>3
<1> DEFINE S == {list[i].id : i \in sent \cap (1 .. j - 1)}
           T == {list[i].id : i \in sent \cap (1 .. j)}
<1>5. SentIds(w, a, sent, j - 1) = S /\ SentIds(w, a, sent, j) = T
  BY DEF SentIds, list
<1>6. S \in SUBSET Pkgs
  BY <1>2
<1>7. list[j].id \notin S
  BY <1>2, <1>3
<1>8. T = IF j \in sent THEN S \cup {list[j].id} ELSE S
  <2>1. 1 .. j = (1 .. j - 1) \cup {j}
    BY <1>2
  <2> QED  BY <2>1
<1> HIDE DEF S, T
<1>9. /\ Cardinality(S) \in Nat
      /\ Cardinality(S \cup {list[j].id}) = Cardinality(S) + 1
  BY <1>6, <1>7, CardAdd
<1> QED  BY <1>4, <1>5, <1>8, <1>9 DEF list

LEMMA PassStep ==
    ASSUME Running, NEW w, NEW now \in Nat \ {0}, Good(w, now),
           NEW a \in Nodes, NEW b \in Nodes, a # b, NEW method, NEW sent,
           NEW j \in 1 .. Len(w.stored[a]), NEW v, NEW u,
           PassInv(w, v, a, b, now, method, sent, j - 1),
           Passes(v, u, a, b, w.stored[a][j], now, method, sent, j)
    PROVE  PassInv(w, u, a, b, now, method, sent, j)
<1> DEFINE c == w.stored[a][j]
           p == c.id
           moved == j \in sent /\ (pkgs[p].dst = b \/ method = "no_replica")
<1>1. Fit(c) /\ Len(w.stored[a]) \in Nat /\ p \in Ids(w, a)
  <2>1. w.stored[a] \in Seq(Copy)
    BY GoodFields DEF Good
  <2> QED  BY <2>1, StoredIsFit DEF Ids
<1>2. /\ Good(v, now)
      /\ \A i \in j .. Len(w.stored[a]) : w.stored[a][i].id \in Ids(v, a)
      /\ v.trafficCount = w.trafficCount + Cardinality(SentIds(w, a, sent, j - 1))
  BY DEF PassInv
<1>3. p \in Ids(v, a)
  BY <1>1, <1>2
<1>4. PassEffect(v, u, a, b, c, now, method, sent, j)
  BY <1>1, <1>2, PassHasEffect
<1>5. /\ p \in Pkgs /\ w.endAt \in [Pkgs -> Nat]
      /\ Ids(v, a) \subseteq Pkgs /\ Ids(v, b) \subseteq Pkgs /\ Ids(w, a) \subseteq Pkgs
  BY <1>1, <1>2, UsageOfIds, GoodFields DEF Fit, Copy, Good
<1>6. /\ \A i \in j + 1 .. Len(w.stored[a]) : w.stored[a][i].id # p
      /\ Cardinality(SentIds(w, a, sent, j - 1)) \in Nat
      /\ Cardinality(SentIds(w, a, sent, j))
           = IF j \in sent THEN Cardinality(SentIds(w, a, sent, j - 1)) + 1
                           ELSE Cardinality(SentIds(w, a, sent, j - 1))
  <2>1. PICK k : k = j - 1
    OBVIOUS
  <2>2. /\ \A i \in j + 1 .. Len(w.stored[a]) : w.stored[a][i].id # w.stored[a][j].id
        /\ Cardinality(SentIds(w, a, sent, k)) \in Nat
        /\ Cardinality(SentIds(w, a, sent, j))
             = IF j \in sent THEN Cardinality(SentIds(w, a, sent, k)) + 1
                             ELSE Cardinality(SentIds(w, a, sent, k))
    BY <2>1, SentIdsStep
  <2> QED  BY <2>1, <2>2
<1> HIDE DEF c
<1>7. /\ Good(u, now)
      /\ \A m \in Nodes \ {a, b} : Ids(u, m) = Ids(v, m)
      /\ Ids(u, a) = IF moved THEN Ids(v, a) \ {p} ELSE Ids(v, a)
      /\ Ids(u, b) = IF j \in sent /\ pkgs[p].dst # b /\ HasRoom(v, b)
                     THEN Ids(v, b) \cup {p} ELSE Ids(v, b)
      /\ \A o \in Pkgs : u.endAt[o] = IF j \in sent /\ o = p /\ pkgs[o].dst = b /\ v.endAt[o] = 0
                                      THEN now ELSE v.endAt[o]
      /\ u.trafficCount = IF j \in sent THEN v.trafficCount + 1 ELSE v.trafficCount
  BY <1>4 DEF PassEffect
<1> HIDE DEF p, moved
<1>8. \A i \in j + 1 .. Len(w.stored[a]) : w.stored[a][i].id \in Ids(u, a)
  BY <1>1, <1>2, <1>6, <1>7
<1>9. Delivers(w, u, a, b)
  <2> SUFFICES ASSUME NEW o \in Pkgs
               PROVE  \/ u.endAt[o] = w.endAt[o]
                      \/ /\ w.endAt[o] = 0 /\ u.endAt[o] # 0 /\ pkgs[o].dst = b
                         /\ o \in Ids(w, a) /\ o \notin Ids(u, a)
    BY DEF Delivers
  <2>1. \/ v.endAt[o] = w.endAt[o]
        \/ /\ w.endAt[o] = 0 /\ v.endAt[o] # 0 /\ pkgs[o].dst = b
           /\ o \in Ids(w, a) /\ o \notin Ids(v, a)
    BY DEF PassInv, Delivers
  <2>2. CASE j \in sent /\ o = p /\ pkgs[o].dst = b /\ v.endAt[o] = 0
    <3>1. u.endAt[o] # 0 /\ w.endAt[o] = 0
      BY <1>7, <2>1, <2>2
    <3>2. moved
      BY <2>2 DEF moved
    <3> QED  BY <1>1, <1>7, <2>2, <3>1, <3>2
  <2>3. CASE ~(j \in sent /\ o = p /\ pkgs[o].dst = b /\ v.endAt[o] = 0)
    <3>1. u.endAt[o] = v.endAt[o] /\ Ids(u, a) \subseteq Ids(v, a)
      BY <1>7, <2>3
    <3> QED  BY <2>1, <3>1
  <2> QED  BY <2>2, <2>3
<1>10. Moves(w, u, a, b, method)
  <2>1. Moves(w, v, a, b, method)
    BY DEF PassInv
  <2>2. ASSUME method = "no_replica", NEW o \in Ids(u, a), o \in Ids(u, b)  PROVE o \in Ids(w, b)
    <3>1. o \in Ids(v, a) /\ (moved => o # p)
      BY <1>7
    <3>2. j \in sent => moved
      BY <2>2 DEF moved
    <3>3. o \in Ids(v, b)
      BY <1>7, <2>2, <3>1, <3>2
    <3> QED  BY <2>1, <2>2, <3>1, <3>3 DEF Moves
  <2>3. \A m \in Nodes \ {a, b} : Ids(u, m) = Ids(w, m)
    BY <1>7, <2>1 DEF Moves
  <2>4. /\ Ids(u, a) \subseteq Ids(w, a) /\ Ids(w, b) \subseteq Ids(u, b)
        /\ Ids(u, b) \subseteq Ids(w, a) \cup Ids(w, b)
    BY <1>1, <1>7, <2>1 DEF Moves
  <2> QED  BY <2>2, <2>3, <2>4 DEF Moves
<1>11. Loses(w, u, a, b, method)
  <2> SUFFICES ASSUME NEW o \in Ids(w, a) \ Ids(u, a)
               PROVE  \/ u.endAt[o] # 0
                      \/ method = "no_replica" /\ (o \in Ids(u, b) \/ Full(Ids(u, b)))
    BY DEF Loses
  <2>1. CASE o \notin Ids(v, a)
    <3>1. v.endAt[o] # 0 \/ (method = "no_replica" /\ (o \in Ids(v, b) \/ Full(Ids(v, b))))
      BY <2>1 DEF PassInv, Loses
    <3>2. v.endAt[o] # 0 => u.endAt[o] # 0
      BY <1>5, <1>7
    <3>3. Ids(v, b) \subseteq Ids(u, b) /\ Ids(u, b) \in SUBSET Pkgs
      BY <1>5, <1>7
    <3>4. Full(Ids(v, b)) => Full(Ids(u, b))
      BY <3>3, FullGrows
    <3> QED  BY <3>1, <3>2, <3>3, <3>4
  <2>2. CASE o \in Ids(v, a)
    <3>1. moved /\ o = p
      BY <1>7, <2>2
    <3>2. CASE pkgs[p].dst = b
      BY <1>5, <1>7, <3>1, <3>2 DEF moved
    <3>3. CASE pkgs[p].dst # b /\ HasRoom(v, b)
      BY <1>7, <3>1, <3>3 DEF moved
    <3>4. CASE pkgs[p].dst # b /\ ~ HasRoom(v, b)
      <4>1. Full(Ids(v, b))
        BY <1>2, <3>4, NoRoomIsFull
      <4>2. Ids(u, b) = Ids(v, b) /\ method = "no_replica"
        BY <1>7, <3>1, <3>4 DEF moved
      <4> QED  BY <4>1, <4>2
    <3> QED  BY <3>2, <3>3, <3>4
  <2> QED  BY <2>1, <2>2
<1>12. u.trafficCount = w.trafficCount + Cardinality(SentIds(w, a, sent, j))
  <2>1. /\ Cardinality(SentIds(w, a, sent, j - 1)) \in Nat
        /\ Cardinality(SentIds(w, a, sent, j))
             = IF j \in sent THEN Cardinality(SentIds(w, a, sent, j - 1)) + 1
                         ELSE Cardinality(SentIds(w, a, sent, j - 1))
    BY <1>6
  <2>2. w.trafficCount \in Nat
    BY GoodFields DEF Good
  <2> QED  BY <1>2, <1>7, <2>1, <2>2
<1>13. Arrives(w, u, a, b, sent, j) /\ Floods(w, u, a, b, now, sent, j)
  <2> DEFINE S == SentIds(w, a, sent, j - 1)
             T == SentIds(w, a, sent, j)
  <2>1. /\ S \subseteq Pkgs /\ T = IF j \in sent THEN S \cup {p} ELSE S
    <3>1. w.stored[a] \in Seq(Copy)
      BY GoodFields DEF Good
    <3>2. \A i \in 1 .. Len(w.stored[a]) : w.stored[a][i].id \in Pkgs
      <4>1. \A i \in 1 .. Len(w.stored[a]) : w.stored[a][i] \in Copy
        BY <3>1
      <4> QED  BY <4>1 DEF Copy
    <3>3. S \subseteq Pkgs
      BY <1>1, <3>2 DEF SentIds
    <3>4. 1 .. j = (1 .. j - 1) \cup {j}
      BY <1>1
    <3>5. T = IF j \in sent THEN S \cup {w.stored[a][j].id} ELSE S
      BY <3>4 DEF SentIds
    <3> QED  BY <3>3, <3>5 DEF p, c
  <2>2. /\ Ids(v, b) \subseteq Ids(w, b) \cup S
        /\ \A o \in S : pkgs[o].dst = b => v.endAt[o] # 0
    BY DEF PassInv, Arrives
  <2> HIDE DEF S, T
  <2>3. Ids(u, b) \subseteq Ids(w, b) \cup T
    BY <1>7, <2>1, <2>2
  <2>4. ASSUME NEW o \in T, pkgs[o].dst = b  PROVE u.endAt[o] # 0
    <3>1. o \in Pkgs /\ (o \in S \/ (j \in sent /\ o = p))
      BY <1>5, <2>1
    <3>2. u.endAt[o] = IF j \in sent /\ o = p /\ pkgs[o].dst = b /\ v.endAt[o] = 0
                       THEN now ELSE v.endAt[o]
      BY <1>7, <3>1
    <3> QED  BY <2>2, <2>4, <3>1, <3>2
  <2>5. ASSUME config.bufSize = NONE, NEW o \in T  PROVE pkgs[o].dst = b \/ o \in Ids(u, b)
    <3>1. \A x \in S : pkgs[x].dst = b \/ x \in Ids(v, b)
      BY <2>5 DEF PassInv, Floods, S
    <3>2. HasRoom(v, b) /\ (o \in S \/ (j \in sent /\ o = p))
      BY <2>1, <2>5 DEF HasRoom
    <3> QED  BY <1>7, <3>1, <3>2
  <2>6. \A o \in Pkgs : u.endAt[o] = w.endAt[o] \/ u.endAt[o] = now
    <3>1. \A o \in Pkgs : v.endAt[o] = w.endAt[o] \/ v.endAt[o] = now
      BY DEF PassInv, Floods
    <3> QED  BY <1>7, <3>1
  <2> QED  BY <2>3, <2>4, <2>5, <2>6 DEF Arrives, Floods, T
<1> QED  BY <1>7, <1>8, <1>9, <1>10, <1>11, <1>12, <1>13 DEF PassInv

(* The whole direction, from the results after each copy.                    *)
LEMMA PassAll ==
    ASSUME Running, NEW w, NEW now \in Nat \ {0}, Good(w, now),
           NEW a \in Nodes, NEW b \in Nodes, a # b, NEW method, NEW sent,
           NEW r, r[0] = w,
           \A j \in 1 .. Len(w.stored[a]) :
               Passes(r[j - 1], r[j], a, b, w.stored[a][j], now, method, sent, j)
    PROVE  PassInv(w, r[Len(w.stored[a])], a, b, now, method, sent, Len(w.stored[a]))
<1> DEFINE n == Len(w.stored[a])
           T == {j \in 0 .. n : PassInv(w, r[j], a, b, now, method, sent, j)}
<1>1. n \in Nat
  BY GoodFields DEF Good
<1>2. 0 \in T
  BY <1>1, PassStart
<1>3. ASSUME NEW k \in 0 .. n - 1, k \in T  PROVE k + 1 \in T
  <2>1. k + 1 \in 1 .. n /\ (k + 1) - 1 = k
    BY <1>1
  <2>2. PassInv(w, r[k], a, b, now, method, sent, k)
    BY <1>3
  <2>3. Passes(r[k], r[k + 1], a, b, w.stored[a][k + 1], now, method, sent, k + 1)
    BY <2>1
  <2>4. PassInv(w, r[k + 1], a, b, now, method, sent, k + 1)
    <3>1. PICK j, v, u : j = k + 1 /\ v = r[k] /\ u = r[k + 1]
      OBVIOUS
    <3>2. /\ j \in 1 .. n /\ j - 1 = k /\ PassInv(w, v, a, b, now, method, sent, j - 1)
          /\ Passes(v, u, a, b, w.stored[a][j], now, method, sent, j)
      BY <2>1, <2>2, <2>3, <3>1
    <3>3. PassInv(w, u, a, b, now, method, sent, j)
      BY <3>2, PassStep
    <3> QED  BY <3>1, <3>3
  <2> QED  BY <1>1, <2>1, <2>4
<1> HIDE DEF T
<1>4. \A k \in 0 .. n : k \in T
  BY <1>1, <1>2, <1>3, UpTo
<1> QED  BY <1>1, <1>4 DEF T

-----------------------------------------------------------------------------
(* The passes of the oracles as folds over the list of the sender.           *)

(* Relay of RelayPass.                                                      *)
RelayStep(v, c, a, b, now, method, rule) ==
    CASE pkgs[c.id].dst = b -> HandOver(v, a, b, c, now)
      [] pkgs[c.id].dst # b /\ method = "no_replica" /\ rule[c].fwd ->
            HandOver(v, a, b, c, now)
      [] pkgs[c.id].dst # b /\ method = "better" /\ rule[c].fwd ->
            node_recv(v, b, c, now)
      [] pkgs[c.id].dst # b /\ method = "everbest"
         /\ (IF c.value = NONE THEN rule[c].fwd ELSE rule[c].ever) ->
            node_recv(SetValue(v, a, c.id, rule[c].new), b,
                      [c EXCEPT !.value = rule[c].new], now)
      [] OTHER -> v

(* Whether it sends the copy c.                                             *)
Chosen(c, b, method, rule) ==
    \/ pkgs[c.id].dst = b
    \/ method \in {"no_replica", "better"} /\ rule[c].fwd
    \/ method = "everbest" /\ (IF c.value = NONE THEN rule[c].fwd ELSE rule[c].ever)

ChosenPlaces(w, a, b, method, rule) ==
    {j \in 1 .. Len(w.stored[a]) : Chosen(w.stored[a][j], b, method, rule)}

LEMMA RelayStepPasses ==
    ASSUME NEW v, NEW c, Fit(c), NEW a, NEW b, NEW now, NEW method, NEW rule,
           rule[c].new \in Int, NEW sent, NEW j, j \in sent <=> Chosen(c, b, method, rule),
           NEW u, u = RelayStep(v, c, a, b, now, method, rule)
    PROVE  Passes(v, u, a, b, c, now, method, sent, j)
<1> DEFINE ever == IF c.value = NONE THEN rule[c].fwd ELSE rule[c].ever
           d == [c EXCEPT !.value = rule[c].new]
<1>1. CASE pkgs[c.id].dst = b
  <2>1. u = HandOver(v, a, b, c, now)
    BY <1>1 DEF RelayStep
  <2> QED  BY <1>1, <2>1 DEF Passes, Chosen
<1>2. CASE pkgs[c.id].dst # b /\ method = "no_replica" /\ rule[c].fwd
  <2>1. u = HandOver(v, a, b, c, now)
    BY <1>2 DEF RelayStep
  <2> QED  BY <1>2, <2>1 DEF Passes, Chosen
<1>3. CASE pkgs[c.id].dst # b /\ method = "better" /\ rule[c].fwd
  <2>1. u = node_recv(v, b, c, now)
    BY <1>3 DEF RelayStep
  <2>2. c \in Copy
    BY DEF Fit
  <2> QED  BY <1>3, <2>1, <2>2 DEF Passes, Chosen
<1>4. CASE pkgs[c.id].dst # b /\ method = "everbest" /\ ever
  <2>1. u = node_recv(SetValue(v, a, c.id, rule[c].new), b, d, now)
    BY <1>4 DEF RelayStep
  <2>2. d \in Copy /\ d.id = c.id /\ d.hops = c.hops /\ d.value = rule[c].new
    BY DEF Fit, Copy
  <2>3. Chosen(c, b, method, rule)
    BY <1>4 DEF Chosen
  <2> HIDE DEF d
  <2> QED  BY <1>4, <2>1, <2>2, <2>3 DEF Passes
<1>5. CASE /\ pkgs[c.id].dst # b
           /\ ~(method = "no_replica" /\ rule[c].fwd)
           /\ ~(method = "better" /\ rule[c].fwd)
           /\ ~(method = "everbest" /\ ever)
  <2>1. u = v
    BY <1>5 DEF RelayStep
  <2>2. ~ Chosen(c, b, method, rule)
    BY <1>5 DEF Chosen
  <2> QED  BY <2>1, <2>2 DEF Passes
<1> QED  BY <1>1, <1>2, <1>3, <1>4, <1>5

LEMMA RelayTrace ==
    ASSUME Running, NEW w, NEW now \in Nat \ {0}, Good(w, now),
           NEW a \in Nodes, NEW b \in Nodes, a # b, NEW method, NEW rule,
           \A c \in Range(w.stored[a]) : rule[c].new \in Int
    PROVE  \E r : /\ r[0] = w
                  /\ r[Len(w.stored[a])] = RelayPass(w, a, b, now, method, rule)
                  /\ \A j \in 1 .. Len(w.stored[a]) :
                       r[j] = RelayStep(r[j - 1], w.stored[a][j], a, b, now, method, rule)
<1> DEFINE list == w.stored[a]
           n == Len(list)
           Eq(f) == f = [s \in SUBSET DOMAIN list |->
                           IF s = {} THEN w
                           ELSE RelayStep(f[s \ {Max(s)}], list[Max(s)], a, b, now, method, rule)]
           F == CHOOSE f : Eq(f)
           V == {v \in Net : Good(v, now)}
           step == [i \in 1 .. n |-> [v \in V |->
                      RelayStep(v, list[i], a, b, now, method, rule)]]
<1>1. RelayPass(w, a, b, now, method, rule) = F[DOMAIN list]
  BY DEF RelayPass, FoldLeft, MapThenFoldSet, RelayStep
<1>2. /\ list \in Seq(Copy) /\ n \in Nat /\ DOMAIN list = 1 .. n /\ w \in V
      /\ \A i \in 1 .. n : Fit(list[i]) /\ rule[list[i]].new \in Int
  <2>1. list \in Seq(Copy) /\ w \in Net
    BY GoodFields DEF Good
  <2>2. \A i \in 1 .. n : rule[list[i]].new \in Int
    BY <2>1, RangeIndex
  <2> QED  BY <2>1, <2>2, StoredIsFit
<1>3. ASSUME NEW i \in 1 .. n, NEW v \in V
      PROVE  RelayStep(v, list[i], a, b, now, method, rule) \in V
  <2> DEFINE u == RelayStep(v, list[i], a, b, now, method, rule)
             sent == {j \in {1} : Chosen(list[i], b, method, rule)}
  <2>1. 1 \in sent <=> Chosen(list[i], b, method, rule)
    OBVIOUS
  <2> HIDE DEF sent
  <2>2. Passes(v, u, a, b, list[i], now, method, sent, 1)
    BY <1>2, <2>1, RelayStepPasses
  <2>3. PassEffect(v, u, a, b, list[i], now, method, sent, 1)
    BY <1>2, <2>2, PassHasEffect
  <2> QED  BY <2>3 DEF PassEffect, Good
<1> HIDE DEF V
<1>4. step \in [1 .. n -> [V -> V]]
  BY <1>3
<1>5. \A i \in 1 .. n : \A v \in V :
        step[i][v] = RelayStep(v, list[i], a, b, now, method, rule)
  OBVIOUS
<1> HIDE DEF step
<1>6. PICK f \in [SUBSET (1 .. n) -> V] : FoldsTo(f, n, w, step)
  BY <1>2, <1>4, FoldExists
<1> HIDE DEF list, n
<1>7. Eq(f)
  <2> DEFINE g == [s \in SUBSET (1 .. n) |->
                     IF s = {} THEN w
                     ELSE RelayStep(f[s \ {Max(s)}], list[Max(s)], a, b, now, method, rule)]
  <2>1. ASSUME NEW s \in SUBSET (1 .. n)  PROVE f[s] = g[s]
    <3>1. CASE s = {}
      BY <1>6, <3>1 DEF FoldsTo
    <3>2. CASE s # {}
      <4>1. Max(s) \in 1 .. n
        BY <1>2, <3>2, LargestIndex
      <4>2. s \ {Max(s)} \in SUBSET (1 .. n)
        OBVIOUS
      <4>3. f[s \ {Max(s)}] \in V
        BY <4>2
      <4>4. f[s] = step[Max(s)][f[s \ {Max(s)}]]
        BY <1>6, <3>2 DEF FoldsTo
      <4> QED  BY <1>5, <3>2, <4>1, <4>3, <4>4
    <3> QED  BY <3>1, <3>2
  <2>2. f = g
    <3>1. g \in [SUBSET (1 .. n) -> {g[s] : s \in SUBSET (1 .. n)}]
      OBVIOUS
    <3> HIDE DEF g
    <3> QED  BY <2>1, <3>1
  <2> QED  BY <1>2, <2>2
<1>8. Eq(F)
  <2> HIDE DEF Eq
  <2> QED  BY <1>7
<1> HIDE DEF F
<1>9. /\ F[{}] = w
      /\ \A s \in SUBSET (1 .. n) : s # {} =>
           F[s] = RelayStep(F[s \ {Max(s)}], list[Max(s)], a, b, now, method, rule)
  BY <1>2, <1>8
<1> DEFINE r == [i \in 0 .. n |-> F[1 .. i]]
<1>10. r[0] = w /\ r[n] = F[1 .. n]
  <2>1. 1 .. 0 = {} /\ 0 \in 0 .. n /\ n \in 0 .. n
    BY <1>2
  <2> QED  BY <1>9, <2>1
<1>11. ASSUME NEW j \in 1 .. n
       PROVE  r[j] = RelayStep(r[j - 1], list[j], a, b, now, method, rule)
  <2>0. j \in Nat /\ j > 0 /\ j - 1 \in 0 .. n /\ j \in 0 .. n /\ j =< n /\ n \in Nat
    BY <1>2
  <2>1. 1 .. j \in SUBSET (1 .. n) /\ 1 .. j # {}
    <3>1. j \in 1 .. j /\ \A x \in 1 .. j : x \in 1 .. n
      BY <2>0
    <3> QED  BY <3>1
  <2>2. Max(1 .. j) = j /\ (1 .. j) \ {j} = 1 .. j - 1
    BY <2>0, MaxOfInterval
  <2>3. F[1 .. j] = RelayStep(F[1 .. j - 1], list[j], a, b, now, method, rule)
    BY <1>9, <2>1, <2>2
  <2> QED  BY <2>0, <2>3
<1> QED  BY <1>1, <1>2, <1>10, <1>11 DEF list, n

(* Pass of EpidemicPass: every copy is sent.                                *)
EpidemicStep(v, c, a, b, now) ==
    IF pkgs[c.id].dst = b THEN HandOver(v, a, b, c, now) ELSE node_recv(v, b, c, now)

LEMMA EpidemicStepPasses ==
    ASSUME NEW v, NEW c, Fit(c), NEW a, NEW b, NEW now, NEW sent, NEW j, j \in sent,
           NEW u, u = EpidemicStep(v, c, a, b, now)
    PROVE  Passes(v, u, a, b, c, now, "everbest", sent, j)
<1>1. CASE pkgs[c.id].dst = b
  <2>1. u = HandOver(v, a, b, c, now)
    BY <1>1 DEF EpidemicStep
  <2> QED  BY <1>1, <2>1 DEF Passes
<1>2. CASE pkgs[c.id].dst # b
  <2>1. u = node_recv(v, b, c, now)
    BY <1>2 DEF EpidemicStep
  <2>2. c \in Copy
    BY DEF Fit
  <2> QED  BY <1>2, <2>1, <2>2 DEF Passes
<1> QED  BY <1>1, <1>2

LEMMA EpidemicTrace ==
    ASSUME Running, NEW w, NEW now \in Nat \ {0}, Good(w, now),
           NEW a \in Nodes, NEW b \in Nodes, a # b
    PROVE  \E r : /\ r[0] = w
                  /\ r[Len(w.stored[a])] = EpidemicPass(w, a, b, now)
                  /\ \A j \in 1 .. Len(w.stored[a]) :
                       r[j] = EpidemicStep(r[j - 1], w.stored[a][j], a, b, now)
<1> DEFINE list == w.stored[a]
           n == Len(list)
           Eq(f) == f = [s \in SUBSET DOMAIN list |->
                           IF s = {} THEN w
                           ELSE EpidemicStep(f[s \ {Max(s)}], list[Max(s)], a, b, now)]
           F == CHOOSE f : Eq(f)
           V == {v \in Net : Good(v, now)}
           step == [i \in 1 .. n |-> [v \in V |->
                      EpidemicStep(v, list[i], a, b, now)]]
<1>1. EpidemicPass(w, a, b, now) = F[DOMAIN list]
  BY DEF EpidemicPass, FoldLeft, MapThenFoldSet, EpidemicStep
<1>2. /\ list \in Seq(Copy) /\ n \in Nat /\ DOMAIN list = 1 .. n /\ w \in V
      /\ \A i \in 1 .. n : Fit(list[i])
  <2>1. list \in Seq(Copy) /\ w \in Net
    BY GoodFields DEF Good
  <2> QED  BY <2>1, StoredIsFit
<1>3. ASSUME NEW i \in 1 .. n, NEW v \in V
      PROVE  EpidemicStep(v, list[i], a, b, now) \in V
  <2> DEFINE u == EpidemicStep(v, list[i], a, b, now)
  <2>1. Passes(v, u, a, b, list[i], now, "everbest", {1}, 1)
    BY <1>2, EpidemicStepPasses
  <2>3. PassEffect(v, u, a, b, list[i], now, "everbest", {1}, 1)
    BY <1>2, <2>1, PassHasEffect
  <2> QED  BY <2>3 DEF PassEffect, Good
<1> HIDE DEF V
<1>4. step \in [1 .. n -> [V -> V]]
  BY <1>3
<1>5. \A i \in 1 .. n : \A v \in V :
        step[i][v] = EpidemicStep(v, list[i], a, b, now)
  OBVIOUS
<1> HIDE DEF step
<1>6. PICK f \in [SUBSET (1 .. n) -> V] : FoldsTo(f, n, w, step)
  BY <1>2, <1>4, FoldExists
<1> HIDE DEF list, n
<1>7. Eq(f)
  <2> DEFINE g == [s \in SUBSET (1 .. n) |->
                     IF s = {} THEN w
                     ELSE EpidemicStep(f[s \ {Max(s)}], list[Max(s)], a, b, now)]
  <2>1. ASSUME NEW s \in SUBSET (1 .. n)  PROVE f[s] = g[s]
    <3>1. CASE s = {}
      BY <1>6, <3>1 DEF FoldsTo
    <3>2. CASE s # {}
      <4>1. Max(s) \in 1 .. n
        BY <1>2, <3>2, LargestIndex
      <4>2. s \ {Max(s)} \in SUBSET (1 .. n)
        OBVIOUS
      <4>3. f[s \ {Max(s)}] \in V
        BY <4>2
      <4>4. f[s] = step[Max(s)][f[s \ {Max(s)}]]
        BY <1>6, <3>2 DEF FoldsTo
      <4> QED  BY <1>5, <3>2, <4>1, <4>3, <4>4
    <3> QED  BY <3>1, <3>2
  <2>2. f = g
    <3>1. g \in [SUBSET (1 .. n) -> {g[s] : s \in SUBSET (1 .. n)}]
      OBVIOUS
    <3> HIDE DEF g
    <3> QED  BY <2>1, <3>1
  <2> QED  BY <1>2, <2>2
<1>8. Eq(F)
  <2> HIDE DEF Eq
  <2> QED  BY <1>7
<1> HIDE DEF F
<1>9. /\ F[{}] = w
      /\ \A s \in SUBSET (1 .. n) : s # {} =>
           F[s] = EpidemicStep(F[s \ {Max(s)}], list[Max(s)], a, b, now)
  BY <1>2, <1>8
<1> DEFINE r == [i \in 0 .. n |-> F[1 .. i]]
<1>10. r[0] = w /\ r[n] = F[1 .. n]
  <2>1. 1 .. 0 = {} /\ 0 \in 0 .. n /\ n \in 0 .. n
    BY <1>2
  <2> QED  BY <1>9, <2>1
<1>11. ASSUME NEW j \in 1 .. n
       PROVE  r[j] = EpidemicStep(r[j - 1], list[j], a, b, now)
  <2>0. j \in Nat /\ j > 0 /\ j - 1 \in 0 .. n /\ j \in 0 .. n /\ j =< n /\ n \in Nat
    BY <1>2
  <2>1. 1 .. j \in SUBSET (1 .. n) /\ 1 .. j # {}
    <3>1. j \in 1 .. j /\ \A x \in 1 .. j : x \in 1 .. n
      BY <2>0
    <3> QED  BY <3>1
  <2>2. Max(1 .. j) = j /\ (1 .. j) \ {j} = 1 .. j - 1
    BY <2>0, MaxOfInterval
  <2>3. F[1 .. j] = EpidemicStep(F[1 .. j - 1], list[j], a, b, now)
    BY <1>9, <2>1, <2>2
  <2> QED  BY <2>0, <2>3
<1> QED  BY <1>1, <1>2, <1>10, <1>11 DEF list, n

(* What a direction of a contact comes to.                                  *)
PassResult(w, v, a, b, now, method, sent) ==
    PassInv(w, v, a, b, now, method, sent, Len(w.stored[a]))

LEMMA RelayResult ==
    ASSUME Running, NEW w, NEW now \in Nat \ {0}, Good(w, now),
           NEW a \in Nodes, NEW b \in Nodes, a # b, NEW method, NEW rule,
           \A c \in Range(w.stored[a]) : rule[c].new \in Int,
           NEW v, v = RelayPass(w, a, b, now, method, rule)
    PROVE  PassResult(w, v, a, b, now, method, ChosenPlaces(w, a, b, method, rule))
<1> DEFINE n == Len(w.stored[a])
           sent == ChosenPlaces(w, a, b, method, rule)
<1>1. PICK r : /\ r[0] = w /\ r[n] = v
               /\ \A j \in 1 .. n :
                    r[j] = RelayStep(r[j - 1], w.stored[a][j], a, b, now, method, rule)
  BY RelayTrace
<1>2. w.stored[a] \in Seq(Copy)
  BY GoodFields DEF Good
<1>3. ASSUME NEW j \in 1 .. n
      PROVE  Passes(r[j - 1], r[j], a, b, w.stored[a][j], now, method, sent, j)
  <2>1. Fit(w.stored[a][j]) /\ rule[w.stored[a][j]].new \in Int
    BY <1>2, StoredIsFit, RangeIndex
  <2>2. j \in sent <=> Chosen(w.stored[a][j], b, method, rule)
    BY DEF ChosenPlaces
  <2> HIDE DEF sent, n
  <2>3. r[j] = RelayStep(r[j - 1], w.stored[a][j], a, b, now, method, rule)
    BY <1>1
  <2> QED  BY <2>1, <2>2, <2>3, RelayStepPasses
<1> HIDE DEF sent
<1>4. PassInv(w, r[n], a, b, now, method, sent, n)
  BY <1>1, <1>3, PassAll
<1> QED  BY <1>1, <1>4 DEF PassResult, sent

LEMMA EpidemicResult ==
    ASSUME Running, NEW w, NEW now \in Nat \ {0}, Good(w, now),
           NEW a \in Nodes, NEW b \in Nodes, a # b,
           NEW v, v = EpidemicPass(w, a, b, now)
    PROVE  PassResult(w, v, a, b, now, "everbest", Nat)
<1> DEFINE n == Len(w.stored[a])
<1>1. PICK r : /\ r[0] = w /\ r[n] = v
               /\ \A j \in 1 .. n :
                    r[j] = EpidemicStep(r[j - 1], w.stored[a][j], a, b, now)
  BY EpidemicTrace
<1>3. ASSUME NEW j \in 1 .. n
      PROVE  Passes(r[j - 1], r[j], a, b, w.stored[a][j], now, "everbest", Nat, j)
  <2>1. Fit(w.stored[a][j]) /\ j \in Nat
    BY StoredIsFit
  <2> HIDE DEF n
  <2>3. r[j] = EpidemicStep(r[j - 1], w.stored[a][j], a, b, now)
    BY <1>1
  <2> QED  BY <2>1, <2>3, EpidemicStepPasses
<1>4. PassInv(w, r[n], a, b, now, "everbest", Nat, n)
  BY <1>1, <1>3, PassAll
<1> QED  BY <1>1, <1>4 DEF PassResult

-----------------------------------------------------------------------------
(* A contact: one direction, then the other.                                *)

(* At most one copy, and none of a package that was delivered.               *)
OneCopy(w) ==
    \A p \in Pkgs, m \in Nodes : p \in Ids(w, m) =>
        w.endAt[p] = 0 /\ \A n \in Nodes : p \in Ids(w, n) => m = n

(* A package that nobody has received.                                      *)
Absent(w, p) == w.endAt[p] = 0 /\ \A n \in Nodes : p \notin Ids(w, n)

LEMMA PassOneCopy ==
    ASSUME Running, NEW w, NEW now, Good(w, now), NEW a \in Nodes, NEW b \in Nodes, a # b,
           NEW sent, NEW v, PassResult(w, v, a, b, now, "no_replica", sent), OneCopy(w)
    PROVE  OneCopy(v)
<1> SUFFICES ASSUME NEW p \in Pkgs, NEW m \in Nodes, p \in Ids(v, m)
             PROVE  v.endAt[p] = 0 /\ \A n \in Nodes : p \in Ids(v, n) => m = n
  BY DEF OneCopy
<1>1. Good(v, now) /\ Delivers(w, v, a, b) /\ Moves(w, v, a, b, "no_replica")
  BY DEF PassResult, PassInv
<1>2. \A n \in Nodes, k \in Nodes : p \in Ids(w, n) => w.endAt[p] = 0 /\ (p \in Ids(w, k) => n = k)
  BY DEF OneCopy
<1>3. /\ \A n \in Nodes \ {a, b} : p \in Ids(v, n) => p \in Ids(w, n)
      /\ p \in Ids(v, a) => p \in Ids(w, a)
      /\ p \in Ids(v, b) => p \in Ids(w, a) \/ p \in Ids(w, b)
      /\ p \in Ids(v, a) /\ p \in Ids(v, b) => p \in Ids(w, b)
  BY <1>1 DEF Moves
<1>4. p \in Ids(v, b) => pkgs[p].dst # b
  <2>1. ASSUME p \in Ids(v, b)  PROVE pkgs[p].dst # b
    <3>1. v.stored[b] \in Seq(Copy)
      BY <1>1, GoodFields DEF Good
    <3>2. PICK i \in 1 .. Len(v.stored[b]) : v.stored[b][i].id = p
      BY <2>1, <3>1 DEF Ids
    <3> QED  BY <1>1, <3>2, StoredIsFit
  <2> QED  BY <2>1
<1>5. \/ v.endAt[p] = w.endAt[p]
      \/ /\ w.endAt[p] = 0 /\ v.endAt[p] # 0 /\ pkgs[p].dst = b
         /\ p \in Ids(w, a) /\ p \notin Ids(v, a)
  BY <1>1 DEF Delivers
<1>6. \A n \in Nodes : p \in Ids(v, n) => m = n
  BY <1>2, <1>3
<1>7. v.endAt[p] = 0
  <2>1. \E n \in Nodes : p \in Ids(w, n)
    BY <1>3
  <2>2. w.endAt[p] = 0
    BY <1>2, <2>1
  <2>3. CASE m = a \/ m = b
    BY <1>4, <1>5, <2>2, <2>3
  <2>4. CASE m # a /\ m # b
    <3>1. p \in Ids(w, m)
      BY <1>3, <2>4
    <3>2. p \notin Ids(w, a)
      BY <1>2, <2>4, <3>1
    <3> QED  BY <1>5, <2>2, <3>2
  <2> QED  BY <2>3, <2>4
<1> QED  BY <1>6, <1>7

LEMMA PassAbsent ==
    ASSUME NEW w, NEW now, NEW a \in Nodes, NEW b \in Nodes, NEW method, NEW sent,
           NEW v, PassResult(w, v, a, b, now, method, sent), NEW p \in Pkgs, Absent(w, p)
    PROVE  Absent(v, p)
<1>1. Delivers(w, v, a, b) /\ Moves(w, v, a, b, method)
  BY DEF PassResult, PassInv
<1>2. v.endAt[p] = 0
  BY <1>1 DEF Delivers, Absent
<1>3. ASSUME NEW n \in Nodes  PROVE p \notin Ids(v, n)
  BY <1>1 DEF Moves, Absent
<1> QED  BY <1>2, <1>3 DEF Absent

(* A package that a carries stays with a or b, or arrives, or is dropped by a *)
(* when b is full.                                                          *)
LEMMA PassKeeps ==
    ASSUME Running, NEW w, NEW now, Good(w, now), NEW a \in Nodes, NEW b \in Nodes, a # b,
           NEW method, NEW sent, NEW v, PassResult(w, v, a, b, now, method, sent),
           NEW p \in Pkgs, p \in Ids(w, a) \cup Ids(w, b)
    PROVE  \/ p \in Ids(v, a) \cup Ids(v, b)
           \/ v.endAt[p] # 0
           \/ /\ method = "no_replica" /\ p \in Ids(w, a) /\ p \notin Ids(w, b)
              /\ config.bufSize # NONE
              /\ pkgSize * Cardinality(Ids(w, a) \cup Ids(w, b)) > config.bufSize
<1>1. Good(v, now) /\ Moves(w, v, a, b, method) /\ Loses(w, v, a, b, method)
  BY DEF PassResult, PassInv
<1>2. CASE p \in Ids(v, a) \cup Ids(v, b) \/ v.endAt[p] # 0
  BY <1>2
<1>3. CASE p \notin Ids(v, a) /\ p \notin Ids(v, b) /\ v.endAt[p] = 0
  <2>1. p \in Ids(w, a) /\ p \notin Ids(w, b)
    BY <1>1, <1>3 DEF Moves
  <2>2. method = "no_replica" /\ Full(Ids(v, b))
    BY <1>1, <1>3, <2>1 DEF Loses
  <2> DEFINE S == Ids(v, b)
             T == S \cup {p}
             U == Ids(w, a) \cup Ids(w, b)
  <2>3. S \in SUBSET Pkgs /\ U \in SUBSET Pkgs /\ p \notin S /\ T \subseteq U
    BY <1>1, <1>3, <2>1, UsageOfIds DEF Moves
  <2>4. /\ config.bufSize # NONE /\ pkgSize * (Cardinality(S) + 1) > config.bufSize
    BY <2>2 DEF Full
  <2> HIDE DEF S, U
  <2>5. Cardinality(S) \in Nat /\ Cardinality(T) = Cardinality(S) + 1
    BY <2>3, CardAdd
  <2> HIDE DEF T
  <2>6. Cardinality(U) \in Nat /\ Cardinality(T) =< Cardinality(U)
    <3>1. IsFiniteSet(U)
      BY <2>3, DtnAssumption, FS_Subset
    <3> QED  BY <2>3, <3>1, FS_Subset, FS_CardinalityType
  <2>7. pkgSize * (Cardinality(S) + 1) =< pkgSize * Cardinality(U)
    <3>1. PICK s \in Nat : s = Cardinality(S)
      BY <2>5
    <3>2. PICK t \in Nat : t = Cardinality(U)
      BY <2>6
    <3>3. s + 1 =< t /\ pkgSize \in Nat
      BY <2>5, <2>6, <3>1, <3>2, SizeType
    <3>4. pkgSize * (s + 1) =< pkgSize * t
      BY <3>3
    <3> QED  BY <3>1, <3>2, <3>4
  <2>8. /\ config.bufSize \in Int /\ pkgSize * (Cardinality(S) + 1) \in Int
        /\ pkgSize * Cardinality(U) \in Int
    BY <2>5, <2>6, SizeType DEF Running, ConfigType, NONE
  <2>9. pkgSize * Cardinality(U) > config.bufSize
    BY <2>4, <2>7, <2>8
  <2> QED  BY <2>1, <2>2, <2>4, <2>9 DEF U
<1> QED  BY <1>2, <1>3

(* The rule of the oracle: always to the destination, and otherwise only to a *)
(* node that it prefers as a carrier for that destination.  pref[a][b] has the             *)
(* destinations for which b is preferred to a.                              *)
Sends(w, a, b, method, sent, pref) ==
    \A j \in 1 .. Len(w.stored[a]) :
        /\ pkgs[w.stored[a][j].id].dst = b => j \in sent
        /\ method # "everbest" /\ j \in sent =>
             \/ pkgs[w.stored[a][j].id].dst = b
             \/ pkgs[w.stored[a][j].id].dst \in pref[a][b]

Contacted(w, u, a, b, now, method) ==
    \E v, s, t, pref :
        /\ PassResult(w, v, a, b, now, method, s) /\ Sends(w, a, b, method, s, pref)
        /\ PassResult(v, u, b, a, now, method, t) /\ Sends(v, b, a, method, t, pref)
        /\ pref[a][b] \cap pref[b][a] = {}

(* The packages that go one way.                                            *)
LEMMA SentWhere ==
    ASSUME Running, NEW w, NEW now, Good(w, now), NEW a \in Nodes, NEW b,
           NEW method, method # "everbest", NEW sent, NEW pref,
           Sends(w, a, b, method, sent, pref)
    PROVE  \A p \in SentIds(w, a, sent, Len(w.stored[a])) :
             /\ p \in Ids(w, a) /\ pkgs[p].dst # a
             /\ pkgs[p].dst = b \/ pkgs[p].dst \in pref[a][b]
<1> SUFFICES ASSUME NEW p \in SentIds(w, a, sent, Len(w.stored[a]))
             PROVE  /\ p \in Ids(w, a) /\ pkgs[p].dst # a
                    /\ pkgs[p].dst = b \/ pkgs[p].dst \in pref[a][b]
  OBVIOUS
<1>1. w.stored[a] \in Seq(Copy)
  BY GoodFields DEF Good
<1>2. PICK j \in 1 .. Len(w.stored[a]) : j \in sent /\ p = w.stored[a][j].id
  BY DEF SentIds
<1>3. p \in Ids(w, a)
  BY <1>1, <1>2 DEF Ids
<1>4. pkgs[p].dst # a
  BY <1>2, StoredIsFit
<1>5. pkgs[p].dst = b \/ pkgs[p].dst \in pref[a][b]
  BY <1>2 DEF Sends
<1> QED  BY <1>3, <1>4, <1>5

LEMMA ContactCount ==
    ASSUME Running, NEW w, NEW now, Good(w, now), NEW a \in Nodes, NEW b \in Nodes, a # b,
           NEW method, method # "everbest", NEW u, Contacted(w, u, a, b, now, method)
    PROVE  u.trafficCount - w.trafficCount =< Cardinality(Ids(w, a) \cup Ids(w, b))
<1>1. PICK v, s, t, pref :
        /\ PassResult(w, v, a, b, now, method, s) /\ Sends(w, a, b, method, s, pref)
        /\ PassResult(v, u, b, a, now, method, t) /\ Sends(v, b, a, method, t, pref)
        /\ pref[a][b] \cap pref[b][a] = {}
  BY DEF Contacted
<1> DEFINE S == SentIds(w, a, s, Len(w.stored[a]))
           T == SentIds(v, b, t, Len(v.stored[b]))
           U == Ids(w, a) \cup Ids(w, b)
<1>2. /\ Good(v, now) /\ Ids(v, b) \subseteq U
      /\ v.trafficCount = w.trafficCount + Cardinality(S)
  BY <1>1 DEF PassResult, PassInv, Moves
<1>3. u.trafficCount = v.trafficCount + Cardinality(T)
  BY <1>1 DEF PassResult, PassInv
<1>4. \A p \in S : /\ p \in Ids(w, a)
                   /\ pkgs[p].dst = b \/ pkgs[p].dst \in pref[a][b]
                   /\ pkgs[p].dst # a
  BY <1>1, SentWhere
<1>5. \A p \in T : /\ p \in Ids(v, b)
                   /\ pkgs[p].dst = a \/ pkgs[p].dst \in pref[b][a]
                   /\ pkgs[p].dst # b
  BY <1>1, <1>2, SentWhere
<1>6. w.trafficCount \in Nat /\ U \in SUBSET Pkgs
  BY UsageOfIds, GoodFields DEF Good
<1> HIDE DEF S, T, U
<1>7. S \subseteq U
  BY <1>4 DEF U
<1>8. T \subseteq U /\ S \cap T = {}
  BY <1>1, <1>2, <1>4, <1>5
<1>9. IsFiniteSet(U) /\ IsFiniteSet(S) /\ IsFiniteSet(T)
  BY <1>6, <1>7, <1>8, DtnAssumption, FS_Subset
<1>10. /\ Cardinality(S) \in Nat /\ Cardinality(T) \in Nat /\ Cardinality(U) \in Nat
       /\ Cardinality(S \cup T) \in Nat
  <2>1. S \cup T \in SUBSET Pkgs /\ S \in SUBSET Pkgs /\ T \in SUBSET Pkgs
    BY <1>6, <1>7, <1>8
  <2> QED  BY <1>6, <2>1, CardAdd
<1>11. Cardinality(S \cup T) = Cardinality(S) + Cardinality(T)
  <2>1. Cardinality(S \cup T) = Cardinality(S) + Cardinality(T) - Cardinality(S \cap T)
    BY <1>9, FS_Union
  <2>2. Cardinality(S \cap T) = 0
    BY <1>8, FS_EmptySet
  <2> QED  BY <1>10, <2>1, <2>2
<1>12. Cardinality(S \cup T) =< Cardinality(U)
  <2>1. S \cup T \in SUBSET U
    BY <1>7, <1>8
  <2> QED  BY <1>9, <2>1, FS_Subset
<1> QED  BY <1>2, <1>3, <1>6, <1>10, <1>11, <1>12 DEF U

(* What a contact leaves of the network.                                    *)
LEMMA ContactKeeps ==
    ASSUME Running, NEW w, NEW now, Good(w, now), NEW a \in Nodes, NEW b \in Nodes, a # b,
           NEW method, NEW u, Contacted(w, u, a, b, now, method)
    PROVE  /\ Good(u, now)
           /\ method = "no_replica" /\ OneCopy(w) => OneCopy(u)
           /\ \A p \in Pkgs : Absent(w, p) => Absent(u, p)
<1>1. PICK v, s, t : /\ PassResult(w, v, a, b, now, method, s)
                     /\ PassResult(v, u, b, a, now, method, t)
  BY DEF Contacted
<1>2. Good(v, now) /\ Good(u, now)
  BY <1>1 DEF PassResult, PassInv
<1>3. method = "no_replica" /\ OneCopy(w) => OneCopy(u)
  BY <1>1, <1>2, PassOneCopy
<1>4. \A p \in Pkgs : Absent(w, p) => Absent(u, p)
  BY <1>1, PassAbsent
<1> QED  BY <1>2, <1>3, <1>4

(* A package n holds that m has no storage for, though m does not hold it.   *)
Dropped(w, p, n, m) ==
    /\ p \in Ids(w, n) /\ p \notin Ids(w, m)
    /\ config.bufSize # NONE
    /\ pkgSize * Cardinality(Ids(w, n) \cup Ids(w, m)) > config.bufSize

(* A package that was not delivered leaves the network only by being dropped. *)
LEMMA ContactLoss ==
    ASSUME Running, NEW w, NEW now, Good(w, now), NEW a \in Nodes, NEW b \in Nodes, a # b,
           NEW method, NEW u, Contacted(w, u, a, b, now, method),
           method = "no_replica" => OneCopy(w),
           NEW p \in Pkgs, NEW c \in Nodes, p \in Ids(w, c),
           u.endAt[p] = 0, \A n \in Nodes : p \notin Ids(u, n)
    PROVE  Dropped(w, p, a, b) \/ Dropped(w, p, b, a)
<1>1. PICK v, s, t : /\ PassResult(w, v, a, b, now, method, s)
                     /\ PassResult(v, u, b, a, now, method, t)
  BY DEF Contacted
<1>2. /\ Good(v, now) /\ Good(u, now)
      /\ Moves(w, v, a, b, method) /\ Moves(v, u, b, a, method) /\ Delivers(v, u, b, a)
  BY <1>1 DEF PassResult, PassInv
<1>3. c \in {a, b}
  BY <1>2 DEF Moves
<1>4. v.endAt[p] = 0
  BY <1>2 DEF Delivers
<1>5. CASE p \notin Ids(v, a) \cup Ids(v, b)
  <2>1. /\ p \in Ids(w, a) /\ p \notin Ids(w, b)
        /\ config.bufSize # NONE
        /\ pkgSize * Cardinality(Ids(w, a) \cup Ids(w, b)) > config.bufSize
    BY <1>1, <1>3, <1>4, <1>5, PassKeeps
  <2> QED  BY <2>1 DEF Dropped
<1>6. CASE p \in Ids(v, a) \cup Ids(v, b)
  <2>1. p \in Ids(v, b) \cup Ids(v, a) /\ p \notin Ids(u, b) \cup Ids(u, a)
    BY <1>6
  <2>2. /\ method = "no_replica" /\ p \in Ids(v, b) /\ p \notin Ids(v, a)
        /\ config.bufSize # NONE
        /\ pkgSize * Cardinality(Ids(v, b) \cup Ids(v, a)) > config.bufSize
    BY <1>1, <1>2, <2>1, PassKeeps
  <2> DEFINE U == Ids(w, a) \cup Ids(w, b)
             V == Ids(v, b) \cup Ids(v, a)
  <2>3. V \in SUBSET U /\ U \in SUBSET Pkgs
    BY <1>2, UsageOfIds DEF Moves
  <2> HIDE DEF U, V
  <2>4. Cardinality(V) \in Nat /\ Cardinality(U) \in Nat /\ Cardinality(V) =< Cardinality(U)
    <3>1. IsFiniteSet(U)
      BY <2>3, DtnAssumption, FS_Subset
    <3> QED  BY <2>3, <3>1, FS_Subset, FS_CardinalityType
  <2>5. pkgSize * Cardinality(V) =< pkgSize * Cardinality(U)
    <3>1. PICK x \in Nat : x = Cardinality(V)
      BY <2>4
    <3>2. PICK y \in Nat : y = Cardinality(U)
      BY <2>4
    <3>3. x =< y /\ pkgSize \in Nat
      BY <2>4, <3>1, <3>2, SizeType
    <3>4. pkgSize * x =< pkgSize * y
      BY <3>3
    <3> QED  BY <3>1, <3>2, <3>4
  <2>6. /\ config.bufSize \in Int /\ pkgSize * Cardinality(V) \in Int
        /\ pkgSize * Cardinality(U) \in Int
    BY <2>4, SizeType DEF Running, ConfigType, NONE
  <2>7. config.bufSize # NONE /\ pkgSize * Cardinality(U) > config.bufSize
    BY <2>2, <2>5, <2>6 DEF V
  <2>8. PICK o \in {a, b} : o # c
    OBVIOUS
  <2>9. p \notin Ids(w, o)
    BY <1>3, <2>2, <2>8 DEF OneCopy
  <2>10. Ids(w, c) \cup Ids(w, o) = U
    BY <1>3, <2>8 DEF U
  <2>11. Dropped(w, p, c, o)
    BY <2>7, <2>9, <2>10 DEF Dropped
  <2> QED  BY <1>3, <2>8, <2>11
<1> QED  BY <1>5, <1>6

-----------------------------------------------------------------------------
(* The oracles.                                                             *)

Methods == {"no_replica", "better", "everbest"}

(* A direction whose rule sends only what pref says.                        *)
Directed(w, v, a, b, now, method, pref) ==
    \E s : PassResult(w, v, a, b, now, method, s) /\ Sends(w, a, b, method, s, pref)

LEMMA RelayDirected ==
    ASSUME Running, NEW w, NEW now \in Nat \ {0}, Good(w, now),
           NEW a \in Nodes, NEW b \in Nodes, a # b, NEW method \in Methods, NEW rule, NEW pref,
           \A c \in Range(w.stored[a]) :
               rule[c].new \in Int /\ (rule[c].fwd => pkgs[c.id].dst \in pref[a][b]),
           NEW v, v = RelayPass(w, a, b, now, method, rule)
    PROVE  Directed(w, v, a, b, now, method, pref)
<1> DEFINE s == ChosenPlaces(w, a, b, method, rule)
<1>1. PassResult(w, v, a, b, now, method, s)
  BY RelayResult
<1>2. ASSUME method # "everbest", NEW j \in 1 .. Len(w.stored[a]), j \in s
      PROVE  \/ pkgs[w.stored[a][j].id].dst = b
             \/ pkgs[w.stored[a][j].id].dst \in pref[a][b]
  <2>1. w.stored[a] \in Seq(Copy)
    BY GoodFields DEF Good
  <2>2. w.stored[a][j] \in Range(w.stored[a])
    BY <2>1, RangeIndex
  <2>3. Chosen(w.stored[a][j], b, method, rule)
    BY <1>2 DEF ChosenPlaces
  <2> QED  BY <1>2, <2>2, <2>3 DEF Chosen
<1>3. \A j \in 1 .. Len(w.stored[a]) : pkgs[w.stored[a][j].id].dst = b => j \in s
  BY DEF ChosenPlaces, Chosen
<1> HIDE DEF s
<1>4. Sends(w, a, b, method, s, pref)
  BY <1>2, <1>3 DEF Sends
<1> QED  BY <1>1, <1>4 DEF Directed

LEMMA BothDirections ==
    ASSUME NEW w, NEW u, NEW v, NEW a, NEW b, NEW now, NEW method, NEW pref,
           Directed(w, v, a, b, now, method, pref), Directed(v, u, b, a, now, method, pref),
           pref[a][b] \cap pref[b][a] = {}
    PROVE  Contacted(w, u, a, b, now, method)
BY DEF Directed, Contacted

LEMMA DirectedGood ==
    ASSUME NEW w, NEW v, NEW a, NEW b, NEW now, NEW method, NEW pref,
           Directed(w, v, a, b, now, method, pref)
    PROVE  Good(v, now)
BY DEF Directed, PassResult, PassInv

LEMMA EpidemicContacted ==
    ASSUME Running, NEW w, NEW now \in Nat \ {0}, Good(w, now),
           NEW a \in Nodes, NEW b \in Nodes, a # b,
           NEW v, v = EpidemicPass(w, a, b, now), NEW u, u = EpidemicPass(v, b, a, now)
    PROVE  Contacted(w, u, a, b, now, "everbest")
<1> DEFINE pref == [x \in Nodes |-> [y \in Nodes |-> {}]]
<1>1. PassResult(w, v, a, b, now, "everbest", Nat)
  BY EpidemicResult
<1>2. Good(v, now)
  BY <1>1 DEF PassResult, PassInv
<1>3. PassResult(v, u, b, a, now, "everbest", Nat)
  BY <1>2, EpidemicResult
<1>4. pref[a][b] \cap pref[b][a] = {}
  OBVIOUS
<1> HIDE DEF pref
<1>5. Sends(w, a, b, "everbest", Nat, pref) /\ Sends(v, b, a, "everbest", Nat, pref)
  BY DEF Sends
<1>6. Directed(w, v, a, b, now, "everbest", pref) /\ Directed(v, u, b, a, now, "everbest", pref)
  BY <1>1, <1>3, <1>5 DEF Directed
<1> QED  BY <1>4, <1>6, BothDirections

LEMMA CopyDst ==
    ASSUME Running, NEW w, NEW now, Good(w, now), NEW a \in Nodes
    PROVE  \A c \in Range(w.stored[a]) : pkgs[c.id].dst \in Nodes /\ c.id \in Pkgs /\ c.value \in Int
<1>1. Range(w.stored[a]) \subseteq Copy
  BY GoodFields, RangeIndex DEF Good
<1> QED  BY <1>1 DEF Running, PkgsOK, Copy

LEMMA NodesCount == \A S \in SUBSET Nodes : Cardinality(S) \in Nat
BY DtnAssumption, FS_Subset, FS_CardinalityType

LEMMA NeighborCountType ==
    ASSUME NEW met, NEW n
    PROVE  NeighborCount(met, n) \in Nat
BY NodesCount DEF NeighborCount, Neighbors

BubblePref(met) ==
    [x \in Nodes |-> [y \in Nodes |->
        {d \in Nodes : NeighborCount(met, x) < NeighborCount(met, y)}]]

LEMMA BubbleDirected ==
    ASSUME Running, NEW w, NEW now \in Nat \ {0}, Good(w, now),
           NEW a \in Nodes, NEW b \in Nodes, a # b, NEW met,
           NEW v, v = BubblePass(w, a, b, now, met)
    PROVE  Directed(w, v, a, b, now, config.fwdMethod, BubblePref(met))
<1> DEFINE mine == NeighborCount(met, a)
           theirs == NeighborCount(met, b)
           rule == [c \in Range(w.stored[a]) |-> Rule(mine < theirs, theirs > c.value, theirs)]
<1>1. v = RelayPass(w, a, b, now, config.fwdMethod, rule)
  BY DEF BubblePass
<1>2. mine \in Nat /\ theirs \in Nat
  BY NeighborCountType
<1>3. ASSUME NEW c \in Range(w.stored[a])
      PROVE  rule[c].new \in Int /\ (rule[c].fwd => pkgs[c.id].dst \in BubblePref(met)[a][b])
  <2>1. rule[c].new = theirs /\ (rule[c].fwd <=> mine < theirs)
    BY DEF Rule
  <2>2. pkgs[c.id].dst \in Nodes
    BY CopyDst
  <2>3. BubblePref(met)[a][b] = {d \in Nodes : mine < theirs}
    BY DEF BubblePref
  <2> HIDE DEF rule, mine, theirs
  <2> QED  BY <1>2, <2>1, <2>2, <2>3
<1>4. config.fwdMethod \in Methods
  BY DEF Running, ConfigType, Methods
<1> HIDE DEF rule
<1> QED  BY <1>1, <1>3, <1>4, RelayDirected

LEMMA EstimateType ==
    ASSUME NEW est, est \in [Pairs -> Estimates \cup {NONE}], NEW n, NEW d
    PROVE  EstimateOf(est, n, d) \in Estimates \cup {NONE} /\ EstimateOf(est, n, d) \in Int
<1>1. NONE = -1 /\ Estimates \cup {NONE} \subseteq Int
  BY DtnAssumption DEF NONE
<1> HIDE DEF NONE
<1>2. EstimateOf(est, n, d) \in Estimates \cup {NONE}
  <2> HIDE DEF Pairs
  <2> QED  BY DEF EstimateOf, OfPair
<1> QED  BY <1>1, <1>2

OraclePref(est) ==
    [x \in Nodes |-> [y \in Nodes |->
        {d \in Nodes : /\ EstimateOf(est, y, d) # NONE
                       /\ \/ EstimateOf(est, x, d) = NONE
                          \/ EstimateOf(est, x, d) > EstimateOf(est, y, d)}]]

LEMMA OracleDirected ==
    ASSUME Running, NEW w, NEW now \in Nat \ {0}, Good(w, now),
           NEW a \in Nodes, NEW b \in Nodes, a # b,
           NEW est, est \in [Pairs -> Estimates \cup {NONE}],
           NEW v, v = OraclePass(w, a, b, now, est)
    PROVE  Directed(w, v, a, b, now, config.fwdMethod, OraclePref(est))
<1> DEFINE Mine(c) == EstimateOf(est, a, pkgs[c.id].dst)
           Theirs(c) == EstimateOf(est, b, pkgs[c.id].dst)
           rule == [c \in Range(w.stored[a]) |->
                      Rule(Theirs(c) # NONE /\ (Mine(c) = NONE \/ Mine(c) > Theirs(c)),
                           Theirs(c) # NONE /\ c.value > Theirs(c), Theirs(c))]
<1>1. v = RelayPass(w, a, b, now, config.fwdMethod, rule)
  BY DEF OraclePass
<1>3. ASSUME NEW c \in Range(w.stored[a])
      PROVE  rule[c].new \in Int /\ (rule[c].fwd => pkgs[c.id].dst \in OraclePref(est)[a][b])
  <2>1. /\ rule[c].new = Theirs(c)
        /\ rule[c].fwd <=> Theirs(c) # NONE /\ (Mine(c) = NONE \/ Mine(c) > Theirs(c))
    BY DEF Rule
  <2>2. pkgs[c.id].dst \in Nodes /\ Theirs(c) \in Int
    BY CopyDst, EstimateType
  <2>3. OraclePref(est)[a][b] =
          {d \in Nodes : /\ EstimateOf(est, b, d) # NONE
                         /\ \/ EstimateOf(est, a, d) = NONE
                            \/ EstimateOf(est, a, d) > EstimateOf(est, b, d)}
    BY DEF OraclePref
  <2> HIDE DEF rule
  <2> QED  BY <2>1, <2>2, <2>3
<1>4. config.fwdMethod \in Methods
  BY DEF Running, ConfigType, Methods
<1> HIDE DEF rule
<1> QED  BY <1>1, <1>3, <1>4, RelayDirected

LEMMA OraclePrefOneWay ==
    ASSUME NEW est, est \in [Pairs -> Estimates \cup {NONE}], NEW a \in Nodes, NEW b \in Nodes
    PROVE  OraclePref(est)[a][b] \cap OraclePref(est)[b][a] = {}
<1> SUFFICES ASSUME NEW d \in Nodes, d \in OraclePref(est)[a][b], d \in OraclePref(est)[b][a]
             PROVE  FALSE
  BY DEF OraclePref
<1>1. EstimateOf(est, a, d) \in Int /\ EstimateOf(est, b, d) \in Int
  BY EstimateType
<1> QED  BY <1>1 DEF OraclePref

ZoomPref(est) ==
    [x \in Nodes |-> [y \in Nodes |->
        {d \in Nodes : \/ d \in OraclePref(est)[x][y]
                       \/ /\ EstimateOf(est, x, d) = NONE /\ EstimateOf(est, y, d) = NONE
                          /\ config.betweenness[x] < config.betweenness[y]}]]

LEMMA ZoomDirected ==
    ASSUME Running, NEW w, NEW now \in Nat \ {0}, Good(w, now),
           NEW a \in Nodes, NEW b \in Nodes, a # b,
           NEW est, est \in [Pairs -> Estimates \cup {NONE}],
           NEW v, v = ZoomPass(w, a, b, now, est)
    PROVE  Directed(w, v, a, b, now, config.fwdMethod, ZoomPref(est))
<1> DEFINE Mine(c) == EstimateOf(est, a, pkgs[c.id].dst)
           Theirs(c) == EstimateOf(est, b, pkgs[c.id].dst)
           cond1(c) == Mine(c) = NONE /\ Theirs(c) # NONE
           cond2(c) == Mine(c) # NONE /\ Theirs(c) # NONE /\ Mine(c) > Theirs(c)
           cond3(c) == /\ Mine(c) = NONE /\ Theirs(c) = NONE
                       /\ config.betweenness[a] < config.betweenness[b]
           rule == [c \in Range(w.stored[a]) |->
                      Rule(cond1(c) \/ cond2(c) \/ cond3(c), FALSE, NONE)]
<1>1. v = RelayPass(w, a, b, now, config.fwdMethod, rule)
  BY DEF ZoomPass
<1>3. ASSUME NEW c \in Range(w.stored[a])
      PROVE  rule[c].new \in Int /\ (rule[c].fwd => pkgs[c.id].dst \in ZoomPref(est)[a][b])
  <2>1. /\ rule[c].new = NONE
        /\ rule[c].fwd <=> cond1(c) \/ cond2(c) \/ cond3(c)
    BY DEF Rule
  <2>2. pkgs[c.id].dst \in Nodes /\ NONE \in Int
    BY CopyDst DEF NONE
  <2>3. ZoomPref(est)[a][b] =
          {d \in Nodes : \/ d \in OraclePref(est)[a][b]
                         \/ /\ EstimateOf(est, a, d) = NONE /\ EstimateOf(est, b, d) = NONE
                            /\ config.betweenness[a] < config.betweenness[b]}
    BY DEF ZoomPref
  <2>4. OraclePref(est)[a][b] =
          {d \in Nodes : /\ EstimateOf(est, b, d) # NONE
                         /\ \/ EstimateOf(est, a, d) = NONE
                            \/ EstimateOf(est, a, d) > EstimateOf(est, b, d)}
    BY DEF OraclePref
  <2> HIDE DEF rule
  <2> QED  BY <2>1, <2>2, <2>3, <2>4
<1>4. config.fwdMethod \in Methods
  BY DEF Running, ConfigType, Methods
<1> HIDE DEF rule
<1> QED  BY <1>1, <1>3, <1>4, RelayDirected

LEMMA ZoomPrefOneWay ==
    ASSUME Running, NEW est, est \in [Pairs -> Estimates \cup {NONE}],
           NEW a \in Nodes, NEW b \in Nodes
    PROVE  ZoomPref(est)[a][b] \cap ZoomPref(est)[b][a] = {}
<1> SUFFICES ASSUME NEW d \in Nodes, d \in ZoomPref(est)[a][b], d \in ZoomPref(est)[b][a]
             PROVE  FALSE
  BY DEF ZoomPref
<1>1. d \notin OraclePref(est)[a][b] \/ d \notin OraclePref(est)[b][a]
  BY OraclePrefOneWay
<1>2. config.betweenness[a] \in Nat /\ config.betweenness[b] \in Nat
  BY DEF Running, ConfigType
<1>3. /\ d \in OraclePref(est)[a][b] => EstimateOf(est, b, d) # NONE
      /\ d \in OraclePref(est)[b][a] => EstimateOf(est, a, d) # NONE
  BY DEF OraclePref
<1> QED  BY <1>1, <1>2, <1>3 DEF ZoomPref

LEMMA DstTimeType ==
    ASSUME contacts \in ContactTables, NEW n, NEW d, NEW now \in Nat
    PROVE  DstTime(n, d, now) \in Int
<1> DEFINE S == FutureContacts(n, d, now)
<1>1. S \in SUBSET Nat
  <2>1. \A c \in contacts : c.startAt \in Nat
    BY DtnAssumption DEF Contacts
  <2> QED  BY <2>1 DEF FutureContacts, ContactTimes
<1>2. DstTime(n, d, now) = IF S = {} THEN NONE ELSE Min(S) - now
  BY DEF DstTime
<1> HIDE DEF S
<1>3. S # {} => Min(S) \in Nat
  <2>1. S # {} => \E m \in S : \A j \in S : m =< j
    BY <1>1, SmallestExists
  <2> QED  BY <1>1, <2>1 DEF Min
<1> QED  BY <1>2, <1>3 DEF NONE

FuturePref(now) ==
    [x \in Nodes |-> [y \in Nodes |->
        {d \in Nodes : /\ DstTime(y, d, now) >= 0
                       /\ \/ DstTime(x, d, now) = NONE
                          \/ DstTime(x, d, now) > DstTime(y, d, now)}]]

LEMMA FutureDirected ==
    ASSUME Running, NEW w, NEW now \in Nat \ {0}, Good(w, now),
           NEW a \in Nodes, NEW b \in Nodes, a # b,
           NEW v, v = FuturePass(w, a, b, now)
    PROVE  Directed(w, v, a, b, now, "no_replica", FuturePref(now))
<1> DEFINE Mine(c) == DstTime(a, pkgs[c.id].dst, now)
           Theirs(c) == DstTime(b, pkgs[c.id].dst, now)
           rule == [c \in Range(w.stored[a]) |->
                      Rule(Theirs(c) >= 0 /\ (Mine(c) = NONE \/ Mine(c) > Theirs(c)), FALSE, NONE)]
<1>1. v = RelayPass(w, a, b, now, "no_replica", rule)
  BY DEF FuturePass
<1>3. ASSUME NEW c \in Range(w.stored[a])
      PROVE  rule[c].new \in Int /\ (rule[c].fwd => pkgs[c.id].dst \in FuturePref(now)[a][b])
  <2>1. /\ rule[c].new = NONE
        /\ rule[c].fwd <=> Theirs(c) >= 0 /\ (Mine(c) = NONE \/ Mine(c) > Theirs(c))
    BY DEF Rule
  <2>2. pkgs[c.id].dst \in Nodes /\ NONE \in Int
    BY CopyDst DEF NONE
  <2>3. FuturePref(now)[a][b] =
          {d \in Nodes : /\ DstTime(b, d, now) >= 0
                         /\ \/ DstTime(a, d, now) = NONE
                            \/ DstTime(a, d, now) > DstTime(b, d, now)}
    BY DEF FuturePref
  <2> HIDE DEF rule
  <2> QED  BY <2>1, <2>2, <2>3
<1>4. "no_replica" \in Methods
  BY DEF Methods
<1> HIDE DEF rule
<1> QED  BY <1>1, <1>3, <1>4, RelayDirected

LEMMA FuturePrefOneWay ==
    ASSUME contacts \in ContactTables, NEW now \in Nat, NEW a \in Nodes, NEW b \in Nodes
    PROVE  FuturePref(now)[a][b] \cap FuturePref(now)[b][a] = {}
<1> SUFFICES ASSUME NEW d \in Nodes, d \in FuturePref(now)[a][b], d \in FuturePref(now)[b][a]
             PROVE  FALSE
  BY DEF FuturePref
<1>1. DstTime(a, d, now) \in Int /\ DstTime(b, d, now) \in Int
  BY DstTimeType
<1> QED  BY <1>1 DEF FuturePref, NONE

LEMMA ShareType ==
    ASSUME NEW x \in Nat, NEW y \in Nat
    PROVE  Share(x, y) \in Int
<1>1. CASE x + y = 0
  BY <1>1 DEF Share
<1>2. CASE x + y # 0
  <2>1. x + y \in Nat \ {0} /\ Unit * x \in Int
    BY <1>2 DEF Unit
  <2> DEFINE p == Unit * x
             q == x + y
  <2> HIDE DEF p, q
  <2>2. p \div q \in Int
    BY <2>1 DEF p, q
  <2>3. Share(x, y) = p \div q
    BY <1>2 DEF Share, p, q
  <2> QED  BY <2>2, <2>3
<1> QED  BY <1>1, <1>2

(* The utility of x for d when it meets y.                                  *)
UtilityOf(similarity, betweenness, x, y, d) ==
    config.alfar * Share(similarity[x][d], similarity[y][d])
    + config.beta * Share(betweenness[x], betweenness[y])

LEMMA UtilityType ==
    ASSUME Running, NEW similarity \in [Nodes -> [Nodes -> Nat]], NEW betweenness \in [Nodes -> Nat],
           NEW x \in Nodes, NEW y \in Nodes, NEW d \in Nodes
    PROVE  UtilityOf(similarity, betweenness, x, y, d) \in Int
<1>1. /\ similarity[x][d] \in Nat /\ similarity[y][d] \in Nat
      /\ betweenness[x] \in Nat /\ betweenness[y] \in Nat
  OBVIOUS
<1>2. PICK s \in Int : s = Share(similarity[x][d], similarity[y][d])
  BY <1>1, ShareType
<1>3. PICK t \in Int : t = Share(betweenness[x], betweenness[y])
  BY <1>1, ShareType
<1>4. PICK alfar \in Nat : alfar = config.alfar
  BY DEF Running, ConfigType
<1>5. PICK beta \in Nat : beta = config.beta
  BY DEF Running, ConfigType
<1>6. UtilityOf(similarity, betweenness, x, y, d) = alfar * s + beta * t
  BY <1>2, <1>3, <1>4, <1>5 DEF UtilityOf
<1>7. alfar * s \in Int /\ beta * t \in Int
  OBVIOUS
<1> QED  BY <1>6, <1>7

SocialPref(similarity, betweenness) ==
    [x \in Nodes |-> [y \in Nodes |->
        {d \in Nodes : UtilityOf(similarity, betweenness, x, y, d)
                         < UtilityOf(similarity, betweenness, y, x, d)}]]

LEMMA SocialDirected ==
    ASSUME Running, NEW w, NEW now \in Nat \ {0}, Good(w, now),
           NEW a \in Nodes, NEW b \in Nodes, a # b,
           NEW similarity \in [Nodes -> [Nodes -> Nat]], NEW betweenness \in [Nodes -> Nat],
           NEW v, v = SocialPass(w, a, b, now, similarity, betweenness)
    PROVE  Directed(w, v, a, b, now, config.fwdMethod, SocialPref(similarity, betweenness))
<1> DEFINE Mine(c) == UtilityOf(similarity, betweenness, a, b, pkgs[c.id].dst)
           Theirs(c) == UtilityOf(similarity, betweenness, b, a, pkgs[c.id].dst)
           rule == [c \in Range(w.stored[a]) |->
                      Rule(Mine(c) < Theirs(c), Theirs(c) > c.value, Theirs(c))]
           pref == SocialPref(similarity, betweenness)
<1>1. v = RelayPass(w, a, b, now, config.fwdMethod, rule)
  BY DEF SocialPass, UtilityOf
<1>3. ASSUME NEW c \in Range(w.stored[a])
      PROVE  rule[c].new \in Int /\ (rule[c].fwd => pkgs[c.id].dst \in pref[a][b])
  <2>1. rule[c].new = Theirs(c) /\ (rule[c].fwd <=> Mine(c) < Theirs(c))
    BY DEF Rule
  <2>2. pkgs[c.id].dst \in Nodes
    BY CopyDst
  <2>3. Theirs(c) \in Int /\ Mine(c) \in Int
    BY <2>2, UtilityType
  <2>4. pref[a][b] = {d \in Nodes : UtilityOf(similarity, betweenness, a, b, d)
                                      < UtilityOf(similarity, betweenness, b, a, d)}
    BY DEF SocialPref
  <2> HIDE DEF rule, pref
  <2> QED  BY <2>1, <2>2, <2>3, <2>4
<1>4. config.fwdMethod \in Methods
  BY DEF Running, ConfigType, Methods
<1> HIDE DEF rule
<1> QED  BY <1>1, <1>3, <1>4, RelayDirected

LEMMA SocialPrefOneWay ==
    ASSUME Running, NEW similarity \in [Nodes -> [Nodes -> Nat]], NEW betweenness \in [Nodes -> Nat],
           NEW a \in Nodes, NEW b \in Nodes
    PROVE  SocialPref(similarity, betweenness)[a][b] \cap SocialPref(similarity, betweenness)[b][a] = {}
<1> DEFINE pref == SocialPref(similarity, betweenness)
<1> SUFFICES ASSUME NEW d \in Nodes, d \in pref[a][b], d \in pref[b][a]  PROVE FALSE
  BY DEF SocialPref
<1>1. /\ UtilityOf(similarity, betweenness, a, b, d) \in Int
      /\ UtilityOf(similarity, betweenness, b, a, d) \in Int
  BY UtilityType
<1> QED  BY <1>1 DEF SocialPref

(* The similarity and the betweenness that the two social oracles give it.   *)
SimbetSimilarity(met) == [n \in Nodes |-> [d \in Nodes |-> CalculatedSimilarity(met, n, d)]]
SimbetBetweenness == IF config.alfar = 0 THEN [n \in Nodes |-> 0] ELSE config.betweenness
GlobalSimilarity == [n \in Nodes |-> [d \in Nodes |-> OfPair(config.similarity, n, d, 0)]]

LEMMA SimbetType ==
    ASSUME Running, NEW met
    PROVE  /\ SimbetSimilarity(met) \in [Nodes -> [Nodes -> Nat]]
           /\ SimbetBetweenness \in [Nodes -> Nat]
<1>1. ASSUME NEW n \in Nodes, NEW d \in Nodes  PROVE CalculatedSimilarity(met, n, d) \in Nat
  BY NodesCount DEF CalculatedSimilarity, Neighbors
<1> QED  BY <1>1 DEF SimbetSimilarity, SimbetBetweenness, Running, ConfigType

LEMMA GlobalType ==
    ASSUME Running
    PROVE  GlobalSimilarity \in [Nodes -> [Nodes -> Nat]] /\ config.betweenness \in [Nodes -> Nat]
<1>1. config.similarity \in [Pairs -> Nat] /\ config.betweenness \in [Nodes -> Nat]
  BY DEF Running, ConfigType
<1>2. ASSUME NEW n \in Nodes, NEW d \in Nodes  PROVE OfPair(config.similarity, n, d, 0) \in Nat
  <2> HIDE DEF Pairs
  <2> QED  BY <1>1 DEF OfPair
<1> QED  BY <1>1, <1>2 DEF GlobalSimilarity

-----------------------------------------------------------------------------
(* Steps.                                                                   *)

LEMMA SameWorld ==
    ASSUME UNCHANGED <<config, pkgs>>
    PROVE  \A w, now : Good(w, now) <=> Good(w, now)'
<1>1. StartOf' = StartOf
  BY DEF StartOf
<1>2. \A list, used, n : NodeOK(list, used, n) <=> NodeOK(list, used, n)'
  BY <1>1 DEF NodeOK
<1>3. \A w : NoRoute(w) <=> NoRoute(w)'
  BY DEF NoRoute
<1>4. \A w : Counted(w) <=> Counted(w)'
  BY DEF Counted, DeliveredIn
<1>5. Net' = Net
  BY DEF Net, Copy
<1> QED  BY <1>2, <1>3, <1>4, <1>5 DEF Good
-----------------------------------------------------------------------------
(* The inductive invariant.                                                 *)

(* What an event of the queue can be: the arrival at its source of a package *)
(* that has left no trace yet, or a contact of the trace.                    *)
Arrival(e) ==
    \E p \in Pkgs, v \in Estimates \cup {NONE} :
        e = RecvEvent(pkgs[p].startAt, p, v) /\ Absent(net, p)

ContactEvent(e) == \E c \in contacts, first \in BOOLEAN : e = CntEvent(c, first)

EventsInv ==
    \A e \in EventsIn(AllocatedSlots) :
        /\ phase \in {"contacts", "run", "done"}
        /\ Arrival(e) \/ (phase # "contacts" /\ ContactEvent(e))
        /\ \A f \in EventsIn(AllocatedSlots) :
             ~ IsContact(e) /\ ~ IsContact(f) /\ e.pkg = f.pkg => e = f

DtnTypes ==
    /\ phase \in {"oracle", "traffic", "packages", "contacts", "run", "done"}
    /\ config \in Configs /\ contacts \in ContactTables
    /\ pkgs \in IF phase \in {"oracle", "traffic"} THEN {<< >>} ELSE Traffics
    /\ estimation \in [Pairs -> Estimates \cup {NONE}]
    /\ metNodes \in [Nodes -> [Nodes -> Nat]]
    /\ clock \in Nat \ {0}

DtnInv ==
    /\ DtnTypes
    /\ QueueInv
    /\ \A e \in Pending : e.timestamp >= clock
    /\ phase \notin {"run", "done"} => net = NetInit /\ clock = exprStartAt
    /\ Good(net, clock)
    /\ SingleCopyRule => OneCopy(net)
    /\ EventsInv

(* What DtnAssumption says of the values main starts from.                  *)
LEMMA TypeOfConfig == \A c \in Configs : c \in ConfigType
BY DtnAssumption

LEMMA EstimatesType == Estimates \subseteq Nat
BY DtnAssumption

LEMMA TypeOfTraffic ==
    \A t \in Traffics : t \in [Pkgs -> [src : Nodes, dst : Nodes, startAt : Nat]]
BY DtnAssumption

(* The network before anything happens, now and after a step of main.       *)
LEMMA NothingDelivered ==
    Cardinality({p \in Pkgs : NetInit.endAt[p] # 0}) = 0
<1>1. {p \in Pkgs : NetInit.endAt[p] # 0} = {}
  BY DEF NetInit
<1> QED  BY <1>1, FS_EmptySet

LEMMA NetInitType ==
    /\ NetInit \in Net /\ NetInit.sentPkgs = 0
    /\ \A n \in Nodes : NetInit.stored[n] = << >> /\ NetInit.usage[n] = 0
    /\ \A p \in Pkgs : NetInit.endAt[p] = 0 /\ NetInit.hops[p] = 0
BY DEF NetInit, Net

LEMMA NodeInit ==
    ASSUME NEW n
    PROVE  /\ config \in ConfigType => NodeOK(<< >>, 0, n)
           /\ config' \in ConfigType => NodeOK(<< >>, 0, n)'
<1>1. Len(<< >>) = 0 /\ pkgSize * 0 = 0 /\ 1 .. 0 = {}
  BY SizeType
<1>2. Sorted(<< >>, StartOf) /\ Distinct(<< >>, IdOf) /\ Sorted(<< >>, StartOf')
  BY <1>1 DEF Sorted, Distinct
<1>3. ASSUME NEW c \in ConfigType  PROVE c.bufSize # NONE => 0 =< c.bufSize
  BY DEF ConfigType
<1> QED  BY <1>1, <1>2, <1>3 DEF NodeOK, Sorted

LEMMA GoodInit ==
    ASSUME NEW now \in Nat
    PROVE  /\ config \in ConfigType => Good(NetInit, now)
           /\ config' \in ConfigType => Good(NetInit, now)'
<1>1. NoRoute(NetInit) /\ NoRoute(NetInit)'
  <2>1. DOMAIN << >> = {}
    OBVIOUS
  <2> QED  BY <2>1, NetInitType DEF NoRoute
<1>2. Counted(NetInit) /\ Counted(NetInit)'
  BY NothingDelivered, NetInitType DEF Counted, DeliveredIn
<1> QED  BY <1>1, <1>2, NodeInit, NetInitType DEF Good

LEMMA NothingStored ==
    /\ \A n \in Nodes : Ids(NetInit, n) = {}
    /\ OneCopy(NetInit) /\ \A p \in Pkgs : Absent(NetInit, p)
<1>1. DOMAIN << >> = {}
  OBVIOUS
<1>2. \A n \in Nodes : Ids(NetInit, n) = {}
  BY <1>1, NetInitType DEF Ids
<1> QED  BY <1>2, NetInitType DEF OneCopy, Absent

LEMMA InitInv == Init => DtnInv /\ Order!Init
<1> SUFFICES ASSUME Init  PROVE DtnInv /\ Order!Init
  OBVIOUS
<1>1. DtnTypes /\ QueueInv
  BY QueueInitInv, SlotAssumption DEF Init, DtnTypes, QueueInit, NONE
<1>2. Pending = {} /\ EventsIn(AllocatedSlots) = {} /\ clock = exprStartAt
  BY QueueEmpty DEF Init, QueueInit
<1>3. Good(net, clock) /\ OneCopy(net)
  BY <1>2, GoodInit, NothingStored, TypeOfConfig, SlotAssumption DEF Init
<1> QED  BY <1>1, <1>2, <1>3 DEF Init, DtnInv, EventsInv, Order!Init

(* The two kinds of events.                                                 *)
LEMMA KindOfEvent ==
    /\ \A t, p, v : /\ ~ IsContact(RecvEvent(t, p, v))
                    /\ RecvEvent(t, p, v).pkg = p /\ RecvEvent(t, p, v).value = v
                    /\ RecvEvent(t, p, v).timestamp = t
    /\ \A c, first : /\ IsContact(CntEvent(c, first))
                     /\ CntEvent(c, first).pair = c.pair
                     /\ CntEvent(c, first).timestamp = c.startAt
BY DEF IsContact, RecvEvent, CntEvent

(* No new event, and the packages still to come have left no trace.         *)
LEMMA EventsKept ==
    ASSUME EventsInv, UNCHANGED <<pkgs, contacts>>,
           phase' = phase \/ {phase, phase'} \subseteq {"run", "done"},
           EventsIn(AllocatedSlots)' \subseteq EventsIn(AllocatedSlots),
           \A e \in EventsIn(AllocatedSlots)' :
               ~ IsContact(e) /\ Absent(net, e.pkg) => Absent(net', e.pkg)
    PROVE  EventsInv'
<1> SUFFICES ASSUME NEW e \in EventsIn(AllocatedSlots)'
             PROVE  /\ phase' \in {"contacts", "run", "done"}
                    /\ Arrival(e)' \/ (phase' # "contacts" /\ ContactEvent(e)')
                    /\ \A f \in EventsIn(AllocatedSlots)' :
                         ~ IsContact(e) /\ ~ IsContact(f) /\ e.pkg = f.pkg => e = f
  BY DEF EventsInv, IsContact
<1>1. /\ phase \in {"contacts", "run", "done"}
      /\ Arrival(e) \/ (phase # "contacts" /\ ContactEvent(e))
      /\ \A f \in EventsIn(AllocatedSlots) :
           ~ IsContact(e) /\ ~ IsContact(f) /\ e.pkg = f.pkg => e = f
  BY DEF EventsInv
<1>2. phase' \in {"contacts", "run", "done"} /\ (phase # "contacts" => phase' # "contacts")
  BY <1>1
<1>3. ASSUME Arrival(e)  PROVE Arrival(e)'
  <2>1. PICK p \in Pkgs, v \in Estimates \cup {NONE} :
          e = RecvEvent(pkgs[p].startAt, p, v) /\ Absent(net, p)
    BY <1>3 DEF Arrival
  <2>2. Absent(net', p)
    BY <2>1, KindOfEvent
  <2>3. e = RecvEvent(pkgs'[p].startAt, p, v)
    BY <2>1
  <2> QED  BY <2>2, <2>3 DEF Arrival, NONE, RecvEvent, Absent, Ids
<1>4. ContactEvent(e) => ContactEvent(e)'
  BY DEF ContactEvent, CntEvent
<1> QED  BY <1>1, <1>2, <1>3, <1>4

LEMMA StutterInv ==
    ASSUME DtnInv, UNCHANGED dtnVars
    PROVE  DtnInv' /\ UNCHANGED Order!vars
<1>1. /\ UNCHANGED <<phase, config, contacts, pkgs, estimation, metNodes, net, clock>>
      /\ UNCHANGED eventSlots
  BY DEF dtnVars
<1>2. QueueInv' /\ Pending' = Pending /\ EventsIn(AllocatedSlots)' = EventsIn(AllocatedSlots)
  BY <1>1, QueueSame DEF DtnInv
<1>3. EventsInv'
  BY <1>1, <1>2, EventsKept DEF DtnInv
<1>4. DtnTypes'
  BY <1>1 DEF DtnInv, DtnTypes, Pairs, NONE
<1>5. Good(net, clock)'
  BY <1>1, SameWorld DEF DtnInv
<1>6. (SingleCopyRule => OneCopy(net))'
  BY <1>1 DEF DtnInv, SingleCopyRule, OneCopy, Ids
<1>7. (phase \notin {"run", "done"} => net = NetInit /\ clock = exprStartAt)'
  BY <1>1 DEF DtnInv, NetInit
<1> QED  BY <1>1, <1>2, <1>3, <1>4, <1>5, <1>6, <1>7 DEF DtnInv, Order!vars

(* main before the queue has any event.                                     *)
LEMMA BeforeEvents ==
    ASSUME DtnInv, DtnTypes', UNCHANGED <<net, eventSlots, clock>>,
           phase \in {"oracle", "traffic"}, phase' \in {"traffic", "packages"}
    PROVE  DtnInv' /\ UNCHANGED Order!vars
<1>1. /\ EventsIn(AllocatedSlots) = {} /\ net = NetInit /\ clock = exprStartAt
  BY DEF DtnInv, EventsInv
<1>2. QueueInv' /\ Pending' = Pending /\ EventsIn(AllocatedSlots)' = EventsIn(AllocatedSlots)
  BY QueueSame DEF DtnInv
<1>3. EventsInv'
  BY <1>1, <1>2 DEF EventsInv
<1>4. Good(net, clock)'
  <2>1. config' \in ConfigType /\ clock \in Nat
    BY TypeOfConfig DEF DtnInv, DtnTypes
  <2>2. Good(NetInit, clock)'
    BY <2>1, GoodInit
  <2>3. NetInit' = NetInit
    BY DEF NetInit
  <2> QED  BY <1>1, <2>2, <2>3
<1>5. OneCopy(net)'
  BY <1>1, NothingStored DEF OneCopy, Ids
<1>6. (phase \notin {"run", "done"} => net = NetInit /\ clock = exprStartAt)'
  BY <1>1 DEF NetInit
<1> QED  BY <1>2, <1>3, <1>4, <1>5, <1>6 DEF DtnInv, Order!vars

LEMMA SetupOracleStep ==
    ASSUME DtnInv, SetupOracle
    PROVE  DtnInv' /\ UNCHANGED Order!vars
<1>1. /\ phase = "oracle" /\ phase' = "traffic"
      /\ UNCHANGED <<config, contacts, pkgs, net, eventSlots, clock>>
      /\ estimation' \in [Pairs -> Estimates \cup {NONE}]
  BY DEF SetupOracle
<1>2. metNodes' \in [Nodes -> [Nodes -> Nat]]
  <2> DEFINE times == CASE config.oracle \in {"average", "future", "global_social"} -> 0
                        [] config.oracle = "zoom" -> 2
                        [] OTHER -> 1
  <2>1. times \in Nat
    OBVIOUS
  <2>2. config.trained \in [Pairs -> Nat]
    BY TypeOfConfig DEF DtnInv, DtnTypes, ConfigType
  <2>3. ASSUME NEW n \in Nodes, NEW m \in Nodes  PROVE OfPair(config.trained, n, m, 0) \in Nat
    <3> HIDE DEF Pairs
    <3> QED  BY <2>2 DEF OfPair
  <2>4. metNodes' = [n \in Nodes |-> [m \in Nodes |-> times * OfPair(config.trained, n, m, 0)]]
    BY DEF SetupOracle
  <2> HIDE DEF times
  <2>5. \A x \in Nat : times * x \in Nat
    BY <2>1
  <2> QED  BY <2>3, <2>4, <2>5
<1>3. DtnTypes'
  BY <1>1, <1>2 DEF DtnInv, DtnTypes, Pairs, NONE
<1> QED  BY <1>1, <1>3, BeforeEvents

LEMMA GenerateTrafficStep ==
    ASSUME DtnInv, GenerateTraffic
    PROVE  DtnInv' /\ UNCHANGED Order!vars
<1>1. /\ phase = "traffic" /\ phase' = "packages" /\ pkgs' \in Traffics
      /\ UNCHANGED <<config, contacts, estimation, metNodes, net, eventSlots, clock>>
  BY DEF GenerateTraffic
<1>2. DtnTypes'
  BY <1>1 DEF DtnInv, DtnTypes, Pairs, NONE
<1> QED  BY <1>1, <1>2, BeforeEvents

(* setup_adhoc_fwding_traffic_events.                                       *)
LEMMA InitialValueType ==
    ASSUME DtnTypes, NEW p
    PROVE  InitialValue(p) \in Estimates \cup {NONE}
BY EstimateType DEF InitialValue, DtnTypes

LEMMA ArrivalsInRange ==
    ASSUME NEW t \in Traffics, NEW p \in Pkgs, NEW v \in Estimates \cup {NONE}
    PROVE  /\ RecvEvent(t[p].startAt, p, v) \in Event
           /\ InRange(RecvEvent(t[p].startAt, p, v))
BY DtnAssumption

LEMMA PkgsCount == Cardinality(Pkgs) \in Nat /\ Pkgs = 1 .. Cardinality(Pkgs)
BY DtnAssumption, FS_CardinalityType

(* Every package waits for its source.                                      *)
ArrivalsQueued ==
    \A p \in Pkgs : \E v \in Estimates \cup {NONE} :
        RecvEvent(pkgs[p].startAt, p, v) \in EventsIn(AllocatedSlots)

LEMMA SetupTrafficEventsStep ==
    ASSUME DtnInv, SetupTrafficEvents
    PROVE  DtnInv' /\ Order!Schedule /\ ArrivalsQueued'
<1> DEFINE list == [p \in Pkgs |-> RecvEvent(pkgs[p].startAt, p, InitialValue(p))]
           n == Cardinality(Pkgs)
<1>1. /\ phase = "packages" /\ phase' = "contacts"
      /\ UNCHANGED <<config, contacts, pkgs, estimation, metNodes, net, clock>>
      /\ eventSlots' = AddedAll(eventSlots, list)
  BY DEF SetupTrafficEvents, AddedAll
<1>2. /\ QueueInv /\ EventsIn(AllocatedSlots) = {} /\ clock = exprStartAt /\ net = NetInit
      /\ pkgs \in Traffics
  BY <1>1 DEF DtnInv, EventsInv, DtnTypes
<1>3. \A p \in Pkgs : /\ list[p] = RecvEvent(pkgs[p].startAt, p, InitialValue(p))
                      /\ list[p] \in Event /\ InRange(list[p])
  <2> SUFFICES ASSUME NEW p \in Pkgs
               PROVE  /\ list[p] = RecvEvent(pkgs[p].startAt, p, InitialValue(p))
                      /\ list[p] \in Event /\ InRange(list[p])
    OBVIOUS
  <2>1. list[p] = RecvEvent(pkgs[p].startAt, p, InitialValue(p))
    OBVIOUS
  <2>2. InitialValue(p) \in Estimates \cup {NONE}
    BY InitialValueType DEF DtnInv
  <2>3. RecvEvent(pkgs[p].startAt, p, InitialValue(p)) \in Event
        /\ InRange(RecvEvent(pkgs[p].startAt, p, InitialValue(p)))
    BY <1>2, <2>2, ArrivalsInRange
  <2> QED  BY <2>1, <2>3
<1>4. DOMAIN list = 1 .. n /\ Pkgs = 1 .. n /\ n \in Nat
  BY PkgsCount
<1> HIDE DEF list, n
<1>5. list \in Seq(Event) /\ Len(list) = n
  <2>1. list \in [1 .. n -> Event]
    <3>1. list \in [Pkgs -> Event]
      <4>1. list = [p \in Pkgs |-> list[p]]
        BY DEF list
      <4> QED  BY <1>3, <4>1
    <3> QED  BY <1>4, <3>1
  <2> QED  BY <1>4, <2>1
<1>6. \A i, j \in 1 .. Len(list) : i < j => list[i] # list[j]
  BY <1>3, <1>4, <1>5, KindOfEvent
<1>7. /\ QueueInv' /\ Order!Schedule
      /\ EventsIn(AllocatedSlots)' = EventsIn(AllocatedSlots) \cup Range(list)
      /\ \A e \in Pending' : e.timestamp >= clock'
  <2>1. \A i \in 1 .. Len(list) :
          InRange(list[i]) /\ list[i] \notin EventsIn(AllocatedSlots)
    BY <1>2, <1>3, <1>4, <1>5
  <2> QED  BY <1>1, <1>2, <1>5, <1>6, <2>1, ScheduleStep
<1>8. EventsInv'
  <2>1. EventsIn(AllocatedSlots)' = {list[p] : p \in Pkgs}
    BY <1>2, <1>4, <1>7 DEF Range
  <2>2. ASSUME NEW p \in Pkgs, NEW e, e = list[p]
        PROVE  Arrival(e)' /\ ~ IsContact(e) /\ e.pkg = p
    <3>1. e = RecvEvent(pkgs'[p].startAt, p, InitialValue(p))
      BY <1>1, <1>3, <2>2
    <3>2. Absent(net', p)
      BY <1>1, <1>2, NothingStored
    <3>3. InitialValue(p) \in Estimates \cup {NONE}
      BY InitialValueType DEF DtnInv
    <3>4. Arrival(e)'
      BY <3>1, <3>2, <3>3 DEF Arrival, NONE, RecvEvent, Absent, Ids
    <3>5. ~ IsContact(e) /\ e.pkg = p
      BY <1>3, <2>2, KindOfEvent
    <3> QED  BY <3>4, <3>5
  <2>3. SUFFICES ASSUME NEW e \in {list[p] : p \in Pkgs}, NEW f \in {list[p] : p \in Pkgs}
                 PROVE  Arrival(e)' /\ (e.pkg = f.pkg => e = f)
    BY <1>1, <2>1, <2>3 DEF EventsInv
  <2>4. PICK p \in Pkgs, o \in Pkgs : e = list[p] /\ f = list[o]
    OBVIOUS
  <2> QED  BY <2>2, <2>4
<1>9. DtnTypes'
  BY <1>1 DEF DtnInv, DtnTypes, Pairs, NONE
<1>10. Good(net, clock)'
  BY <1>1, SameWorld DEF DtnInv
<1>11. (SingleCopyRule => OneCopy(net))'
  BY <1>1, <1>2, NothingStored DEF OneCopy, Ids
<1>12. (phase \notin {"run", "done"} => net = NetInit /\ clock = exprStartAt)'
  BY <1>1, <1>2 DEF NetInit
<1>13. ArrivalsQueued'
  <2> SUFFICES ASSUME NEW p \in Pkgs
               PROVE  \E v \in Estimates \cup {NONE} :
                        RecvEvent(pkgs[p].startAt, p, v) \in EventsIn(AllocatedSlots)'
    BY <1>1 DEF ArrivalsQueued, RecvEvent, NONE
  <2>1. list[p] \in Range(list)
    BY <1>4 DEF Range
  <2>2. InitialValue(p) \in Estimates \cup {NONE}
    BY InitialValueType DEF DtnInv
  <2> QED  BY <1>3, <1>7, <2>1, <2>2
<1> QED  BY <1>7, <1>8, <1>9, <1>10, <1>11, <1>12, <1>13 DEF DtnInv

(* setup_cnt_events.                                                        *)
LEMMA ContactsInRange ==
    ASSUME contacts \in ContactTables, NEW c \in contacts, NEW first \in BOOLEAN
    PROVE  /\ c \in Contacts /\ c.pair \in Pairs /\ c.startAt \in Nat
           /\ CntEvent(c, first) \in Event
           /\ c.startAt < exprEndAt => InRange(CntEvent(c, first))
<1>1. c \in Contacts /\ c.startAt >= exprStartAt /\ CntEvent(c, first) \in Event
  BY DtnAssumption
<1>2. c.pair \in Pairs /\ c.startAt \in Nat
  BY <1>1 DEF Contacts
<1>3. ASSUME c.startAt < exprEndAt  PROVE whichslot(c.startAt) =< SlotCount
  <2>1. exprEndAt \in Nat /\ exprEndAt >= exprStartAt /\ exprStartAt \in Nat /\ slotSize \in Nat \ {0}
    BY SlotAssumption
  <2>2. whichslot(exprEndAt) = SlotCount
    BY DEF whichslot, SlotCount
  <2>3. ~ (whichslot(exprEndAt) < whichslot(c.startAt))
    BY <1>1, <1>2, <1>3, <2>1, SlotsInOrder
  <2>4. SlotCount \in Int /\ whichslot(c.startAt) \in Int
    <3>1. exprEndAt - exprStartAt \in Int /\ c.startAt - exprStartAt \in Int
      BY <1>2, <2>1
    <3> QED  BY <2>1, <3>1 DEF SlotCount, whichslot
  <2> QED  BY <2>2, <2>3, <2>4
<1> QED  BY <1>1, <1>2, <1>3, KindOfEvent DEF InRange

LEMMA OrderIsOnto ==
    ASSUME NEW S, IsFiniteSet(S), NEW order \in SetToSeqs(S)
    PROVE  \A c \in S : \E i \in 1 .. Cardinality(S) : order[i] = c
<1> DEFINE n == Cardinality(S)
<1>1. n \in Nat
  BY FS_CardinalityType
<1>2. order \in [1 .. n -> S] /\ \A i, j \in 1 .. n : i # j => order[i] # order[j]
  BY DEF SetToSeqs
<1> HIDE DEF n
<1>3. IsFiniteSet(1 .. n) /\ Cardinality(1 .. n) = n
  BY <1>1, FS_Interval
<1>4. order \in Injection(1 .. n, S)
  BY <1>2 DEF Injection, IsInjective
<1>5. order \in Surjection(1 .. n, S)
  BY <1>3, <1>4, FS_Injection DEF n
<1> QED  BY <1>5 DEF Surjection, n

(* Every contact to come is in the queue once the loop has begun.            *)
ContactsQueued ==
    phase = "run" => \A c \in contacts : c.startAt < exprEndAt /\ c.startAt > clock =>
        \E first \in BOOLEAN : CntEvent(c, first) \in EventsIn(AllocatedSlots)

AllContactsQueued ==
    \A c \in contacts : c.startAt < exprEndAt =>
        \E first \in BOOLEAN : CntEvent(c, first) \in EventsIn(AllocatedSlots)

(* First of SetupCntEvents: each contact has one event, behind the arrivals  *)
(* of its time.                                                             *)
FirstMeeting(c) ==
    /\ c.pair \notin config.metBefore
    /\ \A d \in contacts : d.pair = c.pair => c.startAt =< d.startAt

ContactKind == {e \in Event : IsContact(e)}

LoopQueue ==
    /\ \A e \in EventsIn(AllocatedSlots) : IsContact(e) =>
         \E c \in contacts : e = CntEvent(c, FirstMeeting(c))
    /\ QueueTies(eventSlots, ContactKind)

LEMMA SetupCntEventsStep ==
    ASSUME DtnInv, SetupCntEvents
    PROVE  DtnInv' /\ Order!Schedule /\ ContactsQueued' /\ AllContactsQueued' /\ LoopQueue'
<1> DEFINE First(c) == c.pair \notin config.metBefore
                       /\ \A d \in contacts : d.pair = c.pair => c.startAt =< d.startAt
           S == {c \in contacts : c.startAt < exprEndAt}
           n == Cardinality(S)
<1>1. /\ phase = "contacts" /\ phase' = "run"
      /\ UNCHANGED <<config, contacts, pkgs, estimation, metNodes, net, clock>>
  BY DEF SetupCntEvents
<1>2. PICK order \in SetToSeqs(S) :
        eventSlots' = FoldLeft(WithEvent, eventSlots,
                               [i \in DOMAIN order |-> CntEvent(order[i], First(order[i]))])
  BY DEF SetupCntEvents
<1> DEFINE list == [i \in DOMAIN order |-> CntEvent(order[i], First(order[i]))]
<1>3. eventSlots' = AddedAll(eventSlots, list)
  BY <1>2 DEF AddedAll
<1>4. /\ QueueInv /\ clock = exprStartAt /\ net = NetInit /\ contacts \in ContactTables
      /\ \A e \in EventsIn(AllocatedSlots) : Arrival(e)
  BY <1>1 DEF DtnInv, EventsInv, DtnTypes
<1>5. n \in Nat
  BY <1>4, DtnAssumption, FS_Subset, FS_CardinalityType
<1>6. /\ order \in [1 .. n -> S] /\ DOMAIN order = 1 .. n
      /\ \A i, j \in 1 .. n : i # j => order[i] # order[j]
  BY DEF SetToSeqs
<1>7. ASSUME NEW i \in 1 .. n
      PROVE  \E first \in BOOLEAN : list[i] = CntEvent(order[i], first)
  <2>1. list[i] = CntEvent(order[i], First(order[i]))
    BY <1>6
  <2>2. First(order[i]) \in BOOLEAN
    OBVIOUS
  <2> HIDE DEF First, list
  <2> QED  BY <2>1, <2>2
<1>8. DOMAIN list = 1 .. n
  BY <1>6
<1>21. ASSUME NEW i \in 1 .. n
       PROVE  list[i] = CntEvent(order[i], FirstMeeting(order[i]))
  BY <1>6 DEF FirstMeeting
<1> HIDE DEF list, First, n
<1>9. \A i \in 1 .. n : /\ list[i] \in Event /\ InRange(list[i]) /\ IsContact(list[i])
                        /\ list[i].pair = order[i].pair /\ list[i].timestamp = order[i].startAt
                        /\ order[i] \in contacts /\ order[i] \in Contacts
  <2> SUFFICES ASSUME NEW i \in 1 .. n
               PROVE  /\ list[i] \in Event /\ InRange(list[i]) /\ IsContact(list[i])
                      /\ list[i].pair = order[i].pair /\ list[i].timestamp = order[i].startAt
                      /\ order[i] \in contacts /\ order[i] \in Contacts
    OBVIOUS
  <2>1. PICK first \in BOOLEAN : list[i] = CntEvent(order[i], first)
    BY <1>7
  <2>2. order[i] \in contacts /\ order[i].startAt < exprEndAt
    BY <1>6
  <2> QED  BY <1>4, <2>1, <2>2, ContactsInRange, KindOfEvent
<1>10. list \in Seq(Event) /\ Len(list) = n
  <2>1. list \in [1 .. n -> Event]
    <3>1. list = [i \in 1 .. n |-> list[i]]
      BY <1>6 DEF list
    <3> QED  BY <1>9, <3>1
  <2> QED  BY <1>5, <2>1
<1>11. \A i, j \in 1 .. Len(list) : i < j => list[i] # list[j]
  <2> SUFFICES ASSUME NEW i \in 1 .. n, NEW j \in 1 .. n, i < j, list[i] = list[j]  PROVE FALSE
    BY <1>10
  <2>1. order[i].pair = order[j].pair /\ order[i].startAt = order[j].startAt
    BY <1>9
  <2>2. order[i] = order[j]
    BY <1>9, <2>1 DEF Contacts
  <2>3. i # j
    BY <1>5
  <2> QED  BY <1>6, <2>2, <2>3
<1>12. \A e \in EventsIn(AllocatedSlots) : ~ IsContact(e)
  BY <1>4, KindOfEvent DEF Arrival
<1>13. /\ QueueInv' /\ Order!Schedule
       /\ EventsIn(AllocatedSlots)' = EventsIn(AllocatedSlots) \cup Range(list)
       /\ \A e \in Pending' : e.timestamp >= clock'
  <2>1. \A i \in 1 .. Len(list) :
          InRange(list[i]) /\ list[i] \notin EventsIn(AllocatedSlots)
    BY <1>9, <1>10, <1>12
  <2> QED  BY <1>1, <1>3, <1>4, <1>10, <1>11, <2>1, ScheduleStep
<1>14. ASSUME NEW e, e \in Range(list)
       PROVE  IsContact(e) /\ ContactEvent(e)'
  <2>1. PICK i \in 1 .. n : e = list[i]
    BY <1>8, <1>14 DEF Range
  <2>2. PICK first \in BOOLEAN : e = CntEvent(order[i], first)
    BY <1>7, <2>1
  <2>3. order[i] \in contacts'
    BY <1>1, <1>9
  <2> QED  BY <2>2, <2>3, KindOfEvent DEF ContactEvent, CntEvent
<1>15. ASSUME NEW e, Arrival(e)  PROVE Arrival(e)'
  BY <1>1, <1>15 DEF Arrival, NONE, RecvEvent, Absent, Ids
<1>16. EventsInv'
  <2> SUFFICES ASSUME NEW e \in EventsIn(AllocatedSlots) \cup Range(list),
                      NEW f \in EventsIn(AllocatedSlots) \cup Range(list)
               PROVE  /\ Arrival(e)' \/ ContactEvent(e)'
                      /\ ~ IsContact(e) /\ ~ IsContact(f) /\ e.pkg = f.pkg => e = f
    BY <1>1, <1>13 DEF EventsInv, IsContact
  <2>1. Arrival(e)' \/ ContactEvent(e)'
    BY <1>4, <1>14, <1>15
  <2>2. ASSUME ~ IsContact(e), ~ IsContact(f), e.pkg = f.pkg  PROVE e = f
    <3>1. e \in EventsIn(AllocatedSlots) /\ f \in EventsIn(AllocatedSlots)
      BY <1>14, <2>2
    <3> QED  BY <2>2, <3>1 DEF DtnInv, EventsInv
  <2> QED  BY <2>1, <2>2
<1>17. DtnTypes'
  BY <1>1 DEF DtnInv, DtnTypes, Pairs, NONE
<1>18. Good(net, clock)'
  BY <1>1, SameWorld DEF DtnInv
<1>19. (SingleCopyRule => OneCopy(net))'
  BY <1>1, <1>4, NothingStored DEF OneCopy, Ids
<1>20. AllContactsQueued'
  <2> SUFFICES ASSUME NEW c \in contacts, c.startAt < exprEndAt
               PROVE  \E first \in BOOLEAN :
                        CntEvent(c, first) \in EventsIn(AllocatedSlots)'
    BY <1>1 DEF AllContactsQueued, CntEvent
  <2>1. IsFiniteSet(S) /\ c \in S
    BY <1>4, DtnAssumption, FS_Subset
  <2>2. PICK i \in 1 .. n : order[i] = c
    BY <1>2, <2>1, OrderIsOnto DEF n
  <2>3. list[i] \in Range(list)
    BY <1>8, <2>2 DEF Range
  <2> QED  BY <1>7, <1>13, <2>2, <2>3
<1>22. ContactsQueued'
  BY <1>20 DEF ContactsQueued, AllContactsQueued
<1>23. ASSUME NEW e \in EventsIn(AllocatedSlots)', IsContact(e)
       PROVE  \E c \in contacts : e = CntEvent(c, FirstMeeting(c))
  <2>1. e \in Range(list)
    BY <1>12, <1>13, <1>23
  <2>2. PICK i \in 1 .. n : e = list[i]
    BY <1>8, <2>1 DEF Range
  <2> QED  BY <1>9, <1>21, <2>2
<1>24. QueueTies(eventSlots', ContactKind)
  <2>1. \A i \in 1 .. Len(list) :
          /\ InRange(list[i]) /\ list[i] \notin EventsOf(eventSlots, AllocatedSlots)
          /\ list[i] \in ContactKind
    BY <1>9, <1>10, <1>12 DEF EventsIn, EventsOf, ContactKind
  <2>2. QueueTies(eventSlots, ContactKind)
    <3> SUFFICES ASSUME NEW i \in AllocatedSlots, NEW j \in 1 .. Len(eventSlots[i])
                 PROVE  eventSlots[i][j] \notin ContactKind
      BY DEF QueueTies, TiesBehind
    <3>1. eventSlots[i][j] \in Range(eventSlots[i])
      BY <1>4, RangeIndex DEF QueueInv, SlotsOK
    <3> QED  BY <1>12, <3>1 DEF EventsIn, ContactKind
  <2> QED  BY <1>3, <1>4, <1>10, <1>11, <2>1, <2>2, EventsAddedTies DEF QueueInv
<1>25. LoopQueue'
  <2>1. ContactKind' = ContactKind /\ AllocatedSlots' = AllocatedSlots
    BY DEF ContactKind, IsContact, AllocatedSlots, SlotCount
  <2>2. \A i \in AllocatedSlots' : TiesBehind(eventSlots'[i], ContactKind')
    BY <1>24, <2>1 DEF QueueTies
  <2>3. ASSUME NEW e \in EventsIn(AllocatedSlots)', "pair" \in DOMAIN e
        PROVE  \E c \in contacts' :
                 e = [timestamp |-> c.startAt, pair |-> c.pair,
                      first |-> /\ c.pair \notin config'.metBefore
                                /\ \A d \in contacts' : d.pair = c.pair => c.startAt =< d.startAt]
    <3>1. PICK c \in contacts : e = CntEvent(c, FirstMeeting(c))
      BY <1>23, <2>3 DEF IsContact
    <3>2. e = [timestamp |-> c.startAt, pair |-> c.pair,
               first |-> /\ c.pair \notin config.metBefore
                         /\ \A d \in contacts : d.pair = c.pair => c.startAt =< d.startAt]
      BY <3>1 DEF CntEvent, FirstMeeting
    <3> QED  BY <1>1, <3>2
  <2> QED  BY <2>2, <2>3 DEF LoopQueue, CntEvent, FirstMeeting, IsContact, QueueTies, TiesBehind
<1> QED  BY <1>1, <1>13, <1>16, <1>17, <1>18, <1>19, <1>20, <1>22, <1>25 DEF DtnInv

(* The main loop takes the next event: what every handler finds.            *)
LEMMA GoodLater ==
    ASSUME NEW w, NEW now \in Nat, NEW later \in Nat, now =< later, Good(w, now)
    PROVE  Good(w, later)
<1>1. \A p \in Pkgs : w.endAt[p] =< later
  BY GoodFields DEF Good
<1> QED  BY <1>1 DEF Good

LEMMA RunningNow ==
    ASSUME DtnInv, phase \notin {"oracle", "traffic"}
    PROVE  Running /\ config \in ConfigType
BY TypeOfConfig, TypeOfTraffic DEF DtnInv, DtnTypes, Running, PkgsOK

LEMMA EventPicked ==
    ASSUME DtnInv, PickEvent, phase = "run"
    PROVE  /\ Running
           /\ QueueInv' /\ Order!Consume
           /\ clock' = NextEvent.timestamp /\ clock' \in Nat \ {0} /\ clock =< clock'
           /\ \A e \in Pending' : e.timestamp >= clock'
           /\ EventsIn(AllocatedSlots)' = EventsIn(AllocatedSlots) \ {NextEvent}
           /\ NextEvent \in EventsIn(AllocatedSlots) /\ NextEvent \in Pending
           /\ Arrival(NextEvent) \/ ContactEvent(NextEvent)
           /\ Good(net, clock')
<1>1. /\ QueueInv' /\ Order!Consume
      /\ NextEvent \in Pending /\ NextEvent \in Event
      /\ \A g \in Pending : NextEvent.timestamp =< g.timestamp
      /\ Pending' = Pending \ {NextEvent}
      /\ EventsIn(AllocatedSlots)' = EventsIn(AllocatedSlots) \ {NextEvent}
  BY PickStep DEF DtnInv
<1>2. clock' = NextEvent.timestamp /\ clock' >= clock /\ clock \in Nat \ {0}
  BY <1>1 DEF PickEvent, DtnInv, DtnTypes
<1>3. /\ NextEvent.timestamp \in Nat
      /\ \A g \in Pending : g.timestamp \in Nat
  BY <1>1, PendingAllocated, SlotAssumption DEF DtnInv
<1>4. clock' \in Nat \ {0} /\ clock =< clock' /\ \A e \in Pending' : e.timestamp >= clock'
  BY <1>1, <1>2, <1>3
<1>5. NextEvent \in EventsIn(AllocatedSlots)
  BY <1>1, PendingAllocated DEF DtnInv
<1>6. Good(net, clock')
  BY <1>2, <1>4, GoodLater DEF DtnInv
<1>7. Arrival(NextEvent) \/ ContactEvent(NextEvent)
  BY <1>5 DEF DtnInv, EventsInv
<1> QED  BY <1>1, <1>2, <1>4, <1>5, <1>6, <1>7, RunningNow

(* What a handler must ensure for the invariant to hold after it.           *)
LEMMA HandlerKeepsInv ==
    ASSUME DtnInv, PickEvent, phase = "run", UNCHANGED <<phase, config, contacts, pkgs>>,
           estimation' \in [Pairs -> Estimates \cup {NONE}],
           metNodes' \in [Nodes -> [Nodes -> Nat]],
           Good(net', clock'), SingleCopyRule => OneCopy(net'),
           \A e \in EventsIn(AllocatedSlots)' :
               ~ IsContact(e) /\ Absent(net, e.pkg) => Absent(net', e.pkg)
    PROVE  DtnInv'
<1>1. /\ QueueInv' /\ clock' \in Nat \ {0}
      /\ \A e \in Pending' : e.timestamp >= clock'
      /\ EventsIn(AllocatedSlots)' \subseteq EventsIn(AllocatedSlots)
  BY EventPicked
<1>2. EventsInv'
  BY <1>1, EventsKept DEF DtnInv
<1>3. DtnTypes'
  BY <1>1 DEF DtnInv, DtnTypes, Pairs, NONE
<1>4. Good(net, clock)'
  BY SameWorld
<1>5. (SingleCopyRule => OneCopy(net))'
  BY DEF SingleCopyRule, OneCopy, Ids
<1> QED  BY <1>1, <1>2, <1>3, <1>4, <1>5 DEF DtnInv

(* A package arrives at its source.                                         *)
(* The event of a package: its source has it, or it is refused.              *)
Received(p) ==
    /\ NextEvent.pkg = p /\ NextEvent.timestamp = pkgs[p].startAt
    /\ Absent(net, p) /\ Good(net', clock')
    /\ \A m \in Nodes : Ids(net, m) \subseteq Ids(net', m) /\ Ids(net', m) \subseteq Ids(net, m) \cup {p}
    /\ \A m \in Nodes : p \in Ids(net', m) => m = pkgs[p].src /\ pkgs[p].dst # m
    /\ \A o \in Pkgs : net'.endAt[o] = IF o = p /\ pkgs[o].dst = pkgs[p].src
                                        THEN clock' ELSE net.endAt[o]
    /\ config.bufSize = NONE /\ pkgs[p].dst # pkgs[p].src => p \in Ids(net', pkgs[p].src)

LEMMA RecvPkgReceived ==
    ASSUME DtnInv, RecvPkg
    PROVE  \E p \in Pkgs : Received(p)
<1>1. /\ phase = "run" /\ PickEvent /\ ~ IsContact(NextEvent)
      /\ UNCHANGED <<phase, config, contacts, pkgs, estimation, metNodes>>
  BY DEF RecvPkg
<1>2. /\ Running /\ Order!Consume /\ clock' \in Nat \ {0} /\ Good(net, clock')
      /\ Arrival(NextEvent) \/ ContactEvent(NextEvent)
      /\ NextEvent \in EventsIn(AllocatedSlots)
      /\ EventsIn(AllocatedSlots)' = EventsIn(AllocatedSlots) \ {NextEvent}
  BY <1>1, EventPicked
<1>3. Arrival(NextEvent)
  BY <1>1, <1>2, KindOfEvent DEF ContactEvent
<1>4. PICK p \in Pkgs, v \in Estimates \cup {NONE} :
        NextEvent = RecvEvent(pkgs[p].startAt, p, v) /\ Absent(net, p)
  BY <1>3 DEF Arrival
<1>5. NextEvent.pkg = p /\ NextEvent.value = v /\ NextEvent.timestamp = pkgs[p].startAt
  BY <1>4, KindOfEvent
<1> DEFINE c == [id |-> p, value |-> v, hops |-> 0]
<1>6. net' = node_recv(net, pkgs[p].src, c, clock')
  BY <1>5 DEF RecvPkg
<1>7. Fit(c) /\ c.id = p /\ pkgs[p].src \in Nodes
  <2>1. v \in Int
    BY EstimatesType DEF NONE
  <2> QED  BY <1>2, <2>1 DEF Fit, Copy, Running, PkgsOK
<1> DEFINE n == pkgs[p].src
<1> HIDE DEF c, n
<1>8. /\ Good(net', clock')
      /\ Ids(net', n) = IF pkgs[c.id].dst # n /\ HasRoom(net, n)
                        THEN Ids(net, n) \cup {c.id} ELSE Ids(net, n)
      /\ \A m \in Nodes \ {n} : Ids(net', m) = Ids(net, m)
      /\ \A o \in Pkgs : net'.endAt[o] = IF o = c.id /\ pkgs[o].dst = n /\ net.endAt[o] = 0
                                         THEN clock' ELSE net.endAt[o]
  <2>1. PICK w, u, now, m, d : /\ w = net /\ u = net' /\ now = clock' /\ m = n /\ d = c
                               /\ Good(w, now) /\ Fit(d) /\ m \in Nodes /\ now \in Nat \ {0}
                               /\ u = node_recv(w, m, d, now)
    BY <1>2, <1>6, <1>7 DEF n
  <2>2. /\ Good(u, now)
        /\ Ids(u, m) = IF pkgs[d.id].dst # m /\ HasRoom(w, m)
                       THEN Ids(w, m) \cup {d.id} ELSE Ids(w, m)
        /\ \A k \in Nodes \ {m} : Ids(u, k) = Ids(w, k)
        /\ \A o \in Pkgs : u.endAt[o] = IF o = d.id /\ pkgs[o].dst = m /\ w.endAt[o] = 0
                                        THEN now ELSE w.endAt[o]
    BY <1>2, <2>1, RecvEffect, SMTT(30)
  <2> QED  BY <2>1, <2>2
<1>9. /\ net.endAt[p] = 0 /\ \A m \in Nodes : p \notin Ids(net, m)
  BY <1>4 DEF Absent
<1>10. \A m \in Nodes : /\ Ids(net, m) \subseteq Ids(net', m)
                        /\ Ids(net', m) \subseteq Ids(net, m) \cup {p}
                        /\ p \in Ids(net', m) => m = n /\ pkgs[p].dst # n
  BY <1>7, <1>8, <1>9
<1>11. \A o \in Pkgs : net'.endAt[o] = IF o = p /\ pkgs[o].dst = n THEN clock' ELSE net.endAt[o]
  BY <1>7, <1>8, <1>9
<1>12. config.bufSize = NONE /\ pkgs[p].dst # n => p \in Ids(net', n)
  BY <1>7, <1>8 DEF HasRoom
<1> QED  BY <1>4, <1>5, <1>8, <1>10, <1>11, <1>12 DEF Received, n

LEMMA RecvPkgStep ==
    ASSUME DtnInv, RecvPkg
    PROVE  /\ DtnInv' /\ Order!Consume
           /\ \A n \in Nodes : Ids(net, n) \subseteq Ids(net', n)
           /\ \E p \in Pkgs : /\ Absent(net, p)
                              /\ \A o \in Pkgs \ {p} :
                                   /\ net'.endAt[o] = net.endAt[o]
                                   /\ \A n \in Nodes : o \in Ids(net', n) => o \in Ids(net, n)
<1>1. /\ phase = "run" /\ PickEvent /\ ~ IsContact(NextEvent)
      /\ UNCHANGED <<phase, config, contacts, pkgs, estimation, metNodes>>
  BY DEF RecvPkg
<1>2. /\ Running /\ Order!Consume /\ clock' \in Nat \ {0} /\ Good(net, clock')
      /\ NextEvent \in EventsIn(AllocatedSlots)
      /\ EventsIn(AllocatedSlots)' = EventsIn(AllocatedSlots) \ {NextEvent}
  BY <1>1, EventPicked
<1>3. PICK p \in Pkgs : Received(p)
  BY RecvPkgReceived
<1> DEFINE n == pkgs[p].src
<1> HIDE DEF n
<1>4. Absent(net, p) /\ NextEvent.pkg = p
  BY <1>3 DEF Received
<1>8. /\ Good(net', clock')
      /\ \A o \in Pkgs : net'.endAt[o] = IF o = p /\ pkgs[o].dst = n
                                         THEN clock' ELSE net.endAt[o]
  BY <1>3 DEF Received, n
<1>9. \A m \in Nodes : /\ Ids(net, m) \subseteq Ids(net', m)
                       /\ Ids(net', m) \subseteq Ids(net, m) \cup {p}
                       /\ p \in Ids(net', m) => m = n /\ pkgs[p].dst # n
  BY <1>3 DEF Received, n
<1>10. SingleCopyRule => OneCopy(net')
  <2> SUFFICES ASSUME OneCopy(net), NEW o \in Pkgs, NEW m \in Nodes, o \in Ids(net', m)
               PROVE  net'.endAt[o] = 0 /\ \A k \in Nodes : o \in Ids(net', k) => m = k
    BY DEF DtnInv, OneCopy
  <2>1. CASE o = p
    BY <1>4, <1>8, <1>9, <2>1 DEF Absent
  <2>2. CASE o # p
    BY <1>8, <1>9, <2>2 DEF OneCopy
  <2> QED  BY <2>1, <2>2
<1>11. ASSUME NEW e \in EventsIn(AllocatedSlots)', ~ IsContact(e), Absent(net, e.pkg)
       PROVE  Absent(net', e.pkg)
  <2>1. e \in EventsIn(AllocatedSlots) /\ e # NextEvent
    BY <1>2
  <2>2. e.pkg # p
    BY <1>1, <1>2, <1>4, <1>11, <2>1 DEF DtnInv, EventsInv
  <2>3. Arrival(e)
    BY <1>11, <2>1, KindOfEvent DEF DtnInv, EventsInv, ContactEvent
  <2>4. e.pkg \in Pkgs
    BY <2>3, KindOfEvent DEF Arrival
  <2> QED  BY <1>8, <1>9, <1>11, <2>2, <2>4 DEF Absent
<1>12. /\ estimation' \in [Pairs -> Estimates \cup {NONE}]
       /\ metNodes' \in [Nodes -> [Nodes -> Nat]]
  BY <1>1 DEF DtnInv, DtnTypes
<1>13. DtnInv'
  BY <1>1, <1>8, <1>10, <1>11, <1>12, HandlerKeepsInv
<1>14. \A o \in Pkgs \ {p} : /\ net'.endAt[o] = net.endAt[o]
                             /\ \A m \in Nodes : o \in Ids(net', m) => o \in Ids(net, m)
  BY <1>8, <1>9
<1> QED  BY <1>2, <1>4, <1>9, <1>13, <1>14

LEMMA LeaveLoopStep ==
    ASSUME DtnInv, LeaveLoop
    PROVE  DtnInv' /\ UNCHANGED Order!vars
<1>1. /\ phase = "run" /\ phase' = "done"
      /\ UNCHANGED <<config, contacts, pkgs, estimation, metNodes, net, eventSlots, clock>>
  BY DEF LeaveLoop
<1>2. QueueInv' /\ Pending' = Pending /\ EventsIn(AllocatedSlots)' = EventsIn(AllocatedSlots)
  BY <1>1, QueueSame DEF DtnInv
<1>3. EventsInv'
  BY <1>1, <1>2, EventsKept DEF DtnInv
<1>4. DtnTypes'
  BY <1>1 DEF DtnInv, DtnTypes, Pairs, NONE
<1>5. Good(net, clock)'
  BY <1>1, SameWorld DEF DtnInv
<1>6. (SingleCopyRule => OneCopy(net))'
  BY <1>1 DEF DtnInv, SingleCopyRule, OneCopy, Ids
<1> QED  BY <1>1, <1>2, <1>3, <1>4, <1>5, <1>6 DEF DtnInv, Order!vars

-----------------------------------------------------------------------------
(* Contacts.                                                                *)

(* The rule a handler follows, whatever config.fwdMethod says.              *)
MethodUsed ==
    IF config.oracle = "epidemic" THEN "everbest"
    ELSE IF config.oracle = "future" THEN "no_replica" ELSE config.fwdMethod

(* What all eight handlers do to the network.                               *)
Handled ==
    \/ net' = net
    \/ Contacted(net, net', NextEvent.pair[1], NextEvent.pair[2], clock', MethodUsed)

HandlerDone ==
    /\ phase = "run" /\ PickEvent /\ IsContact(NextEvent)
    /\ UNCHANGED <<phase, config, contacts, pkgs>>
    /\ estimation' \in [Pairs -> Estimates \cup {NONE}]
    /\ metNodes' \in [Nodes -> [Nodes -> Nat]]
    /\ Handled

LEMMA MethodIsUsed ==
    /\ SingleCopyRule <=> MethodUsed = "no_replica"
    /\ config.oracle \notin {"epidemic", "future"} => MethodUsed = config.fwdMethod
    /\ config.oracle = "future" => MethodUsed = "no_replica"
    /\ config.oracle = "epidemic" => MethodUsed = "everbest"
BY DEF SingleCopyRule, MethodUsed

LEMMA PairMet ==
    ASSUME DtnInv, PickEvent, phase = "run", IsContact(NextEvent)
    PROVE  /\ NextEvent.pair \in Pairs
           /\ NextEvent.pair[1] \in Nodes /\ NextEvent.pair[2] \in Nodes
           /\ NextEvent.pair[1] # NextEvent.pair[2]
           /\ Range(NextEvent.pair) = {NextEvent.pair[1], NextEvent.pair[2]}
<1>1. ContactEvent(NextEvent)
  BY EventPicked, KindOfEvent DEF Arrival
<1>2. PICK c \in contacts, first \in BOOLEAN : NextEvent = CntEvent(c, first)
  BY <1>1 DEF ContactEvent
<1>3. NextEvent.pair \in Pairs
  BY <1>2, ContactsInRange, KindOfEvent DEF DtnInv, DtnTypes
<1>4. PICK a \in Nodes, b \in Nodes : NextEvent.pair = <<a, b>> /\ a < b
  BY <1>3 DEF Pairs
<1>5. a # b
  BY <1>4, DtnAssumption
<1>6. DOMAIN <<a, b>> = {1, 2} /\ <<a, b>>[1] = a /\ <<a, b>>[2] = b
  OBVIOUS
<1>7. Range(<<a, b>>) = {a, b}
  BY <1>6 DEF Range
<1> QED  BY <1>3, <1>4, <1>5, <1>6, <1>7

LEMMA MetType ==
    ASSUME DtnInv, NEW q \in Pairs
    PROVE  Met(metNodes, q) \in [Nodes -> [Nodes -> Nat]]
<1>1. q[1] \in Nodes /\ q[2] \in Nodes
  BY DEF Pairs
<1>2. metNodes \in [Nodes -> [Nodes -> Nat]]
  BY DEF DtnInv, DtnTypes
<1> QED  BY <1>1, <1>2 DEF Met

LEMMA HandlerStep ==
    ASSUME DtnInv, HandlerDone
    PROVE  DtnInv' /\ Order!Consume
<1> DEFINE a == NextEvent.pair[1]
           b == NextEvent.pair[2]
<1>1. /\ Running /\ Order!Consume /\ clock' \in Nat \ {0} /\ Good(net, clock')
  BY EventPicked DEF HandlerDone
<1>2. a \in Nodes /\ b \in Nodes /\ a # b
  BY PairMet DEF HandlerDone
<1> HIDE DEF a, b
<1>3. /\ Good(net', clock')
      /\ SingleCopyRule => OneCopy(net')
      /\ \A p \in Pkgs : Absent(net, p) => Absent(net', p)
  <2>1. CASE net' = net
    BY <1>1, <2>1 DEF DtnInv
  <2>2. CASE Contacted(net, net', a, b, clock', MethodUsed)
    <3>1. /\ Good(net', clock')
          /\ MethodUsed = "no_replica" /\ OneCopy(net) => OneCopy(net')
          /\ \A p \in Pkgs : Absent(net, p) => Absent(net', p)
      BY <1>1, <1>2, <2>2, ContactKeeps
    <3> QED  BY <3>1, MethodIsUsed DEF DtnInv
  <2> QED  BY <2>1, <2>2 DEF HandlerDone, Handled, a, b
<1>4. ASSUME NEW e \in EventsIn(AllocatedSlots)', ~ IsContact(e), Absent(net, e.pkg)
      PROVE  Absent(net', e.pkg)
  <2>1. e \in EventsIn(AllocatedSlots)
    BY EventPicked DEF HandlerDone
  <2>2. Arrival(e)
    BY <1>4, <2>1, KindOfEvent DEF DtnInv, EventsInv, ContactEvent
  <2>3. e.pkg \in Pkgs
    BY <2>2, KindOfEvent DEF Arrival
  <2> QED  BY <1>3, <1>4, <2>3
<1>5. DtnInv'
  BY <1>3, <1>4, HandlerKeepsInv DEF HandlerDone
<1> QED  BY <1>1, <1>5

LEMMA EpidemicHandler ==
    ASSUME DtnInv, EpidemicContact
    PROVE  HandlerDone
<1> DEFINE q == NextEvent.pair
<1>1. /\ phase = "run" /\ PickEvent /\ IsContact(NextEvent)
      /\ UNCHANGED <<phase, config, contacts, pkgs>> /\ config.oracle = "epidemic"
      /\ metNodes' = Met(metNodes, q) /\ UNCHANGED estimation
  BY DEF EpidemicContact, Contact
<1>2. PICK v : v = EpidemicPass(net, q[1], q[2], clock') /\ net' = EpidemicPass(v, q[2], q[1], clock')
  BY DEF EpidemicContact
<1>3. q \in Pairs /\ q[1] \in Nodes /\ q[2] \in Nodes /\ q[1] # q[2]
  BY <1>1, PairMet
<1>4. Running /\ clock' \in Nat \ {0} /\ Good(net, clock')
  BY <1>1, EventPicked
<1> HIDE DEF q
<1>5. Contacted(net, net', q[1], q[2], clock', "everbest")
  BY <1>2, <1>3, <1>4, EpidemicContacted
<1>6. metNodes' \in [Nodes -> [Nodes -> Nat]] /\ estimation' \in [Pairs -> Estimates \cup {NONE}]
  BY <1>1, <1>3, MetType DEF DtnInv, DtnTypes
<1> QED  BY <1>1, <1>5, <1>6, MethodIsUsed DEF HandlerDone, Handled, q

LEMMA BubblePrefOneWay ==
    ASSUME NEW met, NEW a \in Nodes, NEW b \in Nodes
    PROVE  BubblePref(met)[a][b] \cap BubblePref(met)[b][a] = {}
BY NeighborCountType DEF BubblePref

LEMMA BubbleHandler ==
    ASSUME DtnInv, BubbleContact
    PROVE  HandlerDone
<1> DEFINE q == NextEvent.pair
           met == Met(metNodes, q)
           pref == BubblePref(met)
           now == clock'
<1>1. /\ phase = "run" /\ PickEvent /\ IsContact(NextEvent)
      /\ UNCHANGED <<phase, config, contacts, pkgs>> /\ config.oracle = "bubble"
      /\ metNodes' = met /\ UNCHANGED estimation
  BY DEF BubbleContact, Contact
<1>2. PICK v : v = BubblePass(net, q[1], q[2], now, met) /\ net' = BubblePass(v, q[2], q[1], now, met)
  BY DEF BubbleContact
<1>3. q \in Pairs /\ q[1] \in Nodes /\ q[2] \in Nodes /\ q[1] # q[2]
  BY <1>1, PairMet
<1>4. Running /\ now \in Nat \ {0} /\ Good(net, now)
  BY <1>1, EventPicked
<1>5. met \in [Nodes -> [Nodes -> Nat]]
  BY <1>3, MetType
<1> HIDE DEF q, met, now, pref
<1>6. Directed(net, v, q[1], q[2], now, config.fwdMethod, pref)
  BY <1>2, <1>3, <1>4, BubbleDirected DEF pref
<1>7. Directed(v, net', q[2], q[1], now, config.fwdMethod, pref)
  BY <1>2, <1>3, <1>4, <1>6, DirectedGood, BubbleDirected DEF pref
<1>8. Contacted(net, net', q[1], q[2], now, config.fwdMethod)
  BY <1>3, <1>6, <1>7, BubblePrefOneWay, BothDirections DEF pref
<1> QED  BY <1>1, <1>5, <1>8, MethodIsUsed DEF HandlerDone, Handled, q, now, DtnInv, DtnTypes

LEMMA SimbetHandler ==
    ASSUME DtnInv, SimbetContact
    PROVE  HandlerDone
<1> DEFINE q == NextEvent.pair
           met == Met(metNodes, q)
           pref == SocialPref(SimbetSimilarity(met), SimbetBetweenness)
           now == clock'
<1>1. /\ phase = "run" /\ PickEvent /\ IsContact(NextEvent)
      /\ UNCHANGED <<phase, config, contacts, pkgs>> /\ config.oracle = "simbet"
      /\ metNodes' = met /\ UNCHANGED estimation
  BY DEF SimbetContact, Contact
<1>2. PICK v : v = SimbetPass(net, q[1], q[2], now, met) /\ net' = SimbetPass(v, q[2], q[1], now, met)
  BY DEF SimbetContact
<1>3. q \in Pairs /\ q[1] \in Nodes /\ q[2] \in Nodes /\ q[1] # q[2]
  BY <1>1, PairMet
<1>4. Running /\ now \in Nat \ {0} /\ Good(net, now)
  BY <1>1, EventPicked
<1>5. met \in [Nodes -> [Nodes -> Nat]]
  BY <1>3, MetType
<1> HIDE DEF q, met, now, pref
<1>6. /\ v = SocialPass(net, q[1], q[2], now, SimbetSimilarity(met), SimbetBetweenness)
      /\ net' = SocialPass(v, q[2], q[1], now, SimbetSimilarity(met), SimbetBetweenness)
  BY <1>2 DEF SimbetPass, SimbetSimilarity, SimbetBetweenness
<1>7. SimbetSimilarity(met) \in [Nodes -> [Nodes -> Nat]] /\ SimbetBetweenness \in [Nodes -> Nat]
  BY <1>4, SimbetType
<1>8. Directed(net, v, q[1], q[2], now, config.fwdMethod, pref)
  BY <1>3, <1>4, <1>6, <1>7, SocialDirected DEF pref
<1>9. Directed(v, net', q[2], q[1], now, config.fwdMethod, pref)
  BY <1>3, <1>4, <1>6, <1>7, <1>8, DirectedGood, SocialDirected DEF pref
<1>10. pref[q[1]][q[2]] \cap pref[q[2]][q[1]] = {}
  BY <1>3, <1>4, <1>7, SocialPrefOneWay DEF pref
<1>11. Contacted(net, net', q[1], q[2], now, config.fwdMethod)
  BY <1>8, <1>9, <1>10, BothDirections
<1> QED  BY <1>1, <1>5, <1>11, MethodIsUsed DEF HandlerDone, Handled, q, now, DtnInv, DtnTypes

LEMMA GlobalSocialHandler ==
    ASSUME DtnInv, GlobalSocialContact
    PROVE  HandlerDone
<1> DEFINE q == NextEvent.pair
           pref == SocialPref(GlobalSimilarity, config.betweenness)
           now == clock'
<1>1. /\ phase = "run" /\ PickEvent /\ IsContact(NextEvent)
      /\ UNCHANGED <<phase, config, contacts, pkgs>> /\ config.oracle = "global_social"
      /\ UNCHANGED <<metNodes, estimation>>
  BY DEF GlobalSocialContact, Contact
<1>2. PICK v : v = GlobalSocialPass(net, q[1], q[2], now) /\ net' = GlobalSocialPass(v, q[2], q[1], now)
  BY DEF GlobalSocialContact
<1>3. q \in Pairs /\ q[1] \in Nodes /\ q[2] \in Nodes /\ q[1] # q[2]
  BY <1>1, PairMet
<1>4. Running /\ now \in Nat \ {0} /\ Good(net, now)
  BY <1>1, EventPicked
<1> HIDE DEF q, now, pref
<1>5. /\ v = SocialPass(net, q[1], q[2], now, GlobalSimilarity, config.betweenness)
      /\ net' = SocialPass(v, q[2], q[1], now, GlobalSimilarity, config.betweenness)
  BY <1>2 DEF GlobalSocialPass, GlobalSimilarity
<1>6. GlobalSimilarity \in [Nodes -> [Nodes -> Nat]] /\ config.betweenness \in [Nodes -> Nat]
  BY <1>4, GlobalType
<1>7. Directed(net, v, q[1], q[2], now, config.fwdMethod, pref)
  BY <1>3, <1>4, <1>5, <1>6, SocialDirected DEF pref
<1>8. Directed(v, net', q[2], q[1], now, config.fwdMethod, pref)
  BY <1>3, <1>4, <1>5, <1>6, <1>7, DirectedGood, SocialDirected DEF pref
<1>9. pref[q[1]][q[2]] \cap pref[q[2]][q[1]] = {}
  BY <1>3, <1>4, <1>6, SocialPrefOneWay DEF pref
<1>10. Contacted(net, net', q[1], q[2], now, config.fwdMethod)
  BY <1>7, <1>8, <1>9, BothDirections
<1> QED  BY <1>1, <1>10, MethodIsUsed DEF HandlerDone, Handled, q, now, DtnInv, DtnTypes

LEMMA FutureDirections ==
    ASSUME DtnInv, FutureContact, NEW a, a = NextEvent.pair[1], NEW b, b = NextEvent.pair[2],
           NEW now, now = clock', NEW pref, pref = FuturePref(now)
    PROVE  /\ a \in Nodes /\ b \in Nodes /\ a # b
           /\ pref[a][b] \cap pref[b][a] = {}
           /\ \E v : /\ Directed(net, v, a, b, now, "no_replica", pref)
                     /\ Directed(v, net', b, a, now, "no_replica", pref)
<1>1. phase = "run" /\ PickEvent /\ IsContact(NextEvent)
  BY DEF FutureContact, Contact
<1>2. PICK v : v = FuturePass(net, a, b, now) /\ net' = FuturePass(v, b, a, now)
  BY DEF FutureContact
<1>3. a \in Nodes /\ b \in Nodes /\ a # b
  BY <1>1, PairMet
<1>4. Running /\ now \in Nat \ {0} /\ Good(net, now)
  BY <1>1, EventPicked
<1>5. contacts \in ContactTables
  BY DEF DtnInv, DtnTypes
<1>6. Directed(net, v, a, b, now, "no_replica", pref)
  BY <1>2, <1>3, <1>4, FutureDirected
<1>7. Directed(v, net', b, a, now, "no_replica", pref)
  BY <1>2, <1>3, <1>4, <1>6, DirectedGood, FutureDirected
<1>8. pref[a][b] \cap pref[b][a] = {}
  BY <1>3, <1>4, <1>5, FuturePrefOneWay
<1> QED  BY <1>3, <1>6, <1>7, <1>8

LEMMA FutureHandler ==
    ASSUME DtnInv, FutureContact
    PROVE  HandlerDone
<1> DEFINE a == NextEvent.pair[1]
           b == NextEvent.pair[2]
           now == clock'
           pref == FuturePref(now)
<1>1. /\ phase = "run" /\ PickEvent /\ IsContact(NextEvent)
      /\ UNCHANGED <<phase, config, contacts, pkgs>> /\ config.oracle = "future"
      /\ UNCHANGED <<metNodes, estimation>>
  BY DEF FutureContact, Contact
<1> HIDE DEF a, b, now, pref
<1>2. pref[a][b] \cap pref[b][a] = {}
  BY FutureDirections DEF a, b, now, pref
<1>3. PICK v : /\ Directed(net, v, a, b, now, "no_replica", pref)
               /\ Directed(v, net', b, a, now, "no_replica", pref)
  BY FutureDirections DEF a, b, now, pref
<1>4. Contacted(net, net', a, b, now, "no_replica")
  BY <1>2, <1>3, BothDirections
<1> QED  BY <1>1, <1>4, MethodIsUsed DEF HandlerDone, Handled, a, b, now, DtnInv, DtnTypes

(* The estimate of the pair is renewed.                                     *)
LEMMA RenewedType ==
    ASSUME DtnInv, NEW q, NEW e \in Estimates \cup {NONE}
    PROVE  [estimation EXCEPT ![q] = e] \in [Pairs -> Estimates \cup {NONE}]
BY DEF DtnInv, DtnTypes

LEMMA RenewAndRelayEffect ==
    ASSUME Running, DtnInv, NEW q \in Pairs, q[1] \in Nodes, q[2] \in Nodes, q[1] # q[2],
           NEW now, now = clock', now \in Nat \ {0}, Good(net, now), RenewAndRelay(q)
    PROVE  /\ estimation' \in [Pairs -> Estimates \cup {NONE}]
           /\ Contacted(net, net', q[1], q[2], now, config.fwdMethod)
<1>1. PICK e \in Estimates \cup {NONE} :
        LET est == [estimation EXCEPT ![q] = e] IN
        /\ estimation' = est
        /\ \E v \in {OraclePass(net, q[1], q[2], now, est)} :
               net' = OraclePass(v, q[2], q[1], now, est)
  BY DEF RenewAndRelay
<1> DEFINE est == [estimation EXCEPT ![q] = e]
           pref == OraclePref(est)
<1>2. estimation' = est /\ est \in [Pairs -> Estimates \cup {NONE}]
  BY <1>1, RenewedType
<1>3. PICK v : v = OraclePass(net, q[1], q[2], now, est) /\ net' = OraclePass(v, q[2], q[1], now, est)
  BY <1>1
<1> HIDE DEF est, pref
<1>4. Directed(net, v, q[1], q[2], now, config.fwdMethod, pref)
  BY <1>2, <1>3, OracleDirected DEF pref
<1>5. Directed(v, net', q[2], q[1], now, config.fwdMethod, pref)
  BY <1>2, <1>3, <1>4, DirectedGood, OracleDirected DEF pref
<1>6. pref[q[1]][q[2]] \cap pref[q[2]][q[1]] = {}
  BY <1>2, OraclePrefOneWay DEF pref
<1> QED  BY <1>2, <1>4, <1>5, <1>6, BothDirections

LEMMA MarkovHandler ==
    ASSUME DtnInv, MarkovContact \/ AverageContact
    PROVE  HandlerDone
<1> DEFINE q == NextEvent.pair
           now == clock'
<1>1. /\ phase = "run" /\ PickEvent /\ IsContact(NextEvent)
      /\ UNCHANGED <<phase, config, contacts, pkgs>> /\ config.oracle \in {"markov", "average"}
      /\ metNodes' = Met(metNodes, q)
      /\ UNCHANGED <<estimation, net>> \/ RenewAndRelay(q)
  BY DEF MarkovContact, AverageContact, Contact
<1>2. q \in Pairs /\ q[1] \in Nodes /\ q[2] \in Nodes /\ q[1] # q[2]
  BY <1>1, PairMet
<1>3. Running /\ now \in Nat \ {0} /\ Good(net, now)
  BY <1>1, EventPicked
<1>4. metNodes' \in [Nodes -> [Nodes -> Nat]] /\ estimation \in [Pairs -> Estimates \cup {NONE}]
  BY <1>1, <1>2, MetType DEF DtnInv, DtnTypes
<1>5. /\ estimation' \in [Pairs -> Estimates \cup {NONE}]
      /\ net' = net \/ Contacted(net, net', q[1], q[2], now, config.fwdMethod)
  <2>1. CASE UNCHANGED <<estimation, net>>
    BY <1>4, <2>1
  <2>2. CASE RenewAndRelay(q)
    BY <1>2, <1>3, <2>2, RenewAndRelayEffect
  <2> QED  BY <1>1, <2>1, <2>2
<1> QED  BY <1>1, <1>4, <1>5, MethodIsUsed DEF HandlerDone, Handled

LEMMA ZoomHandler ==
    ASSUME DtnInv, ZoomContact
    PROVE  HandlerDone
<1> DEFINE q == NextEvent.pair
           now == clock'
<1>1. /\ phase = "run" /\ PickEvent /\ IsContact(NextEvent)
      /\ UNCHANGED <<phase, config, contacts, pkgs>> /\ config.oracle = "zoom"
      /\ metNodes' = Met(metNodes, q)
  BY DEF ZoomContact, Contact
<1>2. q \in Pairs /\ q[1] \in Nodes /\ q[2] \in Nodes /\ q[1] # q[2]
  BY <1>1, PairMet
<1>3. Running /\ now \in Nat \ {0} /\ Good(net, now)
  BY <1>1, EventPicked
<1>4. metNodes' \in [Nodes -> [Nodes -> Nat]] /\ estimation \in [Pairs -> Estimates \cup {NONE}]
  BY <1>1, <1>2, MetType DEF DtnInv, DtnTypes
<1>5. PICK e \in Estimates \cup {NONE} :
        LET est == [estimation EXCEPT ![q] = e] IN
        /\ estimation' = est
        /\ \E v \in {ZoomPass(net, q[1], q[2], now, est)} :
               net' = ZoomPass(v, q[2], q[1], now, est)
  <2>1. PICK e \in IF NextEvent.first THEN {estimation[q]} ELSE Estimates \cup {NONE} :
          LET est == [estimation EXCEPT ![q] = e] IN
          /\ estimation' = est
          /\ \E v \in {ZoomPass(net, q[1], q[2], now, est)} :
                 net' = ZoomPass(v, q[2], q[1], now, est)
    BY DEF ZoomContact
  <2>2. e \in Estimates \cup {NONE}
    BY <1>2, <1>4, <2>1
  <2> QED  BY <2>1, <2>2
<1> DEFINE est == [estimation EXCEPT ![q] = e]
           pref == ZoomPref(est)
<1>6. estimation' = est /\ est \in [Pairs -> Estimates \cup {NONE}]
  BY <1>5, RenewedType
<1>7. PICK v : v = ZoomPass(net, q[1], q[2], now, est) /\ net' = ZoomPass(v, q[2], q[1], now, est)
  BY <1>5
<1> HIDE DEF est, pref, q, now
<1>8. Directed(net, v, q[1], q[2], now, config.fwdMethod, pref)
  BY <1>2, <1>3, <1>6, <1>7, ZoomDirected DEF pref
<1>9. Directed(v, net', q[2], q[1], now, config.fwdMethod, pref)
  BY <1>2, <1>3, <1>6, <1>7, <1>8, DirectedGood, ZoomDirected DEF pref
<1>10. pref[q[1]][q[2]] \cap pref[q[2]][q[1]] = {}
  BY <1>2, <1>3, <1>6, ZoomPrefOneWay DEF pref
<1>11. Contacted(net, net', q[1], q[2], now, config.fwdMethod)
  BY <1>8, <1>9, <1>10, BothDirections
<1> QED  BY <1>1, <1>4, <1>6, <1>11, MethodIsUsed DEF HandlerDone, Handled, q, now

-----------------------------------------------------------------------------
(* The invariant holds, and what it implies.                                *)

(* What a step of the experiment can do to the network.                     *)
LEMMA StepEffect ==
    ASSUME DtnInv, [Next]_dtnVars
    PROVE  /\ DtnInv' /\ [Order!Next]_Order!vars
           /\ \/ HandlerDone
              \/ RecvPkg /\ \A n \in Nodes : Ids(net, n) \subseteq Ids(net', n)
              \/ UNCHANGED net
<1> USE DEF Order!Next
<1>1. CASE SetupOracle
  BY <1>1, SetupOracleStep DEF SetupOracle
<1>2. CASE GenerateTraffic
  BY <1>2, GenerateTrafficStep DEF GenerateTraffic
<1>3. CASE SetupTrafficEvents
  BY <1>3, SetupTrafficEventsStep DEF SetupTrafficEvents
<1>4. CASE SetupCntEvents
  BY <1>4, SetupCntEventsStep DEF SetupCntEvents
<1>5. CASE RecvPkg
  BY <1>5, RecvPkgStep
<1>6. ASSUME HandlerDone  PROVE DtnInv' /\ Order!Consume
  BY <1>6, HandlerStep
<1>7. CASE EpidemicContact
  BY <1>6, <1>7, EpidemicHandler
<1>8. CASE BubbleContact
  BY <1>6, <1>8, BubbleHandler
<1>9. CASE MarkovContact \/ AverageContact
  BY <1>6, <1>9, MarkovHandler
<1>10. CASE ZoomContact
  BY <1>6, <1>10, ZoomHandler
<1>11. CASE FutureContact
  BY <1>6, <1>11, FutureHandler
<1>12. CASE SimbetContact
  BY <1>6, <1>12, SimbetHandler
<1>13. CASE GlobalSocialContact
  BY <1>6, <1>13, GlobalSocialHandler
<1>14. CASE LeaveLoop
  BY <1>14, LeaveLoopStep DEF LeaveLoop
<1>15. CASE UNCHANGED dtnVars
  BY <1>15, StutterInv DEF dtnVars
<1> QED
  BY <1>1, <1>2, <1>3, <1>4, <1>5, <1>7, <1>8, <1>9, <1>10, <1>11, <1>12, <1>13, <1>14, <1>15
  DEF Next

(* The invariant that the theorems below rest on: the queue is in order,     *)
(* holds the contacts of the trace and the arrivals of packages that have    *)
(* left no trace, and the storages, the routing records and the counters     *)
(* agree with one another.                                                   *)
THEOREM DtnInvHolds == Spec => []DtnInv
<1>1. Init => DtnInv
  BY InitInv
<1>2. DtnInv /\ [Next]_dtnVars => DtnInv'
  BY StepEffect
<1> QED  BY <1>1, <1>2, PTL DEF Spec

(* Every variable of the experiment keeps its type, for every set of         *)
(* command lines, contact traces and packages.                               *)
THEOREM TypeOKHolds == Spec => []TypeOK
<1>1. DtnInv => TypeOK
  <2> SUFFICES ASSUME DtnInv  PROVE TypeOK
    OBVIOUS
  <2>1. \A i \in AllocatedSlots : Range(eventSlots[i]) \subseteq Event
    <3> SUFFICES ASSUME NEW i \in AllocatedSlots  PROVE Range(eventSlots[i]) \subseteq Event
      OBVIOUS
    <3>1. eventSlots[i] \in Seq(Event)
      BY DEF DtnInv, QueueInv, SlotsOK
    <3> QED  BY <3>1, RangeIndex
  <2>2. net \in Net
    BY DEF DtnInv, Good
  <2> QED  BY <2>1, <2>2 DEF DtnInv, DtnTypes, TypeOK
<1> QED  BY <1>1, DtnInvHolds, PTL

(* After any history of receptions, hand-overs and refusals a storage        *)
(* accounts for exactly the copies it lists: storage_add_pkg and             *)
(* storage_remove_pkg keep the list, its order and its usage in agreement.   *)
THEOREM StorageConsistentHolds == Spec => []StorageConsistent
<1>1. DtnInv => StorageConsistent
  <2> SUFFICES ASSUME DtnInv  PROVE Consistent(net)
    BY DEF StorageConsistent
  <2>1. CASE phase \in {"oracle", "traffic"}
    <3>1. net = NetInit /\ config \in ConfigType
      BY <2>1, TypeOfConfig DEF DtnInv, DtnTypes
    <3>2. DOMAIN << >> = {} /\ Len(<< >>) = 0 /\ pkgSize * 0 = 0
      BY SizeType
    <3>3. config.bufSize # NONE => 0 =< config.bufSize
      BY <3>1 DEF ConfigType
    <3> QED  BY <3>1, <3>2, <3>3, NetInitType DEF Consistent
  <2>2. CASE phase \notin {"oracle", "traffic"}
    <3>1. PkgsOK
      BY <2>2, RunningNow DEF Running
    <3>2. net \in Net /\ \A n \in Nodes : NodeOK(net.stored[n], net.usage[n], n)
      BY DEF DtnInv, Good
    <3> QED  BY <3>1, <3>2, ConsistentIsNodeOK
  <2> QED  BY <2>1, <2>2
<1> QED  BY <1>1, DtnInvHolds, PTL

(* However often the copies of a package arrive, node_recv counts it in      *)
(* sentPkgs once when no route is recorded, and never fails to count it.     *)
THEOREM SentIsDeliveredHolds == Spec => []SentIsDelivered
<1>1. DtnInv => SentIsDelivered
  BY DEF DtnInv, Good, Counted, DeliveredIn, SentIsDelivered, Delivered
<1> QED  BY <1>1, DtnInvHolds, PTL

(* NO_REPLICA_FWD and the future contacts oracle never duplicate a package,  *)
(* whatever the contacts, the storages and the rule of the oracle.           *)
THEOREM SingleCopyHolds == Spec => []SingleCopy
<1>1. DtnInv => SingleCopy
  <2> SUFFICES ASSUME DtnInv, SingleCopyRule, NEW p \in Pkgs
               PROVE  Cardinality(Carriers(p)) + (IF Delivered(p) THEN 1 ELSE 0) =< 1
    BY DEF SingleCopy
  <2>1. OneCopy(net)
    BY DEF DtnInv
  <2>2. Carriers(p) = {n \in Nodes : p \in Ids(net, n)}
    BY HoldsIds DEF Carriers
  <2>3. CASE Carriers(p) = {}
    BY <2>3, FS_EmptySet
  <2>4. CASE Carriers(p) # {}
    <3>1. PICK m \in Nodes : p \in Ids(net, m)
      BY <2>2, <2>4
    <3>2. Carriers(p) = {m} /\ ~ Delivered(p)
      BY <2>1, <2>2, <3>1 DEF OneCopy, Delivered
    <3>3. Cardinality(Carriers(p)) = 1
      BY <3>2, FS_Singleton
    <3>4. (IF Delivered(p) THEN 1 ELSE 0) = 0
      BY <3>2
    <3> QED  BY <3>3, <3>4
  <2> QED  BY <2>3, <2>4
<1> QED  BY <1>1, DtnInvHolds, PTL

(* The experiment uses the queue as EventOrder promises: every event that it *)
(* schedules lies in the future, and the main loop takes the pending events  *)
(* in the order of their timestamps.                                         *)
THEOREM SimConsumedInOrderHolds == Spec => ConsumedInOrder
<1>1. Init => DtnInv /\ Order!Init
  BY InitInv
<1>2. DtnInv /\ [Next]_dtnVars => DtnInv' /\ [Order!Next]_Order!vars
  BY StepEffect
<1> QED  BY <1>1, <1>2, PTL DEF Spec, ConsumedInOrder, Order!Spec

(* The packages that one of two nodes carries.                              *)
LEMMA CarriedByTwo ==
    ASSUME DtnInv, NEW n \in Nodes, NEW m \in Nodes
    PROVE  {o \in Pkgs : Carriers(o) \cap {n, m} # {}} = Ids(net, n) \cup Ids(net, m)
<1>1. \A k \in Nodes : Ids(net, k) \subseteq Pkgs
  <2> SUFFICES ASSUME NEW k \in Nodes, NEW o \in Ids(net, k)  PROVE o \in Pkgs
    OBVIOUS
  <2>1. net.stored[k] \in Seq(Copy)
    BY GoodFields DEF DtnInv, Good
  <2>2. PICK i \in DOMAIN net.stored[k] : o = net.stored[k][i].id
    BY DEF Ids
  <2>3. net.stored[k][i] \in Copy
    BY <2>1, <2>2
  <2> QED  BY <2>2, <2>3 DEF Copy
<1>2. ASSUME NEW o \in Pkgs
      PROVE  Carriers(o) \cap {n, m} # {} <=> o \in Ids(net, n) \cup Ids(net, m)
  <2>1. \A k \in Nodes : k \in Carriers(o) <=> o \in Ids(net, k)
    BY HoldsIds DEF Carriers
  <2> QED  BY <2>1
<1> QED  BY <1>1, <1>2

(* A package that has not arrived is lost only when its carrier hands it to  *)
(* a node that has no room for it, whichever oracle and storages are used:   *)
(* not when two nodes exchange several packages, not in the second direction *)
(* of a contact, and never where copies are kept.                            *)
THEOREM LostOnlyWhenFullHolds == Spec => LostOnlyWhenFull
<1> DEFINE Lost(p) ==
             Carriers(p) # {} /\ ~ Delivered(p) =>
                \/ Carriers(p)' # {} \/ Delivered(p)'
                \/ /\ IsContact(NextEvent)
                   /\ \E n \in Carriers(p), m \in Nodes \ Carriers(p) :
                     /\ {n, m} = {NextEvent.pair[1], NextEvent.pair[2]}
                     /\ config.bufSize # NONE
                     /\ pkgSize * Cardinality({o \in Pkgs : Carriers(o) \cap {n, m} # {}})
                          > config.bufSize
<1>1. ASSUME DtnInv, [Next]_dtnVars, NEW p \in Pkgs  PROVE Lost(p)
  <2> SUFFICES ASSUME Carriers(p) # {}, Carriers(p)' = {}, ~ Delivered(p)'
               PROVE  /\ IsContact(NextEvent)
                      /\ \E n \in Carriers(p), m \in Nodes \ Carriers(p) :
                        /\ {n, m} = {NextEvent.pair[1], NextEvent.pair[2]}
                        /\ config.bufSize # NONE
                        /\ pkgSize * Cardinality({o \in Pkgs : Carriers(o) \cap {n, m} # {}})
                             > config.bufSize
    OBVIOUS
  <2>1. \A n \in Nodes : n \in Carriers(p) <=> p \in Ids(net, n)
    BY HoldsIds DEF Carriers
  <2>2. \A n \in Nodes : p \notin Ids(net', n)
    BY HoldsIds DEF Carriers, Holds, Ids
  <2>3. PICK c \in Nodes : p \in Ids(net, c)
    BY <2>1 DEF Carriers
  <2>4. HandlerDone
    BY <1>1, <2>2, <2>3, StepEffect
  <2> DEFINE a == NextEvent.pair[1]
             b == NextEvent.pair[2]
  <2>5. a \in Nodes /\ b \in Nodes /\ a # b
    BY <1>1, <2>4, PairMet DEF HandlerDone
  <2>6. Running /\ Good(net, clock')
    BY <1>1, <2>4, EventPicked DEF HandlerDone
  <2>7. IsContact(NextEvent)
    BY <2>2, <2>3, <2>4 DEF HandlerDone, Handled
  <2>8. Contacted(net, net', a, b, clock', MethodUsed)
    BY <2>2, <2>3, <2>4 DEF HandlerDone, Handled
  <2> HIDE DEF a, b
  <2>9. MethodUsed = "no_replica" => OneCopy(net)
    BY <1>1, MethodIsUsed DEF DtnInv
  <2>10. net'.endAt[p] = 0
    BY DEF Delivered
  <2>11. Dropped(net, p, a, b) \/ Dropped(net, p, b, a)
    BY <2>2, <2>3, <2>5, <2>6, <2>8, <2>9, <2>10, ContactLoss
  <2>12. PICK n \in Nodes, m \in Nodes : {n, m} = {a, b} /\ Dropped(net, p, n, m)
    BY <2>5, <2>11
  <2>13. {o \in Pkgs : Carriers(o) \cap {n, m} # {}} = Ids(net, n) \cup Ids(net, m)
    BY <1>1, CarriedByTwo
  <2>14. n \in Carriers(p) /\ m \in Nodes \ Carriers(p)
    BY <2>1, <2>12 DEF Dropped
  <2> QED  BY <2>12, <2>13, <2>14, <2>7 DEF Dropped, a, b
<1>2. DtnInv /\ [Next]_dtnVars => [\A p \in Pkgs : Lost(p)]_dtnVars
  BY <1>1
<1> QED  BY <1>2, DtnInvHolds, PTL DEF Spec, LostOnlyWhenFull

(* No contact passes a package there and back: with the single copy and the  *)
(* "better" rules, in every oracle but the epidemic one, what the first      *)
(* direction has moved the second one leaves alone.                          *)
THEOREM HandedOverOnceHolds == Spec => HandedOverOnce
<1> DEFINE Once ==
             phase = "run" /\ NonEmptySlots # {} /\ IsContact(NextEvent)
             /\ config.oracle # "epidemic"
             /\ (config.oracle = "future" \/ config.fwdMethod # "everbest")
             =>
             net'.trafficCount - net.trafficCount =<
                 Cardinality({p \in Pkgs : Carriers(p) \cap Range(NextEvent.pair) # {}})
<1>1. ASSUME DtnInv, Next  PROVE Once
  <2> SUFFICES ASSUME phase = "run", IsContact(NextEvent), config.oracle # "epidemic",
                      config.oracle = "future" \/ config.fwdMethod # "everbest"
               PROVE  net'.trafficCount - net.trafficCount =<
                        Cardinality({p \in Pkgs : Carriers(p) \cap Range(NextEvent.pair) # {}})
    OBVIOUS
  <2>1. ~ RecvPkg
    BY DEF RecvPkg
  <2>2. CASE HandlerDone
    <3> DEFINE a == NextEvent.pair[1]
               b == NextEvent.pair[2]
               S == {p \in Pkgs : Carriers(p) \cap Range(NextEvent.pair) # {}}
    <3>1. a \in Nodes /\ b \in Nodes /\ a # b /\ Range(NextEvent.pair) = {a, b}
      BY <1>1, <2>2, PairMet DEF HandlerDone
    <3>2. Running /\ Good(net, clock')
      BY <1>1, <2>2, EventPicked DEF HandlerDone
    <3>3. net' = net \/ Contacted(net, net', a, b, clock', MethodUsed)
      BY <2>2 DEF HandlerDone, Handled
    <3>4. S = Ids(net, a) \cup Ids(net, b)
      BY <1>1, <3>1, CarriedByTwo
    <3>5. Cardinality(S) \in Nat /\ net.trafficCount \in Nat
      BY <3>2, DtnAssumption, FS_Subset, FS_CardinalityType, GoodFields DEF Good
    <3> HIDE DEF a, b, S
    <3>6. MethodUsed # "everbest"
      BY MethodIsUsed
    <3>7. CASE net' = net
      BY <3>5, <3>7 DEF S
    <3>8. CASE Contacted(net, net', a, b, clock', MethodUsed)
      <4>1. net'.trafficCount - net.trafficCount =< Cardinality(Ids(net, a) \cup Ids(net, b))
        BY <3>1, <3>2, <3>6, <3>8, ContactCount
      <4> QED  BY <3>4, <4>1 DEF S
    <3> QED  BY <3>3, <3>7, <3>8
  <2>3. CASE UNCHANGED net
    <3>1. net.trafficCount \in Nat
      BY <1>1, GoodFields DEF DtnInv, Good
    <3>2. Cardinality({p \in Pkgs : Carriers(p) \cap Range(NextEvent.pair) # {}}) \in Nat
      BY DtnAssumption, FS_Subset, FS_CardinalityType
    <3> QED  BY <2>3, <3>1, <3>2
  <2> QED  BY <1>1, <2>1, <2>2, <2>3, StepEffect
<1>2. DtnInv /\ [Next]_dtnVars => [Once]_dtnVars
  BY <1>1
<1> QED  BY <1>2, DtnInvHolds, PTL DEF Spec, HandedOverOnce
-----------------------------------------------------------------------------
(* The promise of the future contacts oracle.                               *)

(* Where one direction leaves a package that it has not delivered, when      *)
(* there is room everywhere.                                                *)
LEMMA PassMove ==
    ASSUME Running, NEW w, NEW now, Good(w, now), OneCopy(w), config.bufSize = NONE,
           NEW a \in Nodes, NEW b \in Nodes, a # b, NEW pref, NEW v,
           Directed(w, v, a, b, now, "no_replica", pref),
           NEW p \in Pkgs, NEW x \in Nodes, p \in Ids(w, x), v.endAt[p] = 0
    PROVE  \/ x # a /\ p \in Ids(v, x)
           \/ x = a /\ p \in Ids(v, a) /\ pkgs[p].dst # b
           \/ x = a /\ p \in Ids(v, b) /\ pkgs[p].dst \in pref[a][b]
<1> DEFINE n == Len(w.stored[a])
<1>1. PICK s : /\ PassResult(w, v, a, b, now, "no_replica", s)
               /\ Sends(w, a, b, "no_replica", s, pref)
  BY DEF Directed
<1>2. /\ Moves(w, v, a, b, "no_replica") /\ Loses(w, v, a, b, "no_replica")
      /\ Arrives(w, v, a, b, s, n)
  BY <1>1 DEF PassResult, PassInv
<1>3. CASE x # a
  BY <1>2, <1>3 DEF Moves
<1>4. CASE x = a
  <2>1. p \notin Ids(w, b)
    BY <1>4 DEF OneCopy
  <2>2. pkgs[p].dst = b => p \in SentIds(w, a, s, n)
    <3>1. w.stored[a] \in Seq(Copy)
      BY GoodFields DEF Good
    <3>2. PICK j \in 1 .. n : w.stored[a][j].id = p
      BY <1>4, <3>1 DEF Ids
    <3> QED  BY <1>1, <3>2 DEF Sends, SentIds
  <2>3. pkgs[p].dst # b
    BY <1>2, <2>2 DEF Arrives
  <2>4. CASE p \in Ids(v, a)
    BY <1>4, <2>3, <2>4
  <2>5. CASE p \notin Ids(v, a)
    <3>1. p \in Ids(v, b)
      BY <1>2, <1>4, <2>5 DEF Loses, Full
    <3>2. p \in SentIds(w, a, s, n)
      BY <1>2, <2>1, <3>1 DEF Arrives
    <3>3. pkgs[p].dst \in pref[a][b]
      BY <1>1, <2>3, <3>2, SentWhere
    <3> QED  BY <1>4, <3>1, <3>3
  <2> QED  BY <2>4, <2>5
<1> QED  BY <1>3, <1>4

LEMMA StoredDst ==
    ASSUME Running, NEW w, NEW now, Good(w, now), NEW n \in Nodes, NEW p \in Ids(w, n)
    PROVE  pkgs[p].dst # n
<1>1. w.stored[n] \in Seq(Copy)
  BY GoodFields DEF Good
<1>2. PICK i \in 1 .. Len(w.stored[n]) : w.stored[n][i].id = p
  BY <1>1 DEF Ids
<1> QED  BY <1>2, StoredIsFit

(* Where a contact leaves it: with x, or with the other one, which pref      *)
(* prefers.                                                                 *)
MovedBy(u, a, b, pref, p, x) ==
    \/ p \in Ids(u, x) /\ {a, b} # {x, pkgs[p].dst}
    \/ \E y \in Nodes : {x, y} = {a, b} /\ p \in Ids(u, y) /\ pkgs[p].dst \in pref[x][y]

LEMMA ContactMove ==
    ASSUME Running, NEW w, NEW now, Good(w, now), OneCopy(w), config.bufSize = NONE,
           NEW a \in Nodes, NEW b \in Nodes, a # b, NEW pref, NEW v, NEW u,
           Directed(w, v, a, b, now, "no_replica", pref),
           Directed(v, u, b, a, now, "no_replica", pref),
           pref[a][b] \cap pref[b][a] = {},
           NEW p \in Pkgs, NEW x \in Nodes, p \in Ids(w, x), u.endAt[p] = 0
    PROVE  MovedBy(u, a, b, pref, p, x)
<1> USE DEF MovedBy
<1>1. Good(v, now) /\ OneCopy(v) /\ Delivers(v, u, b, a)
  BY PassOneCopy DEF Directed, PassResult, PassInv
<1>2. v.endAt[p] = 0
  BY <1>1 DEF Delivers
<1>3. \/ x # a /\ p \in Ids(v, x)
      \/ x = a /\ p \in Ids(v, a) /\ pkgs[p].dst # b
      \/ x = a /\ p \in Ids(v, b) /\ pkgs[p].dst \in pref[a][b]
  BY <1>2, PassMove
<1>4. ASSUME NEW z \in Nodes, p \in Ids(v, z)
      PROVE  \/ z # b /\ p \in Ids(u, z)
             \/ z = b /\ p \in Ids(u, b) /\ pkgs[p].dst # a
             \/ z = b /\ p \in Ids(u, a) /\ pkgs[p].dst \in pref[b][a]
  BY <1>1, <1>4, PassMove
<1>5. pkgs[p].dst # x
  BY StoredDst
<1>6. CASE x \notin {a, b}
  BY <1>3, <1>4, <1>6
<1>7. CASE x = a /\ p \in Ids(v, a) /\ pkgs[p].dst # b
  BY <1>4, <1>5, <1>7
<1>8. CASE x = a /\ p \in Ids(v, b) /\ pkgs[p].dst \in pref[a][b]
  BY <1>4, <1>8
<1>9. CASE x = b
  <2>1. p \in Ids(v, b)
    BY <1>3, <1>9
  <2>2. CASE p \in Ids(u, b) /\ pkgs[p].dst # a
    BY <1>5, <1>9, <2>2
  <2>3. CASE p \in Ids(u, a) /\ pkgs[p].dst \in pref[b][a]
    BY <1>9, <2>3
  <2> QED  BY <1>4, <2>1, <2>2, <2>3
<1> QED  BY <1>3, <1>6, <1>7, <1>8, <1>9

(* The next contact that DstTime counts to.                                 *)
LEMMA NextFuture ==
    ASSUME contacts \in ContactTables, NEW n, NEW d, NEW now \in Nat
    PROVE  /\ FutureContacts(n, d, now) \in SUBSET Nat
           /\ DstTime(n, d, now) = NONE \/ DstTime(n, d, now) >= 0
           /\ DstTime(n, d, now) = NONE <=> FutureContacts(n, d, now) = {}
           /\ DstTime(n, d, now) # NONE =>
                /\ DstTime(n, d, now) + now \in FutureContacts(n, d, now)
                /\ \A t \in FutureContacts(n, d, now) : DstTime(n, d, now) + now =< t
<1> DEFINE S == FutureContacts(n, d, now)
<1>1. S \in SUBSET Nat /\ \A t \in S : t >= now
  <2>1. \A c \in contacts : c.startAt \in Nat
    BY DtnAssumption DEF Contacts
  <2> QED  BY <2>1 DEF FutureContacts, ContactTimes
<1>2. DstTime(n, d, now) = IF S = {} THEN NONE ELSE Min(S) - now
  BY DEF DstTime
<1> HIDE DEF S
<1>3. CASE S = {}
  BY <1>1, <1>2, <1>3 DEF S, NONE
<1>4. CASE S # {}
  <2>1. Min(S) \in S /\ \A t \in S : Min(S) =< t
    <3>1. \E m \in S : \A j \in S : m =< j
      BY <1>1, <1>4, SmallestExists
    <3> QED  BY <3>1 DEF Min
  <2>2. PICK m \in Nat : m = Min(S) /\ m >= now
    BY <1>1, <2>1
  <2>3. DstTime(n, d, now) = m - now /\ m - now >= 0 /\ m - now # NONE /\ (m - now) + now = m
    BY <1>2, <1>4, <2>2 DEF NONE
  <2> QED  BY <1>1, <1>4, <2>1, <2>2, <2>3 DEF S
<1> QED  BY <1>3, <1>4

(* Who is preferred as a carrier meets the destination sooner.              *)
LEMMA SoonerContact ==
    ASSUME contacts \in ContactTables, NEW now \in Nat, NEW x \in Nodes, NEW y \in Nodes,
           NEW d \in FuturePref(now)[x][y], NEW t \in FutureContacts(x, d, now)
    PROVE  \E s \in FutureContacts(y, d, now) : s < t
<1> DEFINE mine == DstTime(x, d, now)
           theirs == DstTime(y, d, now)
<1>1. theirs >= 0 /\ (mine = NONE \/ mine > theirs)
  BY DEF FuturePref
<1>2. mine \in Int /\ theirs \in Int /\ theirs # NONE
  BY <1>1, DstTimeType DEF NONE
<1>3. mine # NONE /\ mine + now =< t /\ t \in Nat
  BY NextFuture
<1>4. theirs + now \in FutureContacts(y, d, now)
  BY <1>2, NextFuture
<1> HIDE DEF mine, theirs
<1>5. theirs + now < t
  BY <1>1, <1>2, <1>3
<1> QED  BY <1>4, <1>5

(* The slots that the loop scans, and the times of their events.            *)
LEMMA PendingSlot ==
    ASSUME QueueInv, NEW e \in EventsIn(AllocatedSlots)
    PROVE  e \in Pending <=> whichslot(e.timestamp) \in ScannedSlots
<1>1. PICK i \in AllocatedSlots : e \in Range(eventSlots[i])
  BY DEF EventsIn
<1>2. \A k \in AllocatedSlots : e \in Range(eventSlots[k]) => whichslot(e.timestamp) = k
  BY DEF QueueInv, SlotsOK, InSlot
<1>3. ScannedSlots \subseteq AllocatedSlots
  BY ScannedAllocated
<1> QED  BY <1>1, <1>2, <1>3 DEF Pending, EventsIn

LEMMA ScannedTimes ==
    ASSUME NEW t \in Nat, t >= exprStartAt, whichslot(t) \in ScannedSlots
    PROVE  /\ t < exprEndAt
           /\ \A s \in Nat : s >= exprStartAt /\ s < t => whichslot(s) \in ScannedSlots
<1>1. /\ exprStartAt \in Nat /\ exprEndAt \in Nat /\ exprEndAt >= exprStartAt
      /\ slotSize \in Nat \ {0}
  BY SlotAssumption
<1>2. ASSUME NEW s \in Nat, s >= exprStartAt  PROVE whichslot(s) \in Nat
  <2>1. s - exprStartAt \in Nat
    BY <1>1, <1>2
  <2> QED  BY <1>1, <2>1 DEF whichslot
<1>3. SlotCount = whichslot(exprEndAt) /\ SlotCount \in Nat
  BY <1>1, <1>2 DEF SlotCount, whichslot
<1>4. whichslot(t) < SlotCount /\ whichslot(t) \in Nat
  BY <1>2, <1>3 DEF ScannedSlots
<1>5. t < exprEndAt
  <2>1. t =< exprEndAt
    BY <1>1, <1>3, <1>4, SlotsInOrder
  <2>2. t # exprEndAt
    BY <1>3, <1>4
  <2> QED  BY <1>1, <2>1, <2>2
<1>6. ASSUME NEW s \in Nat, s >= exprStartAt, s < t  PROVE whichslot(s) \in ScannedSlots
  <2>1. ~ (whichslot(t) < whichslot(s))
    BY <1>6, SlotsInOrder
  <2>2. whichslot(s) \in Nat
    BY <1>2, <1>6
  <2> QED  BY <1>3, <1>4, <2>1, <2>2 DEF ScannedSlots
<1> QED  BY <1>5, <1>6

(* A pending contact is one of the trace that the loop will get to.         *)
LEMMA PendingContact ==
    ASSUME DtnInv, NEW e \in Pending, IsContact(e)
    PROVE  \E c \in Scanned, first \in BOOLEAN :
             /\ e = CntEvent(c, first) /\ c \in contacts /\ c.startAt \in Nat
             /\ e.pair = c.pair /\ e.timestamp = c.startAt
             /\ c.startAt >= exprStartAt /\ c.startAt < exprEndAt
             /\ whichslot(c.startAt) \in ScannedSlots
<1>1. e \in EventsIn(AllocatedSlots) /\ e.timestamp >= exprStartAt
  BY PendingAllocated DEF DtnInv
<1>2. ContactEvent(e)
  BY <1>1, KindOfEvent DEF DtnInv, EventsInv, Arrival
<1>3. PICK c \in contacts, first \in BOOLEAN : e = CntEvent(c, first)
  BY <1>2 DEF ContactEvent
<1>4. e.pair = c.pair /\ e.timestamp = c.startAt
  BY <1>3, KindOfEvent
<1>5. c.startAt \in Nat
  BY <1>3, ContactsInRange DEF DtnInv, DtnTypes
<1>6. whichslot(c.startAt) \in ScannedSlots
  BY <1>1, <1>4, PendingSlot DEF DtnInv
<1>7. c.startAt < exprEndAt
  BY <1>1, <1>4, <1>5, <1>6, ScannedTimes
<1> QED  BY <1>1, <1>3, <1>4, <1>5, <1>6, <1>7 DEF Scanned

(* The contacts to come are kept in the queue.                              *)
LEMMA QueuedStep ==
    ASSUME DtnInv, ContactsQueued, [Next]_dtnVars
    PROVE  ContactsQueued'
<1>1. ASSUME phase = "run", PickEvent, UNCHANGED contacts  PROVE ContactsQueued'
  <2>1. /\ clock' = NextEvent.timestamp /\ clock =< clock' /\ clock \in Nat /\ clock' \in Nat
        /\ EventsIn(AllocatedSlots)' = EventsIn(AllocatedSlots) \ {NextEvent}
    BY <1>1, EventPicked DEF DtnInv, DtnTypes
  <2> SUFFICES ASSUME NEW c \in contacts, c.startAt < exprEndAt, c.startAt > clock'
               PROVE  \E first \in BOOLEAN :
                        CntEvent(c, first) \in EventsIn(AllocatedSlots)'
    BY <1>1 DEF ContactsQueued, CntEvent
  <2>2. c.startAt \in Nat
    BY ContactsInRange DEF DtnInv, DtnTypes
  <2>3. PICK first \in BOOLEAN : CntEvent(c, first) \in EventsIn(AllocatedSlots)
    BY <1>1, <2>1, <2>2 DEF ContactsQueued
  <2>4. CntEvent(c, first) # NextEvent
    BY <2>1, <2>2, KindOfEvent
  <2> QED  BY <2>1, <2>3, <2>4
<1>2. CASE SetupCntEvents
  BY <1>2, SetupCntEventsStep
<1>3. CASE SetupOracle \/ GenerateTraffic \/ SetupTrafficEvents \/ LeaveLoop
  <2>1. phase' # "run"
    BY <1>3 DEF SetupOracle, GenerateTraffic, SetupTrafficEvents, LeaveLoop
  <2> QED  BY <2>1 DEF ContactsQueued
<1>4. CASE RecvPkg
  BY <1>1, <1>4 DEF RecvPkg
<1>5. ASSUME HandlerDone  PROVE ContactsQueued'
  BY <1>1, <1>5 DEF HandlerDone
<1>6. CASE UNCHANGED dtnVars
  <2>1. EventsIn(AllocatedSlots)' = EventsIn(AllocatedSlots)
    BY <1>6, QueueSame DEF dtnVars
  <2> QED  BY <1>6, <2>1 DEF dtnVars, ContactsQueued, CntEvent
<1>7. CASE EpidemicContact \/ BubbleContact \/ MarkovContact \/ AverageContact
           \/ ZoomContact \/ FutureContact \/ SimbetContact \/ GlobalSocialContact
  BY <1>5, <1>7, EpidemicHandler, BubbleHandler, MarkovHandler, ZoomHandler, FutureHandler,
     SimbetHandler, GlobalSocialHandler
<1> QED  BY <1>2, <1>3, <1>4, <1>6, <1>7 DEF Next

(* The times at which x and d meet, among the events of S, and the first of  *)
(* some times.                                                              *)
Meetings(S, x, d) == {e.timestamp : e \in {f \in S : IsContact(f) /\ Range(f.pair) = {x, d}}}
Earliest(T) == IF T = {} THEN exprEndAt + 1 ELSE Min(T)

LEMMA MeetingTimes ==
    ASSUME DtnInv, NEW S \in SUBSET Pending, NEW x, NEW d
    PROVE  Meetings(S, x, d) \in SUBSET Nat /\ \A t \in Meetings(S, x, d) : t < exprEndAt
<1> SUFFICES ASSUME NEW t \in Meetings(S, x, d)  PROVE t \in Nat /\ t < exprEndAt
  OBVIOUS
<1>1. PICK e \in Pending : IsContact(e) /\ e.timestamp = t
  BY DEF Meetings
<1> QED  BY <1>1, PendingContact

LEMMA EarliestOf ==
    ASSUME NEW T \in SUBSET Nat
    PROVE  /\ Earliest(T) \in Nat
           /\ \A t \in T : Earliest(T) =< t
           /\ IF T = {} THEN Earliest(T) = exprEndAt + 1 ELSE Earliest(T) \in T
<1>1. T # {} => Min(T) \in T /\ \A t \in T : Min(T) =< t
  <2>1. T # {} => \E m \in T : \A j \in T : m =< j
    BY SmallestExists
  <2> QED  BY <2>1 DEF Min
<1>2. exprEndAt + 1 \in Nat
  BY SlotAssumption
<1>3. Earliest(T) = IF T = {} THEN exprEndAt + 1 ELSE Min(T)
  BY DEF Earliest
<1> QED  BY <1>1, <1>2, <1>3

LEMMA PromiseOf ==
    ASSUME NEW p, NEW x
    PROVE  /\ Carriers(p) = {x} => Promise(p) = Earliest(Meetings(Pending, x, pkgs[p].dst))
           /\ Carriers(p)' = {x} => Promise(p)' = Earliest(Meetings(Pending', x, pkgs'[p].dst))
BY DEF Promise, Earliest, Meetings, IsContact

(* A better carrier has a contact with the destination that is still to come *)
(* and is sooner.                                                           *)
LEMMA SoonerMeeting ==
    ASSUME DtnInv, ContactsQueued, NoTwoAtOnce, phase = "run", PickEvent, IsContact(NextEvent),
           NEW x \in Nodes, NEW y \in Nodes, Range(NextEvent.pair) = {x, y},
           NEW d \in FuturePref(clock')[x][y], d # x, d # y,
           NEW t \in Meetings(Pending, x, d)
    PROVE  \E s \in Meetings(Pending', y, d) : s < t
<1> DEFINE now == clock'
<1>1. /\ now = NextEvent.timestamp /\ now \in Nat /\ clock \in Nat /\ clock =< now
      /\ NextEvent \in Pending /\ Pending' = Pending \ {NextEvent}
      /\ \A g \in Pending : now =< g.timestamp
      /\ contacts \in ContactTables
  BY EventPicked, PickStep DEF DtnInv, DtnTypes
<1>2. exprStartAt \in Nat /\ exprEndAt \in Nat
  BY SlotAssumption
<1>3. PICK e \in Pending : IsContact(e) /\ Range(e.pair) = {x, d} /\ e.timestamp = t
  BY DEF Meetings
<1>4. PICK c \in Scanned : /\ c \in contacts /\ Range(c.pair) = {x, d} /\ c.startAt = t
                           /\ t \in Nat /\ t < exprEndAt /\ t >= exprStartAt
                           /\ whichslot(t) \in ScannedSlots
  BY <1>3, PendingContact
<1>5. PICK c0 \in Scanned : /\ Range(c0.pair) = {x, y} /\ c0.startAt = now
                            /\ now >= exprStartAt
  BY <1>1, PendingContact
<1> HIDE DEF now
<1>6. t > now
  <2>1. {x, d} # {x, y}
    OBVIOUS
  <2>2. t # now
    BY <1>4, <1>5, <2>1 DEF NoTwoAtOnce
  <2> QED  BY <1>1, <1>3, <1>4, <2>2
<1>7. t \in FutureContacts(x, d, now)
  <2>1. t \in ContactTimes(x, d)
    BY <1>4 DEF ContactTimes
  <2>2. \A s \in ContactTimes(x, d) : s \in Nat
    <3>1. \A a \in contacts : a.startAt \in Nat
      BY <1>1, ContactsInRange
    <3> QED  BY <3>1 DEF ContactTimes
  <2>3. t > exprStartAt
    BY <1>1, <1>2, <1>4, <1>5, <1>6
  <2>4. \A s \in ContactTimes(x, d) : s > exprEndAt => t =< s
    BY <1>2, <1>4, <2>2
  <2>5. t >= now
    BY <1>1, <1>4, <1>6
  <2> QED  BY <2>1, <2>3, <2>4, <2>5 DEF FutureContacts
<1>8. PICK s \in FutureContacts(y, d, now) : s < t
  BY <1>1, <1>7, SoonerContact DEF now
<1>9. PICK c2 \in contacts : /\ Range(c2.pair) = {y, d} /\ c2.startAt = s
                             /\ s >= now /\ s > exprStartAt /\ s \in Nat
  <2>1. PICK c2 \in contacts : Range(c2.pair) = {y, d} /\ c2.startAt = s
    BY DEF FutureContacts, ContactTimes
  <2>2. s \in Nat
    BY <1>1, <2>1, ContactsInRange
  <2> QED  BY <2>1, <2>2 DEF FutureContacts
<1>10. whichslot(s) \in ScannedSlots /\ s < exprEndAt /\ c2 \in Scanned
  <2>1. whichslot(s) \in ScannedSlots /\ s < exprEndAt
    BY <1>2, <1>4, <1>8, <1>9, ScannedTimes
  <2> QED  BY <1>9, <2>1 DEF Scanned
<1>11. s > now
  <2>1. {y, d} # {x, y}
    OBVIOUS
  <2>2. s # now
    BY <1>5, <1>9, <1>10, <2>1 DEF NoTwoAtOnce
  <2> QED  BY <1>1, <1>9, <2>2
<1>12. PICK first \in BOOLEAN : CntEvent(c2, first) \in EventsIn(AllocatedSlots)
  BY <1>1, <1>9, <1>10, <1>11 DEF ContactsQueued, now
<1> DEFINE f == CntEvent(c2, first)
<1>13. IsContact(f) /\ Range(f.pair) = {y, d} /\ f.timestamp = s
  BY <1>9, KindOfEvent
<1> HIDE DEF f
<1>14. f \in Pending
  BY <1>10, <1>12, <1>13, PendingSlot DEF f, DtnInv
<1>15. f \in Pending'
  BY <1>1, <1>11, <1>13, <1>14
<1>16. s \in Meetings(Pending', y, d)
  BY <1>13, <1>15 DEF Meetings
<1> QED  BY <1>8, <1>16

(* The promise of a package that stays with its carrier.                    *)
LEMMA PromiseStays ==
    ASSUME DtnInv, NEW p \in Pkgs, NEW x, Carriers(p) = {x}, Carriers(p)' = {x}, pkgs' = pkgs,
           Meetings(Pending', x, pkgs[p].dst) = Meetings(Pending, x, pkgs[p].dst)
    PROVE  Promise(p)' =< Promise(p)
<1> DEFINE T == Meetings(Pending, x, pkgs[p].dst)
<1>1. Promise(p) = Earliest(T) /\ Promise(p)' = Earliest(T)
  BY PromiseOf
<1>2. T \in SUBSET Nat
  BY MeetingTimes
<1> HIDE DEF T
<1>3. Earliest(T) \in Nat
  BY <1>2, EarliestOf
<1> QED  BY <1>1, <1>3

LEMMA CarriersOf ==
    /\ \A p, n : n \in Carriers(p) <=> n \in Nodes /\ p \in Ids(net, n)
    /\ \A p, n : n \in Carriers(p)' <=> n \in Nodes /\ p \in Ids(net', n)
BY DEF Carriers, Holds, Ids

(* A package that is not delivered has one carrier.                         *)
LEMMA OnlyCarrier ==
    ASSUME OneCopy(net'), NEW p \in Pkgs, NEW x \in Nodes, p \in Ids(net', x)
    PROVE  Carriers(p)' = {x} /\ ~ Delivered(p)'
BY CarriersOf DEF OneCopy, Delivered

(* A contact under the future contacts oracle.                              *)
LEMMA FuturePromise ==
    ASSUME DtnInv, ContactsQueued, FutureContact, config.bufSize = NONE, NoTwoAtOnce,
           NEW p \in Pkgs, NEW x \in Nodes, Carriers(p) = {x}
    PROVE  IF Delivered(p)' THEN net'.endAt[p] =< Promise(p) ELSE Promise(p)' =< Promise(p)
<1> DEFINE a == NextEvent.pair[1]
           b == NextEvent.pair[2]
           now == clock'
           pref == FuturePref(now)
           d == pkgs[p].dst
           T == Meetings(Pending, x, d)
<1>1. /\ phase = "run" /\ PickEvent /\ IsContact(NextEvent) /\ config.oracle = "future"
      /\ pkgs' = pkgs /\ DtnInv' /\ UNCHANGED config
  BY FutureHandler, HandlerStep DEF FutureContact, Contact
<1>2. /\ Running /\ now \in Nat /\ Good(net, now) /\ now = NextEvent.timestamp
      /\ NextEvent \in Pending /\ Pending' = Pending \ {NextEvent}
      /\ \A g \in Pending : now =< g.timestamp
      /\ Range(NextEvent.pair) = {a, b}
  BY <1>1, EventPicked, PickStep, PairMet DEF DtnInv
<1>3. OneCopy(net) /\ OneCopy(net') /\ Good(net', now)
  <2>1. HandlerDone
    BY FutureHandler
  <2>2. Good(net', now) /\ OneCopy(net')
    <3>1. net' = net \/ Contacted(net, net', a, b, now, "no_replica")
      BY <1>1, <2>1, MethodIsUsed DEF HandlerDone, Handled
    <3>2. OneCopy(net)
      BY <1>1 DEF DtnInv, SingleCopyRule
    <3>3. a \in Nodes /\ b \in Nodes /\ a # b
      BY <1>1, PairMet
    <3> QED  BY <1>2, <3>1, <3>2, <3>3, ContactKeeps
  <2> QED  BY <1>1, <2>2 DEF DtnInv, SingleCopyRule
<1>4. T \in SUBSET Nat /\ Meetings(Pending', x, d) \in SUBSET Nat
  BY <1>2, MeetingTimes
<1>5. Promise(p) = Earliest(T) /\ Earliest(T) \in Nat
  BY <1>4, EarliestOf, PromiseOf
<1>6. p \in Ids(net, x)
  BY CarriersOf
<1>7. CASE net'.endAt[p] # 0
  <2>1. net'.endAt[p] =< now /\ net'.endAt[p] \in Nat
    BY <1>3, GoodFields DEF Good
  <2>2. now =< Earliest(T)
    <3>1. \A t \in T : now =< t
      BY <1>2 DEF Meetings
    <3>2. now =< exprEndAt + 1
      BY <1>1, <1>2, PendingContact, SlotAssumption
    <3> QED  BY <1>4, <3>1, <3>2, EarliestOf
  <2>3. net'.endAt[p] =< Promise(p)
    BY <1>2, <1>5, <2>1, <2>2
  <2> QED  BY <1>7, <2>3 DEF Delivered
<1>8. CASE net'.endAt[p] = 0
  <2>1. ~ Delivered(p)'
    BY <1>8 DEF Delivered
  <2>2. \/ p \in Ids(net', x) /\ {a, b} # {x, d}
        \/ \E y \in Nodes : {x, y} = {a, b} /\ p \in Ids(net', y) /\ d \in pref[x][y]
    <3>1. /\ a \in Nodes /\ b \in Nodes /\ a # b /\ pref[a][b] \cap pref[b][a] = {}
          /\ \E v : /\ Directed(net, v, a, b, now, "no_replica", pref)
                    /\ Directed(v, net', b, a, now, "no_replica", pref)
      BY FutureDirections
    <3> HIDE DEF a, b, now, pref
    <3>2. PICK v : /\ Directed(net, v, a, b, now, "no_replica", pref)
                   /\ Directed(v, net', b, a, now, "no_replica", pref)
      BY <3>1
    <3>3. Running /\ Good(net, now) /\ OneCopy(net) /\ x \in Nodes
      BY <1>2, <1>3, CarriersOf DEF now
    <3>4. MovedBy(net', a, b, pref, p, x)
      BY <1>6, <1>8, <3>1, <3>2, <3>3, ContactMove
    <3> QED  BY <3>4 DEF MovedBy
  <2>3. CASE p \in Ids(net', x) /\ {a, b} # {x, d}
    <3>1. Carriers(p)' = {x}
      BY <1>3, <2>3, OnlyCarrier
    <3>2. Meetings(Pending', x, d) = Meetings(Pending, x, d)
      BY <1>2, <2>3 DEF Meetings
    <3>3. Promise(p)' =< Promise(p)
      BY <1>1, <3>1, <3>2, PromiseStays
    <3> QED  BY <2>1, <3>3
  <2>4. ASSUME NEW y \in Nodes, {x, y} = {a, b}, p \in Ids(net', y), d \in pref[x][y]
        PROVE  Promise(p)' =< Promise(p)
    <3> DEFINE U == Meetings(Pending', y, d)
    <3>1. Promise(p)' = Earliest(U)
      BY <1>1, <1>3, <2>4, OnlyCarrier, PromiseOf
    <3>2. U \in SUBSET Nat /\ \A t \in U : t < exprEndAt
      BY <1>2, MeetingTimes
    <3>3. Earliest(U) \in Nat
      BY <3>2, EarliestOf
    <3>4. d # x /\ d # y
      BY <1>2, <1>3, <1>6, <2>4, StoredDst
    <3>5. ASSUME NEW t \in T  PROVE \E s \in U : s < t
      BY <1>1, <1>2, <2>4, <3>4, SoonerMeeting
    <3> HIDE DEF T, U, d, pref, a, b, now
    <3>6. CASE T = {}
      <4>1. Earliest(T) = exprEndAt + 1
        BY <3>6, EarliestOf
      <4>2. Earliest(U) =< exprEndAt + 1
        BY <3>2, <3>3, EarliestOf, SlotAssumption
      <4> QED  BY <1>5, <3>1, <4>1, <4>2
    <3>7. CASE T # {}
      <4>1. Earliest(T) \in T
        BY <1>4, <3>7, EarliestOf
      <4>2. PICK s \in U : s < Earliest(T)
        BY <3>5, <4>1
      <4>3. Earliest(U) =< s /\ s \in Nat
        BY <3>2, EarliestOf
      <4> QED  BY <1>5, <3>1, <3>3, <4>2, <4>3
    <3> QED  BY <3>6, <3>7
  <2> QED  BY <2>1, <2>2, <2>3, <2>4
<1> QED  BY <1>7, <1>8

(* The arrival of a package at its source leaves the others where they are.  *)
LEMMA RecvPromise ==
    ASSUME DtnInv, RecvPkg, config.oracle = "future",
           NEW p \in Pkgs, NEW x \in Nodes, Carriers(p) = {x}
    PROVE  ~ Delivered(p)' /\ Promise(p)' =< Promise(p)
<1>1. OneCopy(net) /\ p \in Ids(net, x) /\ net.endAt[p] = 0
  BY CarriersOf DEF DtnInv, SingleCopyRule, OneCopy
<1>2. PICK o \in Pkgs : /\ Absent(net, o)
                        /\ \A q \in Pkgs \ {o} :
                             /\ net'.endAt[q] = net.endAt[q]
                             /\ \A n \in Nodes : q \in Ids(net', n) => q \in Ids(net, n)
  BY RecvPkgStep
<1>3. p # o /\ p \in Ids(net', x)
  BY <1>1, <1>2, RecvPkgStep DEF Absent
<1>4. net'.endAt[p] = 0 /\ Carriers(p)' = {x}
  BY <1>1, <1>2, <1>3, CarriersOf DEF OneCopy
<1>5. pkgs' = pkgs /\ Pending' = Pending \ {NextEvent} /\ ~ IsContact(NextEvent)
  BY PickStep DEF RecvPkg, DtnInv
<1>6. Meetings(Pending', x, pkgs[p].dst) = Meetings(Pending, x, pkgs[p].dst)
  BY <1>5 DEF Meetings
<1>7. Promise(p)' =< Promise(p)
  BY <1>4, <1>5, <1>6, PromiseStays
<1> QED  BY <1>4, <1>7 DEF Delivered

(* With room everywhere and no two contacts at once, the future contacts     *)
(* oracle hands a package over only to a node that meets the destination     *)
(* sooner; the package is not lost, and it arrives by the time promised:     *)
(* FuturePass agrees with the queue about which contacts are still to come.  *)
THEOREM PromiseKeptHolds == Spec => PromiseKept
<1> DEFINE Kept ==
             config.oracle = "future" /\ config.bufSize = NONE /\ NoTwoAtOnce =>
                \A p \in Pkgs : phase = "run" /\ Carriers(p) # {} =>
                    IF Delivered(p)' THEN net'.endAt[p] =< Promise(p)
                                     ELSE Promise(p)' =< Promise(p)
<1>1. Init => ContactsQueued
  BY DEF Init, ContactsQueued
<1>2. DtnInv /\ ContactsQueued /\ [Next]_dtnVars => ContactsQueued'
  BY QueuedStep
<1>3. ASSUME DtnInv, ContactsQueued, Next  PROVE Kept
  <2> SUFFICES ASSUME config.oracle = "future", config.bufSize = NONE, NoTwoAtOnce,
                      NEW p \in Pkgs, phase = "run", Carriers(p) # {}
               PROVE  IF Delivered(p)' THEN net'.endAt[p] =< Promise(p)
                                       ELSE Promise(p)' =< Promise(p)
    OBVIOUS
  <2>1. OneCopy(net)
    BY <1>3 DEF DtnInv, SingleCopyRule
  <2>2. PICK x \in Nodes : p \in Ids(net, x)
    BY CarriersOf
  <2>3. Carriers(p) = {x} /\ net.endAt[p] = 0
    BY <2>1, <2>2, CarriersOf DEF OneCopy
  <2>4. CASE FutureContact
    BY <1>3, <2>3, <2>4, FuturePromise
  <2>5. CASE RecvPkg
    BY <1>3, <2>3, <2>5, RecvPromise
  <2>6. CASE LeaveLoop
    <3>1. UNCHANGED <<pkgs, net, eventSlots>>
      BY <2>6 DEF LeaveLoop
    <3>2. Pending' = Pending
      BY <3>1, QueueSame
    <3>3. Carriers(p)' = {x} /\ ~ Delivered(p)'
      BY <2>3, <3>1 DEF Carriers, Holds, Delivered
    <3>4. Promise(p)' =< Promise(p)
      BY <1>3, <2>3, <3>1, <3>2, <3>3, PromiseStays
    <3> QED  BY <3>3, <3>4
  <2>7. /\ ~ SetupOracle /\ ~ GenerateTraffic /\ ~ SetupTrafficEvents /\ ~ SetupCntEvents
        /\ ~ EpidemicContact /\ ~ BubbleContact /\ ~ MarkovContact /\ ~ AverageContact
        /\ ~ ZoomContact /\ ~ SimbetContact /\ ~ GlobalSocialContact
    BY DEF SetupOracle, GenerateTraffic, SetupTrafficEvents, SetupCntEvents, EpidemicContact,
           BubbleContact, MarkovContact, AverageContact, ZoomContact, SimbetContact,
           GlobalSocialContact, Contact
  <2> QED  BY <1>3, <2>4, <2>5, <2>6, <2>7 DEF Next
<1>4. DtnInv /\ ContactsQueued /\ [Next]_dtnVars => [Kept]_dtnVars
  BY <1>3
<1> QED  BY <1>1, <1>2, <1>4, DtnInvHolds, PTL DEF Spec, PromiseKept

-----------------------------------------------------------------------------
(* Flooding.                                                                *)

(* One direction of an epidemic contact, with room everywhere.               *)
LEMMA EpidemicOneWay ==
    ASSUME Running, config.bufSize = NONE, NEW w, NEW now \in Nat \ {0}, Good(w, now),
           NEW a \in Nodes, NEW b \in Nodes, a # b,
           NEW v, v = EpidemicPass(w, a, b, now), NEW p \in Pkgs
    PROVE  /\ Good(v, now)
           /\ \/ v.endAt[p] = w.endAt[p]
              \/ w.endAt[p] = 0 /\ v.endAt[p] = now /\ pkgs[p].dst = b /\ p \in Ids(w, a)
           /\ v.endAt[p] = 0 =>
                /\ \A m \in Nodes : p \in Ids(w, m) => p \in Ids(v, m)
                /\ p \in Ids(w, a) => p \in Ids(v, b)
           /\ \A m \in Nodes : p \in Ids(v, m) => p \in Ids(w, m) \/ (m = b /\ p \in Ids(w, a))
<1> DEFINE n == Len(w.stored[a])
           sent == SentIds(w, a, Nat, n)
<1>1. PassResult(w, v, a, b, now, "everbest", Nat)
  BY EpidemicResult
<1>2. /\ Good(v, now) /\ Delivers(w, v, a, b) /\ Moves(w, v, a, b, "everbest")
      /\ Loses(w, v, a, b, "everbest") /\ Arrives(w, v, a, b, Nat, n)
      /\ Floods(w, v, a, b, now, Nat, n)
  BY <1>1 DEF PassResult, PassInv
<1>3. sent = Ids(w, a)
  <2>1. w.stored[a] \in Seq(Copy)
    BY GoodFields DEF Good
  <2>2. DOMAIN w.stored[a] = 1 .. n /\ Nat \cap (1 .. n) = 1 .. n
    BY <2>1
  <2> QED  BY <2>2 DEF SentIds, Ids
<1>4. \/ v.endAt[p] = w.endAt[p]
      \/ w.endAt[p] = 0 /\ v.endAt[p] = now /\ pkgs[p].dst = b /\ p \in Ids(w, a)
  BY <1>2 DEF Delivers, Floods
<1>5. ASSUME v.endAt[p] = 0, NEW m \in Nodes, p \in Ids(w, m)  PROVE p \in Ids(v, m)
  <2>1. CASE m = a
    BY <1>2, <1>5, <2>1 DEF Loses
  <2>2. CASE m # a
    BY <1>2, <1>5, <2>2 DEF Moves
  <2> QED  BY <2>1, <2>2
<1>6. ASSUME v.endAt[p] = 0, p \in Ids(w, a)  PROVE p \in Ids(v, b)
  <2>1. pkgs[p].dst # b
    BY <1>2, <1>3, <1>6 DEF Arrives
  <2> QED  BY <1>2, <1>3, <1>6, <2>1 DEF Floods
<1>7. ASSUME NEW m \in Nodes, p \in Ids(v, m)
      PROVE  p \in Ids(w, m) \/ (m = b /\ p \in Ids(w, a))
  BY <1>2, <1>7 DEF Moves
<1> QED  BY <1>2, <1>4, <1>5, <1>6, <1>7

(* What a contact does to a package under the epidemic oracle: a package that *)
(* a or b carries is delivered or gets to both, and nobody else gets it.      *)
Flooded(w, u, a, b, now, p) ==
    /\ \/ u.endAt[p] = w.endAt[p]
       \/ /\ w.endAt[p] = 0 /\ u.endAt[p] = now
          /\ pkgs[p].dst \in {a, b} /\ p \in Ids(w, a) \cup Ids(w, b)
    /\ u.endAt[p] = 0 =>
         /\ \A m \in Nodes : p \in Ids(w, m) => p \in Ids(u, m)
         /\ p \in Ids(w, a) \cup Ids(w, b) => p \in Ids(u, a) \cap Ids(u, b)
    /\ \A m \in Nodes : p \in Ids(u, m) =>
         p \in Ids(w, m) \/ (m \in {a, b} /\ p \in Ids(w, a) \cup Ids(w, b))

LEMMA EpidemicFloods ==
    ASSUME Running, config.bufSize = NONE, NEW w, NEW now \in Nat \ {0}, Good(w, now),
           NEW a \in Nodes, NEW b \in Nodes, a # b, NEW v, v = EpidemicPass(w, a, b, now),
           NEW u, u = EpidemicPass(v, b, a, now), NEW p \in Pkgs
    PROVE  Flooded(w, u, a, b, now, p)
<1>1. /\ Good(v, now)
      /\ \/ v.endAt[p] = w.endAt[p]
         \/ w.endAt[p] = 0 /\ v.endAt[p] = now /\ pkgs[p].dst = b /\ p \in Ids(w, a)
      /\ v.endAt[p] = 0 =>
           /\ \A m \in Nodes : p \in Ids(w, m) => p \in Ids(v, m)
           /\ p \in Ids(w, a) => p \in Ids(v, b)
      /\ \A m \in Nodes : p \in Ids(v, m) => p \in Ids(w, m) \/ (m = b /\ p \in Ids(w, a))
  BY EpidemicOneWay
<1>2. /\ \/ u.endAt[p] = v.endAt[p]
         \/ v.endAt[p] = 0 /\ u.endAt[p] = now /\ pkgs[p].dst = a /\ p \in Ids(v, b)
      /\ u.endAt[p] = 0 =>
           /\ \A m \in Nodes : p \in Ids(v, m) => p \in Ids(u, m)
           /\ p \in Ids(v, b) => p \in Ids(u, a)
      /\ \A m \in Nodes : p \in Ids(u, m) => p \in Ids(v, m) \/ (m = a /\ p \in Ids(v, b))
  BY <1>1, EpidemicOneWay
<1>3. p \in Ids(v, b) => p \in Ids(w, a) \cup Ids(w, b)
  BY <1>1
<1>4. \/ u.endAt[p] = w.endAt[p]
      \/ /\ w.endAt[p] = 0 /\ u.endAt[p] = now
         /\ pkgs[p].dst \in {a, b} /\ p \in Ids(w, a) \cup Ids(w, b)
  BY <1>1, <1>2, <1>3
<1>5. u.endAt[p] = 0 => v.endAt[p] = 0
  BY <1>2
<1>6. ASSUME u.endAt[p] = 0
      PROVE  /\ \A m \in Nodes : p \in Ids(w, m) => p \in Ids(u, m)
             /\ p \in Ids(w, a) \cup Ids(w, b) => p \in Ids(u, a) \cap Ids(u, b)
  BY <1>1, <1>2, <1>5, <1>6
<1>7. \A m \in Nodes : p \in Ids(u, m) =>
         p \in Ids(w, m) \/ (m \in {a, b} /\ p \in Ids(w, a) \cup Ids(w, b))
  BY <1>1, <1>2, <1>3
<1> QED  BY <1>4, <1>6, <1>7 DEF Flooded

-----------------------------------------------------------------------------
(* Foremost journeys.                                                       *)

(* The recursion of ReachedBy: who has the package before the contacts at t,  *)
(* the contacts at t of those, and who has it after them.                     *)
HadBy(F, p, t) == F[t - 1] \cup (IF pkgs[p].startAt = t THEN {pkgs[p].src} ELSE {})

MetBy(F, p, t) == {c \in Scanned : c.startAt = t /\ Range(c.pair) \cap HadBy(F, p, t) # {}}

ReachStep(F, p, t) ==
    IF t < exprStartAt THEN {}
    ELSE HadBy(F, p, t) \cup UNION {Range(c.pair) : c \in MetBy(F, p, t)}

Had(p, t) == HadBy(ReachedBy(p), p, t)

LEMMA ReachedByIs ==
    ASSUME NEW p
    PROVE  /\ ReachedBy(p)[exprStartAt - 1] = {}
           /\ \A t \in exprStartAt .. exprEndAt :
                ReachedBy(p)[t] = Had(p, t) \cup UNION {Range(c.pair) : c \in
                    {x \in Scanned : x.startAt = t /\ Range(x.pair) \cap Had(p, t) # {}}}
<1> DEFINE D == (exprStartAt - 1) .. exprEndAt
           n == exprEndAt - exprStartAt + 1
           Eq(f) == f = [t \in D |-> ReachStep(f, p, t)]
           H == CHOOSE f : Eq(f)
           Q(F, k) == /\ F = [t \in D |-> F[t]]
                      /\ \A t \in D : t =< exprStartAt - 1 + k => F[t] = ReachStep(F, p, t)
           T == {k \in 0 .. n : \E F : Q(F, k)}
<1>1. ReachedBy(p) = H
  BY DEF ReachedBy, ReachStep, HadBy, MetBy
<1>2. exprStartAt \in Nat /\ exprEndAt \in Nat /\ exprStartAt =< exprEndAt /\ n \in Nat
  BY SlotAssumption
<1>3. 0 \in T
  <2> DEFINE F == [t \in D |-> {}]
  <2>1. \A t \in D : F[t] = {}
    OBVIOUS
  <2>2. F = [t \in D |-> F[t]]
    OBVIOUS
  <2>3. \A t \in D : t =< exprStartAt - 1 + 0 => t < exprStartAt
    BY <1>2
  <2> HIDE DEF F
  <2>4. Q(F, 0)
    BY <2>1, <2>2, <2>3 DEF ReachStep
  <2> QED  BY <1>2, <2>4
<1>4. ASSUME NEW k \in 0 .. n - 1, k \in T  PROVE k + 1 \in T
  <2>1. PICK F : Q(F, k)
    BY <1>4
  <2> DEFINE G == [t \in D |-> ReachStep(F, p, t)]
  <2>2. /\ \A t \in D : G[t] = ReachStep(F, p, t)
        /\ G = [t \in D |-> G[t]]
    OBVIOUS
  <2> HIDE DEF G
  <2>3. ASSUME NEW t \in D, t =< exprStartAt - 1 + (k + 1)  PROVE G[t] = ReachStep(G, p, t)
    <3>1. CASE t < exprStartAt
      BY <2>2, <3>1 DEF ReachStep
    <3>2. CASE ~ (t < exprStartAt)
      <4>1. t - 1 \in D /\ t - 1 =< exprStartAt - 1 + k
        BY <1>2, <2>3, <3>2
      <4>2. F[t - 1] = G[t - 1]
        BY <2>1, <2>2, <4>1
      <4>3. ReachStep(F, p, t) = ReachStep(G, p, t)
        BY <4>2 DEF ReachStep, HadBy, MetBy
      <4> QED  BY <2>2, <4>3
    <3> QED  BY <3>1, <3>2
  <2>4. Q(G, k + 1)
    BY <2>2, <2>3
  <2>5. k + 1 \in 0 .. n
    BY <1>2
  <2> QED  BY <2>4, <2>5
<1>5. n \in T
  <2> HIDE DEF T, n
  <2>1. \A k \in 0 .. n : k \in T
    BY <1>2, <1>3, <1>4, UpTo
  <2> QED  BY <1>2, <2>1
<1>6. \E f : Eq(f)
  <2>1. PICK F : Q(F, n)
    BY <1>5
  <2>2. \A t \in D : t =< exprStartAt - 1 + n
    BY <1>2
  <2>3. \A t \in D : F[t] = ReachStep(F, p, t)
    BY <2>1, <2>2
  <2>4. F = [t \in D |-> ReachStep(F, p, t)]
    BY <2>1, <2>3
  <2> QED  BY <2>4
<1>7. Eq(H)
  <2> HIDE DEF Eq
  <2> QED  BY <1>6
<1> HIDE DEF H
<1>8. \A t \in D : H[t] = ReachStep(H, p, t)
  BY <1>7
<1>9. exprStartAt - 1 \in D /\ exprStartAt - 1 < exprStartAt
  BY <1>2
<1>10. H[exprStartAt - 1] = {}
  BY <1>8, <1>9 DEF ReachStep
<1>11. ASSUME NEW t \in exprStartAt .. exprEndAt
       PROVE  H[t] = HadBy(H, p, t) \cup UNION {Range(c.pair) : c \in MetBy(H, p, t)}
  <2>1. t \in D /\ ~ (t < exprStartAt)
    BY <1>2
  <2> QED  BY <1>8, <2>1 DEF ReachStep
<1> QED  BY <1>1, <1>10, <1>11 DEF Had, MetBy

(* Nobody loses a package in that reckoning.                                 *)
LEMMA HadThenReached ==
    ASSUME NEW p, NEW t \in exprStartAt .. exprEndAt
    PROVE  ReachedBy(p)[t - 1] \subseteq Had(p, t) /\ Had(p, t) \subseteq ReachedBy(p)[t]
<1>1. Had(p, t) \subseteq ReachedBy(p)[t]
  BY ReachedByIs
<1>2. ReachedBy(p)[t - 1] \subseteq Had(p, t)
  BY DEF Had, HadBy
<1> QED  BY <1>1, <1>2

LEMMA ReachedGrows ==
    ASSUME NEW p, NEW s \in exprStartAt .. exprEndAt, NEW t \in exprStartAt .. exprEndAt, s =< t
    PROVE  ReachedBy(p)[s] \subseteq ReachedBy(p)[t]
<1> DEFINE R == ReachedBy(p)
           n == t - s
           T == {k \in 0 .. n : R[s] \subseteq R[s + k]}
<1>1. exprStartAt \in Nat /\ exprEndAt \in Nat /\ n \in Nat
  BY SlotAssumption
<1>2. \A x \in exprStartAt .. exprEndAt : R[x - 1] \subseteq R[x]
  BY HadThenReached
<1> HIDE DEF R
<1>3. 0 \in T
  BY <1>1
<1>4. ASSUME NEW k \in 0 .. n - 1, k \in T  PROVE k + 1 \in T
  <2>1. s + (k + 1) \in exprStartAt .. exprEndAt /\ (s + (k + 1)) - 1 = s + k /\ k + 1 \in 0 .. n
    BY <1>1
  <2>2. R[s + k] \subseteq R[s + (k + 1)]
    BY <1>2, <2>1
  <2> QED  BY <1>4, <2>1, <2>2
<1>5. n \in T
  <2> HIDE DEF T, n
  <2>1. \A k \in 0 .. n : k \in T
    BY <1>1, <1>3, <1>4, UpTo
  <2> QED  BY <1>1, <2>1
<1> QED  BY <1>1, <1>5 DEF R

LEMMA HadGrows ==
    ASSUME NEW p, NEW s \in exprStartAt .. exprEndAt, NEW t \in exprStartAt .. exprEndAt, s =< t
    PROVE  Had(p, s) \subseteq Had(p, t) /\ (s < t => ReachedBy(p)[s] \subseteq Had(p, t))
<1>1. ASSUME s < t  PROVE ReachedBy(p)[s] \subseteq Had(p, t)
  <2>1. t - 1 \in exprStartAt .. exprEndAt /\ s =< t - 1
    BY <1>1, SlotAssumption
  <2>2. ReachedBy(p)[s] \subseteq ReachedBy(p)[t - 1]
    BY <2>1, ReachedGrows
  <2>3. ReachedBy(p)[t - 1] \subseteq Had(p, t)
    BY HadThenReached
  <2> QED  BY <2>2, <2>3
<1>2. Had(p, s) \subseteq ReachedBy(p)[s]
  BY HadThenReached
<1>3. s = t \/ s < t
  BY SlotAssumption
<1> QED  BY <1>1, <1>2, <1>3

(* The contact, or the arrival at its source, is still in the queue.         *)
ContactToCome(c) ==
    \E e \in Pending : IsContact(e) /\ e.pair = c.pair /\ e.timestamp = c.startAt

ArrivalToCome(p) == \E e \in Pending : ~ IsContact(e) /\ e.pkg = p

(* Not delivered, and with everybody it should be with by now.               *)
Spread(p) ==
    /\ ~ Delivered(p)
    /\ \A c \in Scanned :
         ~ ContactToCome(c) /\ Range(c.pair) \cap Had(p, c.startAt) # {}
           => Range(c.pair) \subseteq Carriers(p)
    /\ whichslot(pkgs[p].startAt) \in ScannedSlots /\ ~ ArrivalToCome(p)
         => pkgs[p].src \in Carriers(p)

(* Delivered as early as can be.                                            *)
Early(p) ==
    /\ Delivered(p)
    /\ \A t \in exprStartAt .. exprEndAt :
         pkgs[p].dst \in ReachedBy(p)[t] => net.endAt[p] =< t

(* Once every contact up to t has been, whoever can have the package has it. *)
LEMMA SpreadReaches ==
    ASSUME NEW p, Spread(p), pkgs[p].startAt \in Nat,
           NEW t \in exprStartAt - 1 .. exprEndAt,
           \A e \in Pending : e.timestamp \in Nat /\ e.timestamp > t
    PROVE  ReachedBy(p)[t] \subseteq
             Carriers(p) \cup (IF pkgs[p].startAt =< t THEN {pkgs[p].src} ELSE {})
<1> DEFINE R == ReachedBy(p)
           s0 == exprStartAt - 1
           n == t - s0
           Own(x) == IF pkgs[p].startAt =< x THEN {pkgs[p].src} ELSE {}
           T == {k \in 0 .. n : R[s0 + k] \subseteq Carriers(p) \cup Own(s0 + k)}
<1>1. exprStartAt \in Nat /\ exprEndAt \in Nat /\ n \in Nat /\ s0 \in Int
  BY SlotAssumption
<1>2. 0 \in T
  BY <1>1, ReachedByIs
<1>3. ASSUME NEW k \in 0 .. n - 1, k \in T  PROVE k + 1 \in T
  <2> DEFINE x == s0 + (k + 1)
  <2>1. x \in exprStartAt .. exprEndAt /\ x - 1 = s0 + k /\ k + 1 \in 0 .. n /\ x =< t
    BY <1>1
  <2>2. R[x] = Had(p, x) \cup UNION {Range(c.pair) : c \in
                 {y \in Scanned : y.startAt = x /\ Range(y.pair) \cap Had(p, x) # {}}}
    BY <2>1, ReachedByIs
  <2> HIDE DEF x
  <2>3. Had(p, x) = R[x - 1] \cup (IF pkgs[p].startAt = x THEN {pkgs[p].src} ELSE {})
    BY DEF Had, HadBy
  <2>4. Had(p, x) \subseteq Carriers(p) \cup Own(x)
    <3>1. R[x - 1] \subseteq Carriers(p) \cup Own(x - 1)
      BY <1>3, <2>1
    <3>2. Own(x - 1) \subseteq Own(x) /\ (pkgs[p].startAt = x => Own(x) = {pkgs[p].src})
      BY <2>1
    <3> HIDE DEF Own, R
    <3> QED  BY <2>3, <3>1, <3>2
  <2>5. ASSUME NEW c \in Scanned, c.startAt = x, Range(c.pair) \cap Had(p, x) # {}
        PROVE  Range(c.pair) \subseteq Carriers(p)
    <3>1. ~ ContactToCome(c)
      BY <2>1, <2>5 DEF ContactToCome
    <3> QED  BY <2>5, <3>1 DEF Spread
  <2> HIDE DEF R, Own
  <2>6. R[x] \subseteq Carriers(p) \cup Own(x)
    BY <2>2, <2>4, <2>5
  <2> QED  BY <2>1, <2>6 DEF x
<1>4. n \in T
  <2> HIDE DEF T, n
  <2>1. \A k \in 0 .. n : k \in T
    BY <1>1, <1>2, <1>3, UpTo
  <2> QED  BY <1>1, <2>1
<1>5. s0 + n = t
  BY <1>1
<1> HIDE DEF R, s0, n
<1>6. R[t] \subseteq Carriers(p) \cup Own(t)
  BY <1>4, <1>5
<1> QED  BY <1>6 DEF R

(* The reckoning rests on the contacts and the packages alone.               *)
LEMMA SameReckoning ==
    ASSUME UNCHANGED <<pkgs, contacts>>
    PROVE  /\ Scanned' = Scanned /\ (NoTwoAtOnce <=> NoTwoAtOnce')
           /\ \A p : ReachedBy(p)' = ReachedBy(p)
           /\ \A p, t : Had(p, t)' = Had(p, t)
<1>1. Scanned' = Scanned
  BY DEF Scanned, ScannedSlots, SlotCount, whichslot
<1>2. NoTwoAtOnce <=> NoTwoAtOnce'
  BY <1>1 DEF NoTwoAtOnce
<1>3. ASSUME NEW p  PROVE ReachedBy(p)' = ReachedBy(p)
  BY <1>1 DEF ReachedBy
<1>4. \A p, t : Had(p, t)' = Had(p, t)
  BY <1>3 DEF Had, HadBy
<1> QED  BY <1>1, <1>2, <1>3, <1>4

(* The tie order survives the loop, and every arrival that is still to come  *)
(* at a contact is later than it.                                           *)
LEMMA LoopQueueSame ==
    ASSUME LoopQueue, UNCHANGED <<config, contacts>>,
           EventsIn(AllocatedSlots)' \subseteq EventsIn(AllocatedSlots),
           QueueTies(eventSlots', ContactKind)
    PROVE  LoopQueue'
<1>1. \A c : CntEvent(c, FirstMeeting(c))' = CntEvent(c, FirstMeeting(c))
  BY DEF FirstMeeting, CntEvent
<1>2. \A e \in EventsIn(AllocatedSlots)' : IsContact(e) =>
         \E c \in contacts : e = CntEvent(c, FirstMeeting(c))
  BY DEF LoopQueue
<1>3. \A e \in EventsIn(AllocatedSlots)' : IsContact(e)' =>
         \E c \in contacts' : e = CntEvent(c, FirstMeeting(c))'
  BY <1>1, <1>2 DEF IsContact
<1>4. QueueTies(eventSlots, ContactKind)'
  BY DEF QueueTies, TiesBehind, ContactKind, IsContact, AllocatedSlots, SlotCount
<1> QED  BY <1>3, <1>4 DEF LoopQueue

LEMMA LoopQueueStep ==
    ASSUME DtnInv, LoopQueue, phase = "run", PickEvent, UNCHANGED <<config, contacts>>
    PROVE  /\ LoopQueue'
           /\ IsContact(NextEvent) =>
                \A g \in Pending : ~ IsContact(g) => NextEvent.timestamp < g.timestamp
<1>1. /\ QueueTies(eventSlots', ContactKind)
      /\ NextEvent \in ContactKind =>
           \A g \in Pending \ ContactKind : NextEvent.timestamp < g.timestamp
  BY PickTies DEF DtnInv, LoopQueue
<1>2. EventsIn(AllocatedSlots)' \subseteq EventsIn(AllocatedSlots) /\ NextEvent \in Event
  BY PickStep DEF DtnInv
<1>3. LoopQueue'
  BY <1>1, <1>2, LoopQueueSame
<1> QED  BY <1>1, <1>2, <1>3 DEF ContactKind

(* One event for each contact: with no two contacts at once, the contact of  *)
(* another event is at another time.                                        *)
LEMMA OneEvent ==
    ASSUME DtnInv, LoopQueue, NoTwoAtOnce, NEW e \in Pending, NEW f \in Pending,
           IsContact(e), IsContact(f), e.timestamp = f.timestamp
    PROVE  e = f
<1>1. e \in EventsIn(AllocatedSlots) /\ f \in EventsIn(AllocatedSlots)
  BY PendingAllocated DEF DtnInv
<1>2. PICK c \in contacts : e = CntEvent(c, FirstMeeting(c))
  BY <1>1 DEF LoopQueue
<1>3. PICK d \in contacts : f = CntEvent(d, FirstMeeting(d))
  BY <1>1 DEF LoopQueue
<1>4. PICK x \in Scanned : e.pair = x.pair /\ e.timestamp = x.startAt
  BY PendingContact
<1>5. PICK y \in Scanned : f.pair = y.pair /\ f.timestamp = y.startAt
  BY PendingContact
<1>6. x = y
  BY <1>4, <1>5 DEF NoTwoAtOnce
<1>7. \A z, first : /\ CntEvent(z, first).pair = z.pair
                     /\ CntEvent(z, first).timestamp = z.startAt
  BY DEF CntEvent
<1>8. c.pair = d.pair /\ c.startAt = d.startAt
  BY <1>2, <1>3, <1>4, <1>5, <1>6, <1>7
<1>9. FirstMeeting(c) = FirstMeeting(d)
  BY <1>8 DEF FirstMeeting
<1> QED  BY <1>2, <1>3, <1>8, <1>9 DEF CntEvent

(* An arrival that is still to come is at the start of its package.          *)
LEMMA PendingArrival ==
    ASSUME DtnInv, NEW e \in Pending, ~ IsContact(e)
    PROVE  e.pkg \in Pkgs /\ e.timestamp = pkgs[e.pkg].startAt /\ Absent(net, e.pkg)
<1>1. e \in EventsIn(AllocatedSlots)
  BY PendingAllocated DEF DtnInv
<1>2. Arrival(e)
  BY <1>1, KindOfEvent DEF DtnInv, EventsInv, ContactEvent
<1> QED  BY <1>2, KindOfEvent DEF Arrival

-----------------------------------------------------------------------------
(* The invariant of a flooding run.                                         *)

Flooding ==
    config.oracle = "epidemic" /\ config.bufSize = NONE /\ phase \in {"run", "done"}

(* Nobody carries the package who cannot have it by the next contact, and it *)
(* is not delivered before it can be.                                       *)
InTime(p) ==
    /\ \A e \in Pending : IsContact(e) => Carriers(p) \subseteq Had(p, e.timestamp)
    /\ Delivered(p) =>
         /\ net.endAt[p] \in exprStartAt .. exprEndAt
         /\ pkgs[p].dst \in ReachedBy(p)[net.endAt[p]]

FloodInv ==
    /\ phase = "contacts" => ArrivalsQueued
    /\ phase \notin {"oracle", "traffic"} => \A p \in Pkgs : pkgs[p].src # pkgs[p].dst
    /\ phase \in {"run", "done"} => LoopQueue
    /\ phase = "done" => Pending = {}
    /\ Flooding => \A p \in Pkgs : Early(p) \/ Spread(p)
    /\ Flooding /\ NoTwoAtOnce => \A p \in Pkgs : InTime(p)

(* The packages of a run.                                                   *)
LEMMA PackageOf ==
    ASSUME DtnInv, FloodInv, phase \notin {"oracle", "traffic"}, NEW p \in Pkgs
    PROVE  /\ pkgs[p].src \in Nodes /\ pkgs[p].dst \in Nodes /\ pkgs[p].src # pkgs[p].dst
           /\ pkgs[p].startAt \in Nat /\ pkgs[p].startAt >= exprStartAt
<1>1. Running /\ pkgs \in Traffics
  BY RunningNow DEF DtnInv, DtnTypes
<1>2. InRange(RecvEvent(pkgs[p].startAt, p, NONE))
  BY <1>1, ArrivalsInRange
<1>3. pkgs[p].startAt >= exprStartAt
  BY <1>2 DEF InRange, RecvEvent
<1> QED  BY <1>1, <1>3 DEF Running, PkgsOK, FloodInv

(* What an epidemic contact finds and does.                                 *)
LEMMA EpidemicFinds ==
    ASSUME DtnInv, FloodInv, EpidemicContact, config.bufSize = NONE, NEW p \in Pkgs
    PROVE  \E a \in Nodes, b \in Nodes, now \in exprStartAt .. exprEndAt :
             /\ Running /\ Good(net, now) /\ now = clock' /\ now = NextEvent.timestamp
             /\ Flooded(net, net', a, b, now, p) /\ Range(NextEvent.pair) = {a, b}
             /\ pkgs' = pkgs /\ contacts' = contacts /\ IsContact(NextEvent)
             /\ NextEvent \in Pending /\ Pending' = Pending \ {NextEvent}
             /\ \A g \in Pending : g.timestamp \in Nat /\ now =< g.timestamp
             /\ \A g \in Pending : ~ IsContact(g) => now < g.timestamp
             /\ \E c \in Scanned : NextEvent.pair = c.pair /\ c.startAt = now
<1> DEFINE q == NextEvent.pair
           a == q[1]
           b == q[2]
           now == clock'
<1>1. /\ phase = "run" /\ PickEvent /\ IsContact(NextEvent)
      /\ UNCHANGED <<phase, config, contacts, pkgs>>
  BY DEF EpidemicContact, Contact
<1>2. PICK v : v = EpidemicPass(net, a, b, now) /\ net' = EpidemicPass(v, b, a, now)
  BY DEF EpidemicContact
<1>3. a \in Nodes /\ b \in Nodes /\ a # b /\ Range(q) = {a, b}
  BY <1>1, PairMet
<1>4. Running /\ now \in Nat \ {0} /\ Good(net, now) /\ now = NextEvent.timestamp
  BY <1>1, EventPicked
<1>5. /\ NextEvent \in Pending /\ Pending' = Pending \ {NextEvent}
      /\ \A g \in Pending : now =< g.timestamp
  BY <1>1, <1>4, PickStep DEF DtnInv
<1>6. \A g \in Pending : g.timestamp \in Nat
  BY PendingAllocated, SlotAssumption DEF DtnInv
<1>7. \A g \in Pending : ~ IsContact(g) => now < g.timestamp
  BY <1>1, <1>4, LoopQueueStep DEF FloodInv
<1>8. PICK c \in Scanned : /\ NextEvent.pair = c.pair /\ c.startAt = now
                           /\ now >= exprStartAt /\ now < exprEndAt
  BY <1>1, <1>4, <1>5, PendingContact
<1>9. now \in exprStartAt .. exprEndAt
  BY <1>4, <1>8, SlotAssumption
<1> HIDE DEF a, b, now
<1>10. Flooded(net, net', a, b, now, p)
  BY <1>2, <1>3, <1>4, EpidemicFloods
<1> QED  BY <1>1, <1>3, <1>4, <1>5, <1>6, <1>7, <1>8, <1>9, <1>10 DEF now, q

LEMMA SpreadContact ==
    ASSUME DtnInv, FloodInv, EpidemicContact, config.bufSize = NONE, NEW p \in Pkgs, Spread(p)
    PROVE  Early(p)' \/ Spread(p)'
<1>1. PICK a \in Nodes, b \in Nodes, now \in exprStartAt .. exprEndAt :
             /\ Running /\ Good(net, now) /\ now = clock' /\ now = NextEvent.timestamp
             /\ Flooded(net, net', a, b, now, p) /\ Range(NextEvent.pair) = {a, b}
             /\ pkgs' = pkgs /\ contacts' = contacts /\ IsContact(NextEvent)
             /\ NextEvent \in Pending /\ Pending' = Pending \ {NextEvent}
             /\ \A g \in Pending : g.timestamp \in Nat /\ now =< g.timestamp
             /\ \A g \in Pending : ~ IsContact(g) => now < g.timestamp
             /\ \E c \in Scanned : NextEvent.pair = c.pair /\ c.startAt = now
  BY EpidemicFinds
<1>2. /\ Scanned' = Scanned
      /\ \A t : Had(p, t)' = Had(p, t)
      /\ ReachedBy(p)' = ReachedBy(p)
  BY <1>1, SameReckoning
<1>3. now \in Nat /\ exprStartAt \in Nat /\ exprStartAt =< now /\ now =< exprEndAt /\ exprEndAt \in Nat
  BY SlotAssumption
<1>4. /\ pkgs[p].startAt \in Nat /\ pkgs[p].startAt >= exprStartAt
      /\ pkgs[p].src # pkgs[p].dst
  BY PackageOf DEF EpidemicContact, Contact
<1>5. net.endAt[p] = 0
  BY DEF Spread, Delivered
<1>6. ASSUME NEW t \in exprStartAt - 1 .. exprEndAt, t < now
      PROVE  ReachedBy(p)[t] \subseteq
               Carriers(p) \cup (IF pkgs[p].startAt =< t THEN {pkgs[p].src} ELSE {})
  <2>1. \A e \in Pending : e.timestamp \in Nat /\ e.timestamp > t
    BY <1>1, <1>3, <1>6
  <2> QED  BY <1>4, <2>1, SpreadReaches
<1>7. CASE net'.endAt[p] # 0
  <2>1. net'.endAt[p] = now
    BY <1>1, <1>5, <1>7 DEF Flooded
  <2>2. ASSUME NEW t \in exprStartAt .. exprEndAt, pkgs[p].dst \in ReachedBy(p)[t]
        PROVE  now =< t
    <3>1. SUFFICES ASSUME t < now  PROVE FALSE
      BY <1>3
    <3>2. pkgs[p].dst \in Carriers(p) \cup {pkgs[p].src}
      BY <1>3, <1>6, <2>2, <3>1
    <3>3. pkgs[p].dst \in Carriers(p)
      BY <1>4, <3>2
    <3> QED  BY <1>1, <3>3, CarriersOf, StoredDst
  <2> QED  BY <1>1, <1>2, <1>7, <2>1, <2>2 DEF Early, Delivered
<1>8. CASE net'.endAt[p] = 0
  <2>1. /\ Carriers(p) \subseteq Carriers(p)'
        /\ Carriers(p) \cap {a, b} # {} => {a, b} \subseteq Carriers(p)'
    BY <1>1, <1>8, CarriersOf DEF Flooded
  <2>2. ArrivalToCome(p) => ArrivalToCome(p)'
    BY <1>1 DEF ArrivalToCome, IsContact
  <2>3. ASSUME whichslot(pkgs[p].startAt) \in ScannedSlots, ~ ArrivalToCome(p)
        PROVE  pkgs[p].src \in Carriers(p)
    BY <2>3 DEF Spread
  <2>4. pkgs[p].startAt =< now => pkgs[p].src \in Carriers(p)
    <3> SUFFICES ASSUME pkgs[p].startAt =< now  PROVE pkgs[p].src \in Carriers(p)
      OBVIOUS
    <3>1. whichslot(pkgs[p].startAt) \in ScannedSlots
      <4>1. whichslot(now) \in ScannedSlots
        BY <1>1 DEF Scanned
      <4> QED  BY <1>3, <1>4, <4>1, ScannedTimes
    <3>2. ~ ArrivalToCome(p)
      <4> SUFFICES ASSUME NEW e \in Pending, ~ IsContact(e), e.pkg = p  PROVE FALSE
        BY DEF ArrivalToCome
      <4>1. e.timestamp = pkgs[p].startAt
        BY PendingArrival
      <4> QED  BY <1>1, <1>3, <1>4, <4>1
    <3> QED  BY <2>3, <3>1, <3>2
  <2>5. ASSUME NEW c \in Scanned, ~ ContactToCome(c)', Range(c.pair) \cap Had(p, c.startAt) # {}
        PROVE  Range(c.pair) \subseteq Carriers(p)'
    <3>1. CASE ~ ContactToCome(c)
      BY <2>1, <2>5, <3>1 DEF Spread
    <3>2. CASE ContactToCome(c)
      <4>1. Range(c.pair) = {a, b} /\ c.startAt = now
        <5>1. PICK e \in Pending : IsContact(e) /\ e.pair = c.pair /\ e.timestamp = c.startAt
          BY <3>2 DEF ContactToCome
        <5>2. e = NextEvent
          BY <1>1, <2>5, <5>1 DEF ContactToCome, IsContact
        <5> QED  BY <1>1, <5>1, <5>2
      <4>2. PICK x \in {a, b} : x \in Had(p, now)
        BY <2>5, <4>1
      <4>3. x \in ReachedBy(p)[now - 1] \/ (x = pkgs[p].src /\ pkgs[p].startAt = now)
        BY <4>2 DEF Had, HadBy
      <4>4. x \in Carriers(p) \/ (x = pkgs[p].src /\ pkgs[p].startAt =< now)
        <5>1. now - 1 \in exprStartAt - 1 .. exprEndAt /\ now - 1 < now
          BY <1>3
        <5>2. ReachedBy(p)[now - 1] \subseteq
                Carriers(p) \cup (IF pkgs[p].startAt =< now - 1 THEN {pkgs[p].src} ELSE {})
          BY <1>6, <5>1
        <5>3. pkgs[p].startAt =< now - 1 \/ pkgs[p].startAt = now => pkgs[p].startAt =< now
          BY <1>3, <1>4
        <5> QED  BY <4>3, <5>2, <5>3
      <4>5. x \in Carriers(p)
        BY <2>4, <4>4
      <4> QED  BY <2>1, <4>1, <4>5
    <3> QED  BY <3>1, <3>2
  <2>6. whichslot(pkgs[p].startAt) \in ScannedSlots /\ ~ ArrivalToCome(p)' => pkgs[p].src \in Carriers(p)'
    BY <2>1, <2>2, <2>3
  <2>7. \A c \in Scanned' : ~ ContactToCome(c)' /\ Range(c.pair) \cap Had(p, c.startAt)' # {}
           => Range(c.pair) \subseteq Carriers(p)'
    BY <1>2, <2>5
  <2>8. /\ (whichslot(pkgs[p].startAt) \in ScannedSlots)' <=> whichslot(pkgs[p].startAt) \in ScannedSlots
        /\ (pkgs[p].src)' = pkgs[p].src
    BY <1>1 DEF whichslot, ScannedSlots, SlotCount
  <2> QED  BY <1>8, <2>6, <2>7, <2>8 DEF Spread, Delivered
<1> QED  BY <1>7, <1>8

LEMMA EarlyContact ==
    ASSUME DtnInv, FloodInv, EpidemicContact, config.bufSize = NONE, NEW p \in Pkgs, Early(p)
    PROVE  Early(p)'
<1>1. /\ net'.endAt[p] = net.endAt[p] /\ pkgs' = pkgs
      /\ ReachedBy(p)' = ReachedBy(p)
  BY EpidemicFinds, SameReckoning DEF Early, Delivered, Flooded
<1> QED  BY <1>1 DEF Early, Delivered

LEMMA InTimeContact ==
    ASSUME DtnInv, FloodInv, EpidemicContact, config.bufSize = NONE, NEW p \in Pkgs,
           NoTwoAtOnce, InTime(p)
    PROVE  InTime(p)'
<1>1. PICK a \in Nodes, b \in Nodes, now \in exprStartAt .. exprEndAt :
             /\ Running /\ Good(net, now) /\ now = clock' /\ now = NextEvent.timestamp
             /\ Flooded(net, net', a, b, now, p) /\ Range(NextEvent.pair) = {a, b}
             /\ pkgs' = pkgs /\ contacts' = contacts /\ IsContact(NextEvent)
             /\ NextEvent \in Pending /\ Pending' = Pending \ {NextEvent}
             /\ \A g \in Pending : g.timestamp \in Nat /\ now =< g.timestamp
             /\ \A g \in Pending : ~ IsContact(g) => now < g.timestamp
             /\ \E c \in Scanned : NextEvent.pair = c.pair /\ c.startAt = now
  BY EpidemicFinds
<1>2. /\ \A t : Had(p, t)' = Had(p, t)
      /\ ReachedBy(p)' = ReachedBy(p)
  BY <1>1, SameReckoning
<1>3. Carriers(p) \subseteq Had(p, now)
  BY <1>1 DEF InTime
<1>4. Carriers(p) \cap {a, b} # {} => {a, b} \subseteq ReachedBy(p)[now]
  <2> SUFFICES ASSUME Carriers(p) \cap {a, b} # {}  PROVE {a, b} \subseteq ReachedBy(p)[now]
    OBVIOUS
  <2>1. PICK c \in Scanned : Range(c.pair) = {a, b} /\ c.startAt = now
    BY <1>1
  <2>2. Range(c.pair) \cap Had(p, now) # {}
    BY <1>3, <2>1
  <2>3. ReachedBy(p)[now] = Had(p, now) \cup UNION {Range(x.pair) : x \in
                    {y \in Scanned : y.startAt = now /\ Range(y.pair) \cap Had(p, now) # {}}}
    BY ReachedByIs
  <2> QED  BY <2>1, <2>2, <2>3
<1>5. \A n \in Carriers(p)' : n \in Carriers(p) \/ (n \in {a, b} /\ Carriers(p) \cap {a, b} # {})
  <2>1. /\ \A n \in Nodes : p \in Ids(net', n) =>
             p \in Ids(net, n) \/ (n \in {a, b} /\ p \in Ids(net, a) \cup Ids(net, b))
        /\ \A n : n \in Carriers(p) <=> n \in Nodes /\ p \in Ids(net, n)
        /\ \A n : n \in Carriers(p)' <=> n \in Nodes /\ p \in Ids(net', n)
    BY <1>1, CarriersOf DEF Flooded
  <2> QED  BY <2>1
<1>6. ASSUME NEW e \in Pending', IsContact(e)
      PROVE  Carriers(p)' \subseteq Had(p, e.timestamp)
  <2>1. e \in Pending /\ e # NextEvent
    BY <1>1
  <2>2. e.timestamp # now
    BY <1>1, <1>6, <2>1, OneEvent DEF FloodInv, EpidemicContact, Contact
  <2>3. now < e.timestamp /\ e.timestamp \in exprStartAt .. exprEndAt
    BY <1>1, <1>6, <2>1, <2>2, PendingContact, SlotAssumption
  <2>4. ReachedBy(p)[now] \subseteq Had(p, e.timestamp)
    BY <2>3, HadGrows, SlotAssumption
  <2>5. Carriers(p) \subseteq Had(p, e.timestamp)
    BY <1>6, <2>1 DEF InTime
  <2> QED  BY <1>4, <1>5, <2>4, <2>5
<1>7. ASSUME net'.endAt[p] # 0
      PROVE  /\ net'.endAt[p] \in exprStartAt .. exprEndAt
             /\ pkgs[p].dst \in ReachedBy(p)[net'.endAt[p]]
  <2>1. CASE net'.endAt[p] = net.endAt[p]
    BY <1>7, <2>1 DEF InTime, Delivered
  <2>2. CASE /\ net'.endAt[p] = now /\ pkgs[p].dst \in {a, b}
             /\ p \in Ids(net, a) \cup Ids(net, b)
    <3>1. Carriers(p) \cap {a, b} # {}
      BY <2>2, CarriersOf
    <3> QED  BY <1>4, <2>2, <3>1
  <2> QED  BY <1>1, <2>1, <2>2 DEF Flooded
<1>8. \A e \in Pending' : IsContact(e)' => Carriers(p)' \subseteq Had(p, e.timestamp)'
  BY <1>2, <1>6 DEF IsContact
<1> QED  BY <1>1, <1>2, <1>7, <1>8 DEF InTime, Delivered

(* The arrival of a package at its source.                                  *)
LEMMA ArrivalFinds ==
    ASSUME DtnInv, FloodInv, RecvPkg
    PROVE  \E o \in Pkgs :
             /\ Received(o) /\ pkgs' = pkgs /\ contacts' = contacts /\ config' = config
             /\ NextEvent \in Pending /\ Pending' = Pending \ {NextEvent}
             /\ ~ IsContact(NextEvent) /\ phase = "run" /\ phase' = phase
             /\ \A g \in Pending : g.timestamp \in Nat /\ pkgs[o].startAt =< g.timestamp
             /\ pkgs[o].startAt \in exprStartAt .. exprEndAt
             /\ pkgs[o].src \in Nodes /\ pkgs[o].src # pkgs[o].dst
<1>1. /\ phase = "run" /\ PickEvent /\ ~ IsContact(NextEvent)
      /\ UNCHANGED <<phase, config, contacts, pkgs>>
  BY DEF RecvPkg
<1>2. /\ NextEvent \in Pending /\ Pending' = Pending \ {NextEvent}
      /\ \A g \in Pending : NextEvent.timestamp =< g.timestamp
  BY <1>1, PickStep DEF DtnInv
<1>3. PICK o \in Pkgs : Received(o)
  BY RecvPkgReceived
<1>4. NextEvent.timestamp = pkgs[o].startAt
  BY <1>3 DEF Received
<1>5. \A g \in Pending : g.timestamp \in Nat
  BY PendingAllocated, SlotAssumption DEF DtnInv
<1>6. /\ pkgs[o].src \in Nodes /\ pkgs[o].src # pkgs[o].dst
      /\ pkgs[o].startAt \in Nat /\ pkgs[o].startAt >= exprStartAt
  BY <1>1, PackageOf
<1>7. whichslot(pkgs[o].startAt) \in ScannedSlots
  BY <1>2, <1>4, PendingSlot, PendingAllocated DEF DtnInv
<1>8. pkgs[o].startAt \in exprStartAt .. exprEndAt
  BY <1>6, <1>7, ScannedTimes, SlotAssumption
<1> QED  BY <1>1, <1>2, <1>3, <1>4, <1>5, <1>6, <1>8

LEMMA ArrivalFloods ==
    ASSUME DtnInv, FloodInv, RecvPkg, config.bufSize = NONE, NEW p \in Pkgs
    PROVE  /\ Early(p) => Early(p)'
           /\ Spread(p) => Spread(p)'
           /\ InTime(p) => InTime(p)'
<1>1. PICK o \in Pkgs :
             /\ Received(o) /\ pkgs' = pkgs /\ contacts' = contacts /\ config' = config
             /\ NextEvent \in Pending /\ Pending' = Pending \ {NextEvent}
             /\ ~ IsContact(NextEvent) /\ phase = "run" /\ phase' = phase
             /\ \A g \in Pending : g.timestamp \in Nat /\ pkgs[o].startAt =< g.timestamp
             /\ pkgs[o].startAt \in exprStartAt .. exprEndAt
             /\ pkgs[o].src \in Nodes /\ pkgs[o].src # pkgs[o].dst
  BY ArrivalFinds
<1>2. /\ Scanned' = Scanned
      /\ \A t : Had(p, t)' = Had(p, t)
      /\ ReachedBy(p)' = ReachedBy(p)
  BY <1>1, SameReckoning
<1>3. net'.endAt[p] = net.endAt[p]
  BY <1>1 DEF Received
<1>4. /\ Carriers(p) \subseteq Carriers(p)'
      /\ Carriers(p)' \subseteq Carriers(p) \cup (IF p = o THEN {pkgs[p].src} ELSE {})
      /\ p = o => pkgs[p].src \in Carriers(p)'
  <2>1. /\ \A m \in Nodes : Ids(net, m) \subseteq Ids(net', m) /\ Ids(net', m) \subseteq Ids(net, m) \cup {o}
        /\ \A m \in Nodes : o \in Ids(net', m) => m = pkgs[o].src /\ pkgs[o].dst # m
        /\ o \in Ids(net', pkgs[o].src)
    BY <1>1 DEF Received
  <2>2. /\ \A n : n \in Carriers(p) <=> n \in Nodes /\ p \in Ids(net, n)
        /\ \A n : n \in Carriers(p)' <=> n \in Nodes /\ p \in Ids(net', n)
    BY CarriersOf
  <2> QED  BY <1>1, <2>1, <2>2
<1>5. ASSUME NEW c, ContactToCome(c)  PROVE ContactToCome(c)'
  <2>1. PICK e \in Pending : IsContact(e) /\ e.pair = c.pair /\ e.timestamp = c.startAt
    BY <1>5 DEF ContactToCome
  <2>2. e \in Pending'
    BY <1>1, <2>1
  <2> QED  BY <2>1, <2>2 DEF ContactToCome, IsContact
<1>6. p # o /\ ArrivalToCome(p) => ArrivalToCome(p)'
  <2> SUFFICES ASSUME p # o, NEW e \in Pending, ~ IsContact(e), e.pkg = p
               PROVE  ArrivalToCome(p)'
    BY DEF ArrivalToCome
  <2>1. NextEvent.pkg = o
    BY <1>1 DEF Received
  <2>2. e \in Pending'
    BY <1>1, <2>1
  <2> QED  BY <2>2 DEF ArrivalToCome, IsContact
<1>7. ASSUME Early(p)  PROVE Early(p)'
  BY <1>1, <1>2, <1>3, <1>7 DEF Early, Delivered
<1>8. ASSUME Spread(p)  PROVE Spread(p)'
  <2>1. ~ Delivered(p)'
    BY <1>3, <1>8 DEF Spread, Delivered
  <2>2. \A c \in Scanned' : ~ ContactToCome(c)' /\ Range(c.pair) \cap Had(p, c.startAt)' # {}
           => Range(c.pair) \subseteq Carriers(p)'
    BY <1>2, <1>4, <1>5, <1>8 DEF Spread
  <2>3. /\ (whichslot(pkgs[p].startAt) \in ScannedSlots)' <=> whichslot(pkgs[p].startAt) \in ScannedSlots
        /\ (pkgs[p].src)' = pkgs[p].src
    BY <1>1 DEF whichslot, ScannedSlots, SlotCount
  <2>4. whichslot(pkgs[p].startAt) \in ScannedSlots /\ ~ ArrivalToCome(p)' => pkgs[p].src \in Carriers(p)'
    BY <1>4, <1>6, <1>8 DEF Spread
  <2> QED  BY <2>1, <2>2, <2>3, <2>4 DEF Spread
<1>9. ASSUME InTime(p)  PROVE InTime(p)'
  <2>1. ASSUME NEW e \in Pending', IsContact(e)
        PROVE  Carriers(p)' \subseteq Had(p, e.timestamp)
    <3>1. e \in Pending /\ Carriers(p) \subseteq Had(p, e.timestamp)
      BY <1>1, <1>9, <2>1 DEF InTime
    <3>2. CASE p = o
      <4>1. e.timestamp \in exprStartAt .. exprEndAt /\ pkgs[p].startAt =< e.timestamp
        BY <1>1, <2>1, <3>1, <3>2, PendingContact, SlotAssumption
      <4>2. pkgs[p].src \in Had(p, pkgs[p].startAt)
        BY DEF Had, HadBy
      <4>3. Had(p, pkgs[p].startAt) \subseteq Had(p, e.timestamp)
        BY <1>1, <3>2, <4>1, HadGrows
      <4> QED  BY <1>4, <3>1, <4>2, <4>3
    <3> QED  BY <1>4, <3>1, <3>2
  <2>2. \A e \in Pending' : IsContact(e)' => Carriers(p)' \subseteq Had(p, e.timestamp)'
    BY <1>2, <2>1 DEF IsContact
  <2> QED  BY <1>1, <1>2, <1>3, <1>9, <2>2 DEF InTime, Delivered
<1> QED  BY <1>7, <1>8, <1>9

(* An event of the queue after a step is pending if its slot is scanned.     *)
LEMMA PendingSlotNext ==
    ASSUME QueueInv', NEW e \in EventsIn(AllocatedSlots)',
           whichslot(e.timestamp) \in ScannedSlots
    PROVE  e \in Pending'
<1>1. PICK i \in AllocatedSlots : e \in Range(eventSlots'[i])
  BY DEF EventsIn, AllocatedSlots, SlotCount
<1>2. InSlot(e, i)
  BY <1>1 DEF QueueInv, SlotsOK, InSlot, AllocatedSlots, SlotCount, whichslot
<1>3. whichslot(e.timestamp) = i
  BY <1>2 DEF InSlot
<1> QED  BY <1>1, <1>3 DEF Pending, EventsIn, ScannedSlots, SlotCount

(* The loop begins: all is in the queue, and nobody has anything.            *)
LEMMA FloodBegins ==
    ASSUME DtnInv, FloodInv, SetupCntEvents, NEW p \in Pkgs
    PROVE  Spread(p)' /\ InTime(p)'
<1>1. /\ phase = "contacts" /\ UNCHANGED <<config, contacts, pkgs, net>>
  BY DEF SetupCntEvents
<1>2. DtnInv' /\ Order!Schedule /\ AllContactsQueued'
  BY SetupCntEventsStep
<1>3. QueueInv /\ QueueInv' /\ Pending \subseteq Pending'
  BY <1>2 DEF DtnInv, Order!Schedule
<1>4. net = NetInit /\ contacts \in ContactTables
  BY <1>1 DEF DtnInv, DtnTypes
<1>5. net'.endAt[p] = 0 /\ \A m : m \notin Carriers(p)'
  BY <1>1, <1>4, NothingStored, CarriersOf DEF Absent
<1>6. ASSUME NEW c \in Scanned'  PROVE ContactToCome(c)'
  <2>1. /\ c \in contacts /\ c \in contacts' /\ c.startAt < exprEndAt
        /\ whichslot(c.startAt) \in ScannedSlots
    BY <1>1 DEF Scanned, ScannedSlots, SlotCount, whichslot
  <2>2. PICK first \in BOOLEAN : CntEvent(c, first) \in EventsIn(AllocatedSlots)'
    BY <1>2, <2>1 DEF AllContactsQueued, CntEvent
  <2>3. /\ CntEvent(c, first).pair = c.pair /\ CntEvent(c, first).timestamp = c.startAt
        /\ IsContact(CntEvent(c, first))
    BY KindOfEvent
  <2>4. CntEvent(c, first) \in Pending'
    BY <1>3, <2>1, <2>2, <2>3, PendingSlotNext
  <2> QED  BY <2>3, <2>4 DEF ContactToCome, IsContact
<1>7. ASSUME whichslot(pkgs[p].startAt) \in ScannedSlots  PROVE ArrivalToCome(p)'
  <2>1. PICK v \in Estimates \cup {NONE} :
          RecvEvent(pkgs[p].startAt, p, v) \in EventsIn(AllocatedSlots)
    BY <1>1 DEF FloodInv, ArrivalsQueued
  <2> DEFINE e == RecvEvent(pkgs[p].startAt, p, v)
  <2>2. ~ IsContact(e) /\ e.pkg = p /\ e.timestamp = pkgs[p].startAt
    BY KindOfEvent
  <2>3. e \in Pending'
    BY <1>3, <1>7, <2>1, <2>2, PendingSlot
  <2> QED  BY <2>2, <2>3 DEF ArrivalToCome, IsContact
<1>8. (whichslot(pkgs[p].startAt) \in ScannedSlots)' <=> whichslot(pkgs[p].startAt) \in ScannedSlots
  BY <1>1 DEF whichslot, ScannedSlots, SlotCount
<1>9. Spread(p)'
  BY <1>5, <1>6, <1>7, <1>8 DEF Spread, Delivered
<1>10. InTime(p)'
  BY <1>5 DEF InTime, Delivered
<1> QED  BY <1>9, <1>10

LEMMA FloodSame ==
    ASSUME UNCHANGED <<config, contacts, pkgs, net, eventSlots>>
    PROVE  /\ Pending' = Pending
           /\ LoopQueue => LoopQueue'
           /\ \A p : /\ Early(p) => Early(p)'
                     /\ Spread(p) => Spread(p)'
                     /\ InTime(p) => InTime(p)'
<1>1. Pending' = Pending /\ EventsIn(AllocatedSlots)' = EventsIn(AllocatedSlots)
  BY QueueSame
<1>2. /\ Scanned' = Scanned
      /\ \A p : ReachedBy(p)' = ReachedBy(p)
      /\ \A p, t : Had(p, t)' = Had(p, t)
  BY SameReckoning
<1>3. /\ \A p : Carriers(p)' = Carriers(p) /\ (Delivered(p)' <=> Delivered(p))
      /\ \A c : ContactToCome(c)' <=> ContactToCome(c)
      /\ \A p : ArrivalToCome(p)' <=> ArrivalToCome(p)
  <2>1. \A p : Carriers(p)' = Carriers(p)
    BY DEF Carriers, Holds
  <2>2. \A c : ContactToCome(c)' <=> ContactToCome(c)
    BY <1>1 DEF ContactToCome, IsContact
  <2>3. \A p : ArrivalToCome(p)' <=> ArrivalToCome(p)
    BY <1>1 DEF ArrivalToCome, IsContact
  <2> QED  BY <2>1, <2>2, <2>3 DEF Delivered
<1>4. LoopQueue => LoopQueue'
  BY <1>1, LoopQueueSame DEF LoopQueue
<1>5. ASSUME NEW p, Early(p)  PROVE Early(p)'
  BY <1>2, <1>3, <1>5 DEF Early
<1>6. ASSUME NEW p, Spread(p)  PROVE Spread(p)'
  BY <1>2, <1>3, <1>6 DEF Spread, whichslot, ScannedSlots, SlotCount
<1>7. ASSUME NEW p, InTime(p)  PROVE InTime(p)'
  BY <1>1, <1>2, <1>3, <1>7 DEF InTime, IsContact
<1> QED  BY <1>1, <1>4, <1>5, <1>6, <1>7

LEMMA FloodStep ==
    ASSUME DtnInv, FloodInv, [Next]_dtnVars
    PROVE  FloodInv'
<1>1. CASE SetupOracle
  BY <1>1 DEF SetupOracle, FloodInv, Flooding
<1>2. CASE GenerateTraffic
  BY <1>2 DEF GenerateTraffic, FloodInv, Flooding
<1>3. CASE SetupTrafficEvents
  <2>1. /\ phase = "packages" /\ phase' = "contacts" /\ pkgs' = pkgs /\ ArrivalsQueued'
    BY <1>3, SetupTrafficEventsStep DEF SetupTrafficEvents
  <2> QED  BY <2>1 DEF FloodInv, Flooding
<1>4. CASE SetupCntEvents
  <2>1. /\ phase = "contacts" /\ phase' = "run" /\ pkgs' = pkgs /\ LoopQueue'
    BY <1>4, SetupCntEventsStep DEF SetupCntEvents
  <2>2. \A p \in Pkgs : Spread(p)' /\ InTime(p)'
    BY <1>4, FloodBegins
  <2> QED  BY <2>1, <2>2 DEF FloodInv, Flooding
<1>5. CASE RecvPkg
  <2>1. /\ phase = "run" /\ phase' = "run" /\ UNCHANGED <<config, contacts, pkgs>> /\ PickEvent
    BY <1>5 DEF RecvPkg
  <2>2. LoopQueue'
    BY <2>1, LoopQueueStep DEF FloodInv
  <2>3. NoTwoAtOnce' <=> NoTwoAtOnce
    BY <2>1, SameReckoning
  <2>4. ASSUME NEW p \in Pkgs, Flooding'
        PROVE  (Early(p)' \/ Spread(p)') /\ (NoTwoAtOnce => InTime(p)')
    <3>1. Flooding /\ config.bufSize = NONE
      BY <2>1, <2>4 DEF Flooding, NONE
    <3>2. (Early(p) \/ Spread(p)) /\ (NoTwoAtOnce => InTime(p))
      BY <3>1 DEF FloodInv
    <3> QED  BY <1>5, <3>1, <3>2, ArrivalFloods
  <2> QED  BY <2>1, <2>2, <2>3, <2>4 DEF FloodInv
<1>6. CASE EpidemicContact
  <2>1. /\ phase = "run" /\ phase' = "run" /\ UNCHANGED <<config, contacts, pkgs>> /\ PickEvent
    BY <1>6 DEF EpidemicContact, Contact
  <2>2. LoopQueue'
    BY <2>1, LoopQueueStep DEF FloodInv
  <2>3. NoTwoAtOnce' <=> NoTwoAtOnce
    BY <2>1, SameReckoning
  <2>4. ASSUME NEW p \in Pkgs, Flooding'
        PROVE  (Early(p)' \/ Spread(p)') /\ (NoTwoAtOnce => InTime(p)')
    <3>1. Flooding /\ config.bufSize = NONE
      BY <2>1, <2>4 DEF Flooding, NONE
    <3>2. (Early(p) \/ Spread(p)) /\ (NoTwoAtOnce => InTime(p))
      BY <3>1 DEF FloodInv
    <3> QED  BY <1>6, <3>1, <3>2, EarlyContact, SpreadContact, InTimeContact
  <2> QED  BY <2>1, <2>2, <2>3, <2>4 DEF FloodInv
<1>7. ASSUME HandlerDone, config.oracle # "epidemic"  PROVE FloodInv'
  <2>1. /\ phase = "run" /\ phase' = "run" /\ UNCHANGED <<config, contacts, pkgs>> /\ PickEvent
    BY <1>7 DEF HandlerDone
  <2>2. LoopQueue'
    BY <2>1, LoopQueueStep DEF FloodInv
  <2> QED  BY <1>7, <2>1, <2>2 DEF FloodInv, Flooding
<1>8. CASE BubbleContact
  BY <1>7, <1>8, BubbleHandler DEF BubbleContact, Contact
<1>9. CASE MarkovContact \/ AverageContact
  BY <1>7, <1>9, MarkovHandler DEF MarkovContact, AverageContact, Contact
<1>10. CASE ZoomContact
  BY <1>7, <1>10, ZoomHandler DEF ZoomContact, Contact
<1>11. CASE FutureContact
  BY <1>7, <1>11, FutureHandler DEF FutureContact, Contact
<1>12. CASE SimbetContact
  BY <1>7, <1>12, SimbetHandler DEF SimbetContact, Contact
<1>13. CASE GlobalSocialContact
  BY <1>7, <1>13, GlobalSocialHandler DEF GlobalSocialContact, Contact
<1>14. ASSUME UNCHANGED <<config, contacts, pkgs, net, eventSlots>>,
              phase' = phase \/ (phase = "run" /\ phase' = "done" /\ NonEmptySlots = {})
       PROVE  FloodInv'
  <2>1. Pending' = Pending /\ (NoTwoAtOnce' <=> NoTwoAtOnce)
    BY <1>14, FloodSame, SameReckoning
  <2>2. NonEmptySlots = {} => Pending = {}
    <3>1. ASSUME NonEmptySlots = {}, NEW i \in ScannedSlots  PROVE Range(eventSlots[i]) = {}
      <4>1. eventSlots[i] = << >>
        BY <3>1 DEF NonEmptySlots
      <4> QED  BY <4>1 DEF Range
    <3> QED  BY <3>1 DEF Pending, EventsIn
  <2>3. phase' = "contacts" => ArrivalsQueued'
    BY <1>14, QueueSame DEF FloodInv, ArrivalsQueued
  <2>4. phase' \in {"run", "done"} => LoopQueue'
    BY <1>14, FloodSame DEF FloodInv
  <2>5. phase' = "done" => Pending' = {}
    BY <1>14, <2>1, <2>2 DEF FloodInv
  <2>6. ASSUME NEW p \in Pkgs, Flooding'
        PROVE  (Early(p)' \/ Spread(p)') /\ (NoTwoAtOnce => InTime(p)')
    <3>1. Flooding
      BY <1>14, <2>6 DEF Flooding, NONE
    <3>2. (Early(p) \/ Spread(p)) /\ (NoTwoAtOnce => InTime(p))
      BY <3>1 DEF FloodInv
    <3> QED  BY <1>14, <3>2, FloodSame
  <2>7. phase' \notin {"oracle", "traffic"} => \A p \in Pkgs : pkgs'[p].src # pkgs'[p].dst
    BY <1>14 DEF FloodInv
  <2> QED  BY <2>1, <2>3, <2>4, <2>5, <2>6, <2>7 DEF FloodInv
<1>15. CASE LeaveLoop
  BY <1>14, <1>15 DEF LeaveLoop
<1>16. CASE UNCHANGED dtnVars
  BY <1>14, <1>16 DEF dtnVars
<1> QED
  BY <1>1, <1>2, <1>3, <1>4, <1>5, <1>6, <1>8, <1>9, <1>10, <1>11, <1>12, <1>13, <1>15, <1>16
  DEF Next

(* With room everywhere the epidemic oracle delivers every package that can  *)
(* be delivered, no later than the foremost journey allows, and exactly then *)
(* when no two contacts are at once: the order of the queue, the passes over *)
(* the storages and the arrival at the destination work together, for every  *)
(* contact trace and every set of packages.                                 *)
THEOREM ForemostDeliveryHolds == Spec => []ForemostDelivery
<1>1. Init => FloodInv
  BY DEF Init, FloodInv, Flooding
<1>2. DtnInv /\ FloodInv /\ [Next]_dtnVars => FloodInv'
  BY FloodStep
<1>3. DtnInv /\ FloodInv => ForemostDelivery
  <2> SUFFICES ASSUME DtnInv, FloodInv, phase = "done", config.oracle = "epidemic",
                      config.bufSize = NONE, NEW p \in Pkgs
               PROVE  LET times == {t \in exprStartAt .. exprEndAt : pkgs[p].dst \in ReachedBy(p)[t]}
                          foremost == IF times = {} THEN 0 ELSE Min(times)
                      IN  /\ times # {} => Delivered(p) /\ net.endAt[p] =< foremost
                          /\ NoTwoAtOnce => net.endAt[p] = foremost
    BY DEF ForemostDelivery
  <2> DEFINE times == {t \in exprStartAt .. exprEndAt : pkgs[p].dst \in ReachedBy(p)[t]}
             foremost == IF times = {} THEN 0 ELSE Min(times)
  <2>1. /\ Pending = {} /\ (Early(p) \/ Spread(p)) /\ (NoTwoAtOnce => InTime(p))
        /\ pkgs[p].src # pkgs[p].dst
    BY DEF FloodInv, Flooding
  <2>2. Running /\ Good(net, clock) /\ net.endAt[p] \in Nat
    <3>1. Running /\ Good(net, clock)
      BY RunningNow DEF DtnInv
    <3>2. net \in Net
      BY <3>1 DEF Good
    <3> QED  BY <3>1, <3>2, GoodFields
  <2>3. times \in SUBSET Nat /\ exprStartAt \in Nat /\ exprEndAt \in Nat
    BY SlotAssumption
  <2>4. ASSUME times # {}  PROVE Min(times) \in times /\ \A t \in times : Min(times) =< t
    <3>1. \E m \in times : \A j \in times : m =< j
      BY <2>3, <2>4, SmallestExists
    <3> QED  BY <3>1 DEF Min
  <2>5. ASSUME NEW t \in times  PROVE Early(p)
    <3> SUFFICES ASSUME Spread(p)  PROVE FALSE
      BY <2>1
    <3>1. t \in exprStartAt - 1 .. exprEndAt /\ pkgs[p].startAt \in Nat
      BY <2>2, <2>3 DEF Running, PkgsOK
    <3>2. pkgs[p].dst \in Carriers(p) \cup {pkgs[p].src}
      BY <2>1, <3>1, SpreadReaches
    <3>3. pkgs[p].dst \in Carriers(p)
      BY <2>1, <3>2
    <3> QED  BY <2>2, <3>3, CarriersOf, StoredDst
  <2>6. ASSUME times # {}  PROVE Delivered(p) /\ net.endAt[p] =< foremost
    BY <2>4, <2>5, <2>6 DEF Early
  <2>7. ASSUME NoTwoAtOnce, Delivered(p)  PROVE net.endAt[p] \in times
    BY <2>1, <2>7 DEF InTime
  <2> HIDE DEF times
  <2>8. ASSUME NoTwoAtOnce  PROVE net.endAt[p] = foremost
    <3>1. CASE times = {}
      BY <2>7, <2>8, <3>1 DEF Delivered
    <3>2. CASE times # {}
      <4>1. foremost = Min(times) /\ foremost \in Nat
        BY <2>3, <2>4, <3>2
      <4>2. net.endAt[p] =< foremost /\ foremost =< net.endAt[p]
        BY <2>4, <2>6, <2>7, <2>8, <3>2, <4>1
      <4> QED  BY <2>2, <4>1, <4>2
    <3> QED  BY <3>1, <3>2
  <2> QED  BY <2>6, <2>8 DEF times
<1> QED  BY <1>1, <1>2, <1>3, DtnInvHolds, PTL DEF Spec

=============================================================================

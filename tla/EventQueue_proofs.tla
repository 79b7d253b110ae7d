-------------------------- MODULE EventQueue_proofs --------------------------
(***************************************************************************)
(* The event queue implements EventOrder, for every length of a slot and   *)
(* of the experiment and every set of events.  The invariant QueueInv says *)
(* that every list is sorted, without duplicates, and holds events of its  *)
(* own slot; the rest is that slots follow each other in time.             *)
(***************************************************************************)
EXTENDS EventQueue, SequenceTheorems, ListLemmas, TLAPS


-----------------------------------------------------------------------------
(* Sorted lists.                                                            *)

Ordered(list) ==
    \A i, j \in 1 .. Len(list) :
        i < j => list[i].timestamp =< list[j].timestamp /\ list[i] # list[j]

(* The order of events as a key.                                              *)
Timestamp == [e \in Event |-> e.timestamp]

(* add_event on one list.                                                   *)
Added(list, e) == AddInSequenceFromTail(list, e, event_has_earlier_timestamp_than)

LEMMA AddedBehind ==
    ASSUME NEW list \in Seq(Event), NEW e \in Event, Ordered(list),
           NEW new, new = Added(list, e)
    PROVE  /\ Len(list) \in Nat /\ new \in Seq(Event) /\ Len(new) = Len(list) + 1
           /\ \A i \in 1 .. Len(list) : list[i] \in Event /\ Timestamp[list[i]] = list[i].timestamp
           /\ Timestamp[e] = e.timestamp /\ Timestamp \in [Event -> Int]
           /\ Sorted(list, Timestamp) /\ \E k : Behind(new, list, e, k, Timestamp)
<1>1. /\ Len(list) \in Nat
      /\ \A i \in 1 .. Len(list) : list[i] \in Event /\ Timestamp[list[i]] = list[i].timestamp
      /\ Timestamp[e] = e.timestamp /\ Timestamp \in [Event -> Int]
  BY SlotAssumption DEF Timestamp
<1>2. Sorted(list, Timestamp)
  BY <1>1 DEF Ordered, Sorted
<1>3. new = AddedByKey(list, e, Timestamp)
  <2> DEFINE S == {i \in DOMAIN list : ~ e.timestamp < list[i].timestamp}
             T == {i \in DOMAIN list : ~ Timestamp[e] < Timestamp[list[i]]}
  <2>1. S = T
    BY <1>1
  <2>2. new = InsertAt(list, 1 + (IF S = {} THEN 0 ELSE Max(S)), e)
    BY DEF Added, AddInSequenceFromTail, event_has_earlier_timestamp_than
  <2>3. AddedByKey(list, e, Timestamp) = InsertAt(list, 1 + (IF T = {} THEN 0 ELSE Max(T)), e)
    BY DEF AddedByKey
  <2> HIDE DEF S, T
  <2> QED  BY <2>1, <2>2, <2>3
<1>4. new \in Seq(Event) /\ Len(new) = Len(list) + 1
  BY <1>1, <1>2, <1>3, InsertedAt
<1>5. \E k : Behind(new, list, e, k, Timestamp)
  BY <1>1, <1>2, <1>3, InsertedAt
<1> QED  BY <1>1, <1>2, <1>4, <1>5

(* The list stays sorted and gains the event.                               *)
LEMMA Inserted ==
    ASSUME NEW list \in Seq(Event), NEW e \in Event, Ordered(list), e \notin Range(list),
           NEW new, new = Added(list, e)
    PROVE  new \in Seq(Event) /\ Ordered(new) /\ Range(new) = Range(list) \cup {e}
<1>1. /\ Len(list) \in Nat
      /\ \A i \in 1 .. Len(list) : list[i] \in Event /\ Timestamp[list[i]] = list[i].timestamp
      /\ Timestamp[e] = e.timestamp /\ Timestamp \in [Event -> Int]
  BY AddedBehind
<1>2. Sorted(list, Timestamp)
  BY AddedBehind
<1>4. new \in Seq(Event) /\ Len(new) = Len(list) + 1
  BY AddedBehind
<1>5. PICK k : Behind(new, list, e, k, Timestamp)
  BY AddedBehind
<1>6. PutAt(new, list, e, k)
  BY <1>5 DEF Behind
<1>7. Range(new) = Range(list) \cup {e}
  BY <1>4, <1>6, PutAtRange
<1>8. Sorted(new, Timestamp)
  BY <1>1, <1>2, <1>4, <1>5, InsertedSorted
<1>9. \A i, j \in 1 .. Len(new) : i < j => new[i] # new[j]
  <2> DEFINE key == [x \in Event |-> x]
  <2>1. /\ \A x \in 1 .. Len(list) : key[list[x]] = list[x] /\ list[x] # e
        /\ \A x \in 1 .. Len(new) : key[new[x]] = new[x]
        /\ key[e] = e
    BY <1>1, <1>4 DEF Range
  <2> HIDE DEF key
  <2>2. Distinct(list, key) /\ \A x \in 1 .. Len(list) : key[list[x]] # key[e]
    BY <1>1, <2>1 DEF Ordered, Distinct
  <2>3. Distinct(new, key)
    BY <1>1, <1>4, <1>6, <2>2, PutAtDistinct
  <2> QED  BY <2>1, <2>3 DEF Distinct
<1>10. \A i \in 1 .. Len(new) : new[i] \in Event /\ Timestamp[new[i]] = new[i].timestamp
  BY <1>4 DEF Timestamp
<1> QED  BY <1>4, <1>7, <1>8, <1>9, <1>10 DEF Ordered, Sorted

(* Events of K stand behind the others of the same time.                     *)
TiesBehind(list, K) ==
    \A i, j \in 1 .. Len(list) :
        i < j /\ list[i] \in K /\ list[j] \notin K => list[i].timestamp < list[j].timestamp

LEMMA InsertedTies ==
    ASSUME NEW list \in Seq(Event), NEW e \in Event, Ordered(list),
           NEW new, new = Added(list, e), NEW K, e \in K, TiesBehind(list, K)
    PROVE  TiesBehind(new, K)
<1>1. /\ Len(list) \in Nat /\ Len(new) = Len(list) + 1
      /\ \A i \in 1 .. Len(list) : list[i] \in Event /\ Timestamp[list[i]] = list[i].timestamp
      /\ Timestamp[e] = e.timestamp
  BY AddedBehind
<1>2. PICK k : Behind(new, list, e, k, Timestamp)
  BY AddedBehind
<1>3. /\ k \in 1 .. Len(list) + 1
      /\ \A i \in 1 .. Len(list) + 1 :
           new[i] = IF i < k THEN list[i] ELSE IF i = k THEN e ELSE list[i - 1]
      /\ \A i \in k .. Len(list) : e.timestamp < list[i].timestamp
  BY <1>1, <1>2 DEF Behind, PutAt
<1> SUFFICES ASSUME NEW i \in 1 .. Len(list) + 1, NEW j \in 1 .. Len(list) + 1,
                    i < j, new[i] \in K, new[j] \notin K
             PROVE  new[i].timestamp < new[j].timestamp
  BY <1>1 DEF TiesBehind
<1>4. j # k
  BY <1>3
<1>5. CASE i = k
  <2>1. j - 1 \in k .. Len(list) /\ new[j] = list[j - 1] /\ new[i] = e
    BY <1>1, <1>3, <1>5
  <2> QED  BY <1>3, <2>1
<1>6. CASE i # k
  <2>1. \E x, y \in 1 .. Len(list) : x < y /\ new[i] = list[x] /\ new[j] = list[y]
    <3>1. CASE j < k
      BY <1>1, <1>3, <3>1
    <3>2. CASE i < k /\ k < j
      <4>1. i \in 1 .. Len(list) /\ j - 1 \in 1 .. Len(list) /\ i < j - 1
        BY <1>1, <1>3, <3>2
      <4> QED  BY <1>3, <3>2, <4>1
    <3>3. CASE k < i
      <4>1. i - 1 \in 1 .. Len(list) /\ j - 1 \in 1 .. Len(list) /\ i - 1 < j - 1
        BY <1>1, <1>3, <3>3
      <4> QED  BY <1>3, <3>3, <4>1
    <3> QED  BY <1>3, <1>4, <1>6, <3>1, <3>2, <3>3
  <2> QED  BY <2>1 DEF TiesBehind
<1> QED  BY <1>5, <1>6

-----------------------------------------------------------------------------
(* Slots.                                                                   *)

LEMMA SlotOf ==
    ASSUME NEW e \in Event, InRange(e)
    PROVE  whichslot(e.timestamp) \in AllocatedSlots
<1>1. /\ e.timestamp - exprStartAt \in Nat /\ exprEndAt - exprStartAt \in Nat
      /\ slotSize \in Nat \ {0}
  BY SlotAssumption DEF InRange
<1>2. (e.timestamp - exprStartAt) \div slotSize \in Nat
  BY <1>1
<1>3. (exprEndAt - exprStartAt) \div slotSize \in Nat
  BY <1>1
<1> QED  BY <1>2, <1>3 DEF InRange, AllocatedSlots, whichslot, SlotCount

LEMMA SlotsInOrder ==
    ASSUME NEW s \in Nat, NEW t \in Nat, s >= exprStartAt, t >= exprStartAt,
           whichslot(s) < whichslot(t)
    PROVE  s =< t
<1> DEFINE x == s - exprStartAt
           y == t - exprStartAt
<1>1. x \in Nat /\ y \in Nat /\ slotSize \in Nat \ {0}
  BY SlotAssumption
<1>2. x \div slotSize < y \div slotSize
  BY DEF whichslot
<1> HIDE DEF x, y
<1>3. x = slotSize * (x \div slotSize) + (x % slotSize) /\ x % slotSize \in 0 .. slotSize - 1
  BY <1>1
<1>4. y = slotSize * (y \div slotSize) + (y % slotSize) /\ y % slotSize \in 0 .. slotSize - 1
  BY <1>1
<1>5. x \div slotSize \in Nat /\ y \div slotSize \in Nat
  BY <1>1
<1>6. slotSize * (x \div slotSize + 1) =< slotSize * (y \div slotSize)
  BY <1>1, <1>2, <1>5
<1>7. slotSize * (x \div slotSize + 1) = slotSize * (x \div slotSize) + slotSize
  BY <1>1, <1>5
<1>8. x =< y
  <2> DEFINE u == slotSize * (x \div slotSize)
             v == slotSize * (y \div slotSize)
  <2>1. u \in Int /\ v \in Int /\ u + slotSize =< v
    BY <1>1, <1>5, <1>6, <1>7
  <2>2. x = u + (x % slotSize) /\ y = v + (y % slotSize)
    BY <1>3, <1>4
  <2> HIDE DEF u, v
  <2> QED  BY <1>1, <1>3, <1>4, <2>1, <2>2
<1> QED  BY <1>8, SlotAssumption DEF x, y

-----------------------------------------------------------------------------
(* The invariant of the queue.                                              *)

InSlot(e, i) == e.timestamp >= exprStartAt /\ whichslot(e.timestamp) = i

SlotsOK(slots) ==
    /\ slots \in [AllocatedSlots -> Seq(Event)]
    /\ \A i \in AllocatedSlots :
         /\ Ordered(slots[i])
         /\ \A e \in Range(slots[i]) : InSlot(e, i)

QueueInv == SlotsOK(eventSlots)

EventsOf(slots, S) == UNION {Range(slots[i]) : i \in S}

(* add_event: the slots stay in order and gain the event.                   *)
LEMMA WithEventSlots ==
    ASSUME NEW slots, SlotsOK(slots), NEW e \in Event, InRange(e),
           e \notin EventsOf(slots, AllocatedSlots), NEW new, new = WithEvent(slots, e)
    PROVE  /\ SlotsOK(new)
           /\ EventsOf(new, AllocatedSlots) = EventsOf(slots, AllocatedSlots) \cup {e}
           /\ \A S \in SUBSET AllocatedSlots :
                /\ EventsOf(slots, S) \subseteq EventsOf(new, S)
                /\ EventsOf(new, S) \subseteq EventsOf(slots, S) \cup {e}
<1> DEFINE i == whichslot(e.timestamp)
<1>1. i \in AllocatedSlots /\ InSlot(e, i)
  BY SlotOf DEF InRange, InSlot
<1>2. new = [slots EXCEPT ![i] = Added(@, e)]
  BY DEF WithEvent, Added
<1> HIDE DEF i
<1>3. e \notin Range(slots[i])
  BY <1>1 DEF EventsOf
<1>4. /\ Added(slots[i], e) \in Seq(Event) /\ Ordered(Added(slots[i], e))
      /\ Range(Added(slots[i], e)) = Range(slots[i]) \cup {e}
  BY <1>1, <1>3, Inserted DEF SlotsOK
<1>5. /\ new[i] = Added(slots[i], e)
      /\ \A j \in AllocatedSlots \ {i} : new[j] = slots[j]
      /\ new \in [AllocatedSlots -> Seq(Event)]
  BY <1>1, <1>2, <1>4 DEF SlotsOK
<1>6. ASSUME NEW j \in AllocatedSlots
      PROVE  /\ Ordered(new[j]) /\ \A x \in Range(new[j]) : InSlot(x, j)
             /\ Range(slots[j]) \subseteq Range(new[j])
             /\ Range(new[j]) \subseteq Range(slots[j]) \cup {e}
  <2>1. CASE j = i
    BY <1>1, <1>4, <1>5, <2>1 DEF SlotsOK
  <2>2. CASE j # i
    BY <1>5, <2>2 DEF SlotsOK
  <2> QED  BY <2>1, <2>2
<1>7. e \in EventsOf(new, AllocatedSlots)
  BY <1>1, <1>4, <1>5 DEF EventsOf
<1> QED  BY <1>5, <1>6, <1>7 DEF SlotsOK, EventsOf

(* In every slot.                                                            *)
QueueTies(slots, K) == \A i \in AllocatedSlots : TiesBehind(slots[i], K)

LEMMA WithEventTies ==
    ASSUME NEW slots, SlotsOK(slots), NEW e \in Event, InRange(e),
           NEW K, e \in K, QueueTies(slots, K)
    PROVE  QueueTies(WithEvent(slots, e), K)
<1> DEFINE i == whichslot(e.timestamp)
           new == WithEvent(slots, e)
<1>1. i \in AllocatedSlots
  BY SlotOf
<1>2. new = [slots EXCEPT ![i] = Added(@, e)]
  BY DEF WithEvent, Added
<1> HIDE DEF i, new
<1>3. TiesBehind(Added(slots[i], e), K)
  BY <1>1, InsertedTies DEF SlotsOK, QueueTies
<1>4. new[i] = Added(slots[i], e) /\ \A j \in AllocatedSlots \ {i} : new[j] = slots[j]
  BY <1>1, <1>2 DEF SlotsOK
<1>5. ASSUME NEW j \in AllocatedSlots  PROVE TiesBehind(new[j], K)
  <2>1. CASE j = i
    BY <1>3, <1>4, <2>1
  <2>2. CASE j # i
    BY <1>4, <2>2 DEF QueueTies
  <2> QED  BY <2>1, <2>2
<1>6. QueueTies(new, K)
  BY <1>5 DEF QueueTies
<1> QED  BY <1>6 DEF new

(* A list of events added one after the other.                              *)
LEMMA WithEventType ==
    ASSUME NEW slots \in [AllocatedSlots -> Seq(Event)], NEW e \in Event, InRange(e)
    PROVE  WithEvent(slots, e) \in [AllocatedSlots -> Seq(Event)]
<1> DEFINE i == whichslot(e.timestamp)
           list == slots[i]
           S == {x \in DOMAIN list : ~ event_has_earlier_timestamp_than(e, list[x])}
           k == 1 + (IF S = {} THEN 0 ELSE Max(S))
           new == InsertAt(list, k, e)
<1>1. i \in AllocatedSlots /\ list \in Seq(Event)
  BY SlotOf
<1>2. WithEvent(slots, e) = [slots EXCEPT ![i] = new]
  BY DEF WithEvent, AddInSequenceFromTail
<1>3. S \in SUBSET (1 .. Len(list)) /\ Len(list) \in Nat
  BY <1>1
<1> HIDE DEF S, i, list
<1>4. k \in 1 .. Len(list) + 1
  <2>1. CASE S = {}
    BY <1>3, <2>1
  <2>2. CASE S # {}
    <3>1. Max(S) \in 1 .. Len(list)
      BY <1>3, <2>2, LargestIndex
    <3> QED  BY <1>3, <2>2, <3>1
  <2> QED  BY <2>1, <2>2
<1> HIDE DEF k
<1>5. new \in Seq(Event)
  BY <1>1, <1>4, InsertAtProperties
<1> HIDE DEF new
<1> QED  BY <1>1, <1>2, <1>5

AddedAll(slots, list) == FoldLeft(WithEvent, slots, list)

LEMMA EventsTrace ==
    ASSUME NEW slots \in [AllocatedSlots -> Seq(Event)], NEW list \in Seq(Event),
           \A i \in 1 .. Len(list) : InRange(list[i])
    PROVE  \E r : /\ r[0] = slots
                  /\ r[Len(list)] = AddedAll(slots, list)
                  /\ \A j \in 1 .. Len(list) : r[j] = WithEvent(r[j - 1], list[j])
<1> DEFINE n == Len(list)
           Eq(f) == f = [s \in SUBSET DOMAIN list |->
                           IF s = {} THEN slots ELSE WithEvent(f[s \ {Max(s)}], list[Max(s)])]
           F == CHOOSE f : Eq(f)
           V == [AllocatedSlots -> Seq(Event)]
           step == [i \in 1 .. n |-> [v \in V |-> WithEvent(v, list[i])]]
<1>1. AddedAll(slots, list) = F[DOMAIN list]
  BY DEF AddedAll, FoldLeft, MapThenFoldSet
<1>2. /\ n \in Nat /\ DOMAIN list = 1 .. n /\ slots \in V
      /\ \A i \in 1 .. n : list[i] \in Event
  OBVIOUS
<1>3. ASSUME NEW i \in 1 .. n, NEW v \in V  PROVE WithEvent(v, list[i]) \in V
  BY <1>2, WithEventType
<1> HIDE DEF V
<1>4. step \in [1 .. n -> [V -> V]]
  BY <1>3
<1>5. \A i \in 1 .. n : \A v \in V : step[i][v] = WithEvent(v, list[i])
  OBVIOUS
<1> HIDE DEF step
<1>6. PICK f \in [SUBSET (1 .. n) -> V] : FoldsTo(f, n, slots, step)
  BY <1>2, <1>4, FoldExists
<1> HIDE DEF n
<1>7. Eq(f)
  <2> DEFINE g == [s \in SUBSET (1 .. n) |->
                     IF s = {} THEN slots ELSE WithEvent(f[s \ {Max(s)}], list[Max(s)])]
  <2>1. ASSUME NEW s \in SUBSET (1 .. n)  PROVE f[s] = g[s]
    <3>1. CASE s = {}
      BY <1>6, <3>1 DEF FoldsTo
    <3>2. CASE s # {}
      <4>1. Max(s) \in 1 .. n
        BY <1>2, <3>2, LargestIndex
      <4>2. s \ {Max(s)} \in SUBSET (1 .. n)
        OBVIOUS
      <4>3. f[s \ {Max(s)}] \in V
        BY <4>2
      <4>4. f[s] = step[Max(s)][f[s \ {Max(s)}]]
        BY <1>6, <3>2 DEF FoldsTo
      <4> QED  BY <1>5, <3>2, <4>1, <4>3, <4>4
    <3> QED  BY <3>1, <3>2
  <2>2. f = g
    <3>1. g \in [SUBSET (1 .. n) -> {g[s] : s \in SUBSET (1 .. n)}]
      OBVIOUS
    <3> HIDE DEF g
    <3> QED  BY <2>1, <3>1
  <2> QED  BY <1>2, <2>2
<1>8. Eq(F)
  <2> HIDE DEF Eq
  <2> QED  BY <1>7
<1> HIDE DEF F
<1>9. /\ F[{}] = slots
      /\ \A s \in SUBSET (1 .. n) : s # {} =>
           F[s] = WithEvent(F[s \ {Max(s)}], list[Max(s)])
  BY <1>2, <1>8
<1> DEFINE r == [i \in 0 .. n |-> F[1 .. i]]
<1>10. r[0] = slots /\ r[n] = F[1 .. n]
  <2>1. 1 .. 0 = {} /\ 0 \in 0 .. n /\ n \in 0 .. n
    BY <1>2
  <2> QED  BY <1>9, <2>1
<1>11. ASSUME NEW j \in 1 .. n  PROVE r[j] = WithEvent(r[j - 1], list[j])
  <2>0. j \in Nat /\ j > 0 /\ j - 1 \in 0 .. n /\ j \in 0 .. n /\ j =< n /\ n \in Nat
    BY <1>2
  <2>1. 1 .. j \in SUBSET (1 .. n) /\ 1 .. j # {}
    <3>1. j \in 1 .. j /\ \A x \in 1 .. j : x \in 1 .. n
      BY <2>0
    <3> QED  BY <3>1
  <2>2. Max(1 .. j) = j /\ (1 .. j) \ {j} = 1 .. j - 1
    BY <2>0, MaxOfInterval
  <2>3. F[1 .. j] = WithEvent(F[1 .. j - 1], list[j])
    BY <1>9, <2>1, <2>2
  <2> QED  BY <2>0, <2>3
<1> QED  BY <1>1, <1>2, <1>10, <1>11 DEF n

(* The set-up functions add a whole list of new events.                     *)
LEMMA EventsAddedOneByOne ==
    ASSUME NEW slots, SlotsOK(slots), NEW list \in Seq(Event),
           \A i \in 1 .. Len(list) :
               InRange(list[i]) /\ list[i] \notin EventsOf(slots, AllocatedSlots),
           \A i, j \in 1 .. Len(list) : i < j => list[i] # list[j],
           NEW new, new = AddedAll(slots, list)
    PROVE  \E r : /\ r[0] = slots /\ r[Len(list)] = new
                  /\ \A j \in 1 .. Len(list) : r[j] = WithEvent(r[j - 1], list[j])
                  /\ \A j \in 0 .. Len(list) :
                       /\ SlotsOK(r[j])
                       /\ EventsOf(r[j], AllocatedSlots)
                            = EventsOf(slots, AllocatedSlots) \cup {list[i] : i \in 1 .. j}
<1> DEFINE n == Len(list)
<1>1. n \in Nat /\ DOMAIN list = 1 .. n
  OBVIOUS
<1>2. PICK r : /\ r[0] = slots /\ r[n] = new
               /\ \A j \in 1 .. n : r[j] = WithEvent(r[j - 1], list[j])
  <2>1. slots \in [AllocatedSlots -> Seq(Event)] /\ \A i \in 1 .. Len(list) : InRange(list[i])
    BY DEF SlotsOK
  <2>2. \E r : /\ r[0] = slots
              /\ r[Len(list)] = AddedAll(slots, list)
              /\ \A j \in 1 .. Len(list) : r[j] = WithEvent(r[j - 1], list[j])
    BY <2>1, EventsTrace
  <2> QED  BY <2>2
<1> DEFINE Prefix(j) == {list[i] : i \in 1 .. j}
           T == {j \in 0 .. n :
                   /\ SlotsOK(r[j])
                   /\ EventsOf(r[j], AllocatedSlots) = EventsOf(slots, AllocatedSlots) \cup Prefix(j)}
<1>3. 0 \in T
  <2>1. 1 .. 0 = {} /\ 0 \in 0 .. n
    BY <1>1
  <2> QED  BY <1>2, <2>1
<1>4. ASSUME NEW k \in 0 .. n - 1, k \in T  PROVE k + 1 \in T
  <2> DEFINE j == k + 1
             e == list[j]
  <2>1. j \in 1 .. n /\ j - 1 = k /\ j \in 0 .. n /\ e \in Event
    BY <1>1
  <2>2. r[j] = WithEvent(r[k], e)
    BY <1>2, <2>1
  <2>3. e \notin Prefix(k)
    <3> SUFFICES ASSUME NEW i \in 1 .. k  PROVE list[i] # e
      OBVIOUS
    <3>1. i \in 1 .. n /\ i < j
      BY <1>1
    <3> QED  BY <2>1, <3>1
  <2>4. e \notin EventsOf(r[k], AllocatedSlots)
    BY <1>4, <2>1, <2>3
  <2>5. /\ SlotsOK(r[j])
        /\ EventsOf(r[j], AllocatedSlots) = EventsOf(r[k], AllocatedSlots) \cup {e}
    BY <1>4, <2>1, <2>2, <2>4, WithEventSlots
  <2>6. Prefix(j) = Prefix(k) \cup {e}
    <3>1. 1 .. j = (1 .. k) \cup {j}
      BY <1>1
    <3> QED  BY <3>1
  <2> QED  BY <1>4, <2>1, <2>5, <2>6
<1>5. \A k \in 0 .. n : k \in T
  <2> HIDE DEF T, n
  <2>1. \A k \in 0 .. n - 1 : k \in T => k + 1 \in T
    BY <1>4
  <2> QED  BY <1>1, <1>3, <2>1, UpTo
<1> QED  BY <1>2, <1>5

LEMMA EventsAdded ==
    ASSUME NEW slots, SlotsOK(slots), NEW list \in Seq(Event),
           \A i \in 1 .. Len(list) :
               InRange(list[i]) /\ list[i] \notin EventsOf(slots, AllocatedSlots),
           \A i, j \in 1 .. Len(list) : i < j => list[i] # list[j],
           NEW new, new = AddedAll(slots, list)
    PROVE  /\ SlotsOK(new)
           /\ EventsOf(new, AllocatedSlots) = EventsOf(slots, AllocatedSlots) \cup Range(list)
<1>1. PICK r : /\ r[Len(list)] = new
               /\ \A j \in 0 .. Len(list) :
                    /\ SlotsOK(r[j])
                    /\ EventsOf(r[j], AllocatedSlots)
                         = EventsOf(slots, AllocatedSlots) \cup {list[i] : i \in 1 .. j}
  BY EventsAddedOneByOne
<1>2. Len(list) \in 0 .. Len(list) /\ DOMAIN list = 1 .. Len(list)
  OBVIOUS
<1>3. {list[i] : i \in 1 .. Len(list)} = Range(list)
  BY <1>2 DEF Range
<1> QED  BY <1>1, <1>2, <1>3

(* Events of K that are added last stand behind the others.                  *)
LEMMA EventsAddedTies ==
    ASSUME NEW slots, SlotsOK(slots), NEW list \in Seq(Event),
           \A i \in 1 .. Len(list) :
               InRange(list[i]) /\ list[i] \notin EventsOf(slots, AllocatedSlots),
           \A i, j \in 1 .. Len(list) : i < j => list[i] # list[j],
           NEW new, new = AddedAll(slots, list),
           NEW K, \A i \in 1 .. Len(list) : list[i] \in K, QueueTies(slots, K)
    PROVE  QueueTies(new, K)
<1> DEFINE n == Len(list)
<1>1. PICK r : /\ r[0] = slots /\ r[n] = new
               /\ \A j \in 1 .. n : r[j] = WithEvent(r[j - 1], list[j])
               /\ \A j \in 0 .. n : SlotsOK(r[j])
  BY EventsAddedOneByOne
<1> DEFINE T == {j \in 0 .. n : QueueTies(r[j], K)}
<1>2. n \in Nat /\ 0 \in T
  BY <1>1
<1>3. ASSUME NEW k \in 0 .. n - 1, k \in T  PROVE k + 1 \in T
  <2>1. /\ k + 1 \in 1 .. n /\ (k + 1) - 1 = k /\ k + 1 \in 0 .. n /\ k \in 0 .. n
        /\ list[k + 1] \in Event /\ InRange(list[k + 1]) /\ list[k + 1] \in K
    BY <1>2
  <2>2. r[k + 1] = WithEvent(r[k], list[k + 1])
    BY <1>1, <2>1
  <2>3. SlotsOK(r[k]) /\ QueueTies(r[k], K)
    BY <1>1, <1>3, <2>1
  <2>4. QueueTies(r[k + 1], K)
    BY <2>1, <2>2, <2>3, WithEventTies
  <2> QED  BY <2>1, <2>4
<1> HIDE DEF T, n
<1>4. \A k \in 0 .. n : k \in T
  BY <1>2, <1>3, UpTo
<1> QED  BY <1>1, <1>2, <1>4 DEF T, n

LEMMA QueueInitInv == QueueInit => QueueInv
<1> SUFFICES ASSUME QueueInit  PROVE QueueInv
  OBVIOUS
<1>1. << >> \in Seq(Event) /\ Len(<< >>) = 0 /\ DOMAIN << >> = {}
  OBVIOUS
<1>2. Ordered(<< >>) /\ Range(<< >>) = {}
  BY <1>1 DEF Ordered, Range
<1> QED  BY <1>1, <1>2 DEF QueueInit, QueueInv, SlotsOK

(* What a list loses with its head.                                         *)
LEMMA Consumed ==
    ASSUME NEW list \in Seq(Event), list # << >>, Ordered(list)
    PROVE  /\ Head(list) \in Event /\ Tail(list) \in Seq(Event)
           /\ Ordered(Tail(list)) /\ Range(Tail(list)) = Range(list) \ {Head(list)}
           /\ Head(list) \in Range(list)
           /\ \A e \in Range(list) : Head(list).timestamp =< e.timestamp
<1>1. /\ Len(list) \in Nat \ {0} /\ Head(list) = list[1] /\ Head(list) \in Event
      /\ Tail(list) \in Seq(Event) /\ Len(Tail(list)) = Len(list) - 1
      /\ \A i \in 1 .. Len(list) - 1 : Tail(list)[i] = list[i + 1]
  BY EmptySeq, HeadTailProperties
<1>2. Ordered(Tail(list))
  <2> SUFFICES ASSUME NEW i \in 1 .. Len(list) - 1, NEW j \in 1 .. Len(list) - 1, i < j
               PROVE  /\ Tail(list)[i].timestamp =< Tail(list)[j].timestamp
                      /\ Tail(list)[i] # Tail(list)[j]
    BY <1>1 DEF Ordered
  <2>1. i + 1 \in 1 .. Len(list) /\ j + 1 \in 1 .. Len(list) /\ i + 1 < j + 1
    BY <1>1
  <2> QED  BY <1>1, <2>1 DEF Ordered
<1>3. ASSUME NEW e \in Range(Tail(list))  PROVE e \in Range(list) /\ e # Head(list)
  <2>1. PICK i \in 1 .. Len(list) - 1 : e = Tail(list)[i]
    BY <1>1 DEF Range
  <2>2. i + 1 \in 1 .. Len(list) /\ 1 \in 1 .. Len(list) /\ 1 < i + 1 /\ e = list[i + 1]
    BY <1>1, <2>1
  <2> QED  BY <1>1, <2>2 DEF Ordered, Range
<1>4. ASSUME NEW e \in Range(list), e # Head(list)  PROVE e \in Range(Tail(list))
  <2>1. PICK i \in 1 .. Len(list) : e = list[i]
    BY DEF Range
  <2>2. i - 1 \in 1 .. Len(list) - 1 /\ (i - 1) + 1 = i
    BY <1>1, <1>4, <2>1
  <2>3. e = Tail(list)[i - 1]
    BY <1>1, <2>1, <2>2
  <2> QED  BY <1>1, <2>2, <2>3 DEF Range
<1>5. Head(list) \in Range(list)
  BY <1>1 DEF Range
<1>6. ASSUME NEW e \in Range(list)  PROVE Head(list).timestamp =< e.timestamp
  <2>1. PICK i \in 1 .. Len(list) : e = list[i]
    BY DEF Range
  <2>2. CASE i = 1
    <3>1. Head(list).timestamp \in Nat
      BY <1>1, SlotAssumption
    <3> QED  BY <1>1, <2>1, <2>2, <3>1
  <2>3. CASE i # 1
    <3>1. 1 \in 1 .. Len(list) /\ 1 < i
      BY <1>1, <2>1, <2>3
    <3> QED  BY <1>1, <2>1, <3>1 DEF Ordered
  <2> QED  BY <2>2, <2>3
<1> QED  BY <1>1, <1>2, <1>3, <1>4, <1>5, <1>6

(* The slot consume_an_event picks is the first that has an event.          *)
LEMMA FirstIsFirst ==
    ASSUME NonEmptySlots # {}
    PROVE  FirstSlot \in NonEmptySlots /\ \A j \in NonEmptySlots : FirstSlot =< j
<1>1. SlotCount \in Nat
  <2>1. exprEndAt - exprStartAt \in Nat /\ slotSize \in Nat \ {0}
    BY SlotAssumption
  <2> QED  BY <2>1 DEF SlotCount
<1>2. NonEmptySlots \in SUBSET Nat
  BY <1>1 DEF NonEmptySlots, ScannedSlots
<1>3. \E i \in NonEmptySlots : \A j \in NonEmptySlots : i =< j
  BY <1>2, SmallestExists
<1> QED  BY <1>3 DEF FirstSlot

LEMMA ScannedAllocated == ScannedSlots \subseteq AllocatedSlots /\ ScannedSlots \subseteq Nat
<1>1. exprEndAt - exprStartAt \in Nat /\ slotSize \in Nat \ {0}
  BY SlotAssumption
<1>2. SlotCount \in Nat
  BY <1>1 DEF SlotCount
<1> QED  BY <1>2 DEF ScannedSlots, AllocatedSlots

-----------------------------------------------------------------------------
(* The steps.                                                               *)

LEMMA PickStep ==
    ASSUME QueueInv, PickEvent
    PROVE  /\ QueueInv' /\ Order!Consume
           /\ NextEvent \in Pending /\ NextEvent \in Event
           /\ \A g \in Pending : NextEvent.timestamp =< g.timestamp
           /\ Pending' = Pending \ {NextEvent}
           /\ EventsIn(AllocatedSlots)' = EventsIn(AllocatedSlots) \ {NextEvent}
<1> DEFINE f == FirstSlot
           e == NextEvent
<1>1. f \in AllocatedSlots /\ f \in ScannedSlots /\ eventSlots[f] # << >>
      /\ \A j \in NonEmptySlots : f =< j
  BY FirstIsFirst, ScannedAllocated DEF PickEvent, NonEmptySlots
<1>2. /\ eventSlots' = [eventSlots EXCEPT ![f] = Tail(@)]
      /\ clock' = e.timestamp /\ e = Head(eventSlots[f])
  BY DEF PickEvent, NextEvent
<1> HIDE DEF f, e
<1>3. /\ e \in Event /\ Tail(eventSlots[f]) \in Seq(Event)
      /\ Ordered(Tail(eventSlots[f])) /\ Range(Tail(eventSlots[f])) = Range(eventSlots[f]) \ {e}
      /\ e \in Range(eventSlots[f])
      /\ \A g \in Range(eventSlots[f]) : e.timestamp =< g.timestamp
  BY <1>1, <1>2, Consumed DEF QueueInv, SlotsOK
<1>4. /\ eventSlots'[f] = Tail(eventSlots[f])
      /\ \A i \in AllocatedSlots \ {f} : eventSlots'[i] = eventSlots[i]
      /\ eventSlots' \in [AllocatedSlots -> Seq(Event)]
  BY <1>1, <1>2, <1>3 DEF QueueInv, SlotsOK
<1>5. QueueInv'
  <2>1. ASSUME NEW i \in AllocatedSlots
        PROVE  Ordered(eventSlots'[i]) /\ \A x \in Range(eventSlots'[i]) : InSlot(x, i)
    <3>1. CASE i = f
      BY <1>1, <1>3, <1>4, <3>1 DEF QueueInv, SlotsOK
    <3>2. CASE i # f
      BY <1>4, <3>2 DEF QueueInv, SlotsOK
    <3> QED  BY <3>1, <3>2
  <2> QED  BY <1>4, <2>1 DEF QueueInv, SlotsOK, Ordered, InSlot, AllocatedSlots, SlotCount, whichslot
<1>6. e \in Pending
  BY <1>1, <1>3 DEF Pending, EventsIn
<1>7. ASSUME NEW g \in Pending  PROVE e.timestamp =< g.timestamp
  <2>1. PICK j \in ScannedSlots : g \in Range(eventSlots[j])
    BY DEF Pending, EventsIn
  <2>2. CASE j = f
    BY <1>3, <2>1, <2>2
  <2>3. CASE j # f
    <3>1. j \in AllocatedSlots /\ j \in Nat /\ f \in Nat
      BY <1>1, ScannedAllocated
    <3>2. Range(<< >>) = {}
      BY DEF Range
    <3>3. f < j
      BY <1>1, <2>1, <2>3, <3>1, <3>2 DEF NonEmptySlots
    <3>4. InSlot(e, f) /\ InSlot(g, j) /\ g \in Event
      BY <1>1, <1>3, <2>1, <3>1 DEF QueueInv, SlotsOK, Range
    <3>5. e.timestamp \in Nat /\ g.timestamp \in Nat
      BY <1>3, <3>4, SlotAssumption
    <3> QED  BY <3>3, <3>4, <3>5, SlotsInOrder DEF InSlot
  <2> QED  BY <2>2, <2>3
<1>8. Pending' = Pending \ {e}
  <2>1. ASSUME NEW g \in Pending'  PROVE g \in Pending /\ g # e
    <3>1. PICK j \in ScannedSlots : g \in Range(eventSlots'[j])
      BY DEF Pending, EventsIn, ScannedSlots, SlotCount
    <3>2. j \in AllocatedSlots
      BY ScannedAllocated
    <3>3. CASE j = f
      BY <1>1, <1>3, <1>4, <3>1, <3>3 DEF Pending, EventsIn
    <3>4. CASE j # f
      <4>1. g \in Range(eventSlots[j])
        BY <1>4, <3>1, <3>2, <3>4
      <4>2. InSlot(g, j) /\ InSlot(e, f)
        BY <1>1, <1>3, <3>2, <4>1 DEF QueueInv, SlotsOK
      <4> QED  BY <3>4, <4>1, <4>2 DEF InSlot, Pending, EventsIn
    <3> QED  BY <3>3, <3>4
  <2>2. ASSUME NEW g \in Pending, g # e  PROVE g \in Pending'
    <3>1. PICK j \in ScannedSlots : g \in Range(eventSlots[j])
      BY DEF Pending, EventsIn
    <3>2. j \in AllocatedSlots
      BY ScannedAllocated
    <3>3. g \in Range(eventSlots'[j])
      BY <1>3, <1>4, <2>2, <3>1, <3>2
    <3> QED  BY <3>3 DEF Pending, EventsIn, ScannedSlots, SlotCount
  <2> QED  BY <2>1, <2>2
<1>9. EventsIn(AllocatedSlots)' = EventsIn(AllocatedSlots) \ {e}
  <2>1. ASSUME NEW j \in AllocatedSlots
        PROVE  Range(eventSlots'[j]) = Range(eventSlots[j]) \ {e}
    <3>1. CASE j = f
      BY <1>3, <1>4, <3>1
    <3>2. CASE j # f
      <4>1. \A g \in Range(eventSlots[j]) : InSlot(g, j)
        BY DEF QueueInv, SlotsOK
      <4>2. InSlot(e, f)
        BY <1>1, <1>3 DEF QueueInv, SlotsOK
      <4>3. e \notin Range(eventSlots[j])
        BY <3>2, <4>1, <4>2 DEF InSlot
      <4> QED  BY <1>4, <3>2, <4>3
    <3> QED  BY <3>1, <3>2
  <2>2. EventsIn(AllocatedSlots)' = UNION {Range(eventSlots'[j]) : j \in AllocatedSlots}
    BY DEF EventsIn, AllocatedSlots, SlotCount
  <2>3. EventsIn(AllocatedSlots) = UNION {Range(eventSlots[j]) : j \in AllocatedSlots}
    BY DEF EventsIn
  <2> QED  BY <2>1, <2>2, <2>3
<1>10. Order!Consume
  BY <1>2, <1>6, <1>7, <1>8 DEF Order!Consume
<1> QED  BY <1>3, <1>5, <1>6, <1>7, <1>8, <1>9, <1>10 DEF e

LEMMA AddStep ==
    ASSUME QueueInv, NEW e \in Event, AddEvent(e)
    PROVE  QueueInv' /\ Order!Schedule
<1>1. e.timestamp >= clock /\ clock' = clock
  BY DEF AddEvent
<1>2. eventSlots' = WithEvent(eventSlots, e) /\ InRange(e) /\ e \notin EventsOf(eventSlots, AllocatedSlots)
  BY DEF AddEvent, EventsIn, EventsOf
<1>3. /\ SlotsOK(eventSlots')
      /\ \A S \in SUBSET AllocatedSlots :
           /\ EventsOf(eventSlots, S) \subseteq EventsOf(eventSlots', S)
           /\ EventsOf(eventSlots', S) \subseteq EventsOf(eventSlots, S) \cup {e}
  BY <1>2, WithEventSlots DEF QueueInv
<1>4. Pending \subseteq Pending' /\ Pending' \subseteq Pending \cup {e}
  BY <1>3, ScannedAllocated DEF Pending, EventsIn, EventsOf, ScannedSlots, SlotCount
<1>5. QueueInv'
  BY <1>3 DEF QueueInv, SlotsOK, Ordered, InSlot, AllocatedSlots, SlotCount, whichslot
<1> QED  BY <1>1, <1>4, <1>5 DEF Order!Schedule

(* A queue that nothing touches.                                            *)
LEMMA QueueSame ==
    ASSUME UNCHANGED eventSlots
    PROVE  /\ QueueInv => QueueInv'
           /\ Pending' = Pending /\ EventsIn(AllocatedSlots)' = EventsIn(AllocatedSlots)
<1>1. QueueInv => QueueInv'
  BY DEF QueueInv, SlotsOK, Ordered, InSlot, AllocatedSlots, SlotCount, whichslot
<1>2. EventsIn(AllocatedSlots)' = EventsIn(AllocatedSlots) /\ Pending' = Pending
  BY DEF EventsIn, Pending, ScannedSlots, AllocatedSlots, SlotCount
<1> QED  BY <1>1, <1>2

(* The queue before anything is added to it.                                *)
LEMMA QueueEmpty ==
    ASSUME QueueInit
    PROVE  EventsIn(AllocatedSlots) = {} /\ Pending = {}
<1>1. Range(<< >>) = {}
  BY DEF Range
<1> QED  BY <1>1, ScannedAllocated DEF QueueInit, Pending, EventsIn

(* Every pending event is an event of an allocated slot.                    *)
LEMMA PendingAllocated ==
    ASSUME QueueInv
    PROVE  /\ Pending \subseteq EventsIn(AllocatedSlots)
           /\ \A e \in EventsIn(AllocatedSlots) : e \in Event /\ e.timestamp >= exprStartAt
<1>1. Pending \subseteq EventsIn(AllocatedSlots)
  BY ScannedAllocated DEF Pending, EventsIn
<1>2. ASSUME NEW e \in EventsIn(AllocatedSlots)  PROVE e \in Event /\ e.timestamp >= exprStartAt
  <2>1. PICK i \in AllocatedSlots : e \in Range(eventSlots[i])
    BY DEF EventsIn
  <2>2. InSlot(e, i) /\ eventSlots[i] \in Seq(Event)
    BY <2>1 DEF QueueInv, SlotsOK
  <2> QED  BY <2>1, <2>2, RangeIndex DEF InSlot
<1> QED  BY <1>1, <1>2

(* What stands first is not of K while another event of the same time waits. *)
LEMMA PickTies ==
    ASSUME QueueInv, PickEvent, NEW K, QueueTies(eventSlots, K)
    PROVE  /\ QueueTies(eventSlots', K)
           /\ NextEvent \in K => \A g \in Pending \ K : NextEvent.timestamp < g.timestamp
<1> DEFINE f == FirstSlot
           e == NextEvent
           list == eventSlots[f]
<1>1. f \in AllocatedSlots /\ f \in ScannedSlots /\ list # << >>
      /\ e = Head(list) /\ eventSlots' = [eventSlots EXCEPT ![f] = Tail(@)]
  BY FirstIsFirst, ScannedAllocated DEF PickEvent, NonEmptySlots, NextEvent
<1>2. /\ list \in Seq(Event) /\ eventSlots \in [AllocatedSlots -> Seq(Event)]
      /\ TiesBehind(list, K)
  BY <1>1 DEF QueueInv, SlotsOK, QueueTies
<1>3. e \in Pending /\ \A g \in Pending : e.timestamp =< g.timestamp
  BY PickStep
<1> HIDE DEF f, e, list
<1>4. /\ Len(list) \in Nat \ {0} /\ e = list[1]
      /\ Len(Tail(list)) = Len(list) - 1
      /\ \A i \in 1 .. Len(list) - 1 : Tail(list)[i] = list[i + 1]
  BY <1>1, <1>2, EmptySeq, HeadTailProperties
<1>5. TiesBehind(Tail(list), K)
  <2> SUFFICES ASSUME NEW i \in 1 .. Len(list) - 1, NEW j \in 1 .. Len(list) - 1, i < j,
                      Tail(list)[i] \in K, Tail(list)[j] \notin K
               PROVE  Tail(list)[i].timestamp < Tail(list)[j].timestamp
    BY <1>4 DEF TiesBehind
  <2>1. i + 1 \in 1 .. Len(list) /\ j + 1 \in 1 .. Len(list) /\ i + 1 < j + 1
    BY <1>4
  <2> QED  BY <1>2, <1>4, <2>1 DEF TiesBehind
<1>6. ASSUME NEW i \in AllocatedSlots  PROVE TiesBehind(eventSlots'[i], K)
  <2>1. CASE i = f
    <3>1. eventSlots'[f] = Tail(list)
      BY <1>1, <1>2 DEF list
    <3> QED  BY <1>5, <2>1, <3>1
  <2>2. CASE i # f
    <3>1. eventSlots'[i] = eventSlots[i]
      BY <1>1, <1>2, <2>2
    <3> QED  BY <3>1 DEF QueueTies
  <2> QED  BY <2>1, <2>2
<1>7. ASSUME e \in K, NEW g \in Pending, g \notin K  PROVE e.timestamp < g.timestamp
  <2>1. PICK j \in ScannedSlots : g \in Range(eventSlots[j])
    BY DEF Pending, EventsIn
  <2>2. j \in AllocatedSlots /\ eventSlots[j] \in Seq(Event)
    BY <1>2, <2>1, ScannedAllocated
  <2>3. CASE j = f
    <3>1. PICK i \in 1 .. Len(list) : g = list[i]
      BY <1>2, <2>1, <2>3, RangeIndex DEF list
    <3>2. i # 1
      BY <1>4, <1>7, <3>1
    <3>3. 1 \in 1 .. Len(list) /\ 1 < i
      BY <1>4, <3>2
    <3> QED  BY <1>2, <1>4, <1>7, <3>1, <3>3 DEF TiesBehind
  <2>4. CASE j # f
    <3>1. e.timestamp =< g.timestamp
      BY <1>3
    <3>2. InSlot(e, f) /\ InSlot(g, j)
      <4>1. e \in Range(eventSlots[f])
        BY <1>2, <1>4, RangeIndex DEF list
      <4> QED  BY <1>1, <2>1, <2>2, <4>1 DEF QueueInv, SlotsOK
    <3>3. e.timestamp # g.timestamp
      BY <2>4, <3>2 DEF InSlot
    <3>4. e.timestamp \in Nat /\ g.timestamp \in Nat
      BY <1>3, PendingAllocated, SlotAssumption
    <3> QED  BY <3>1, <3>3, <3>4
  <2> QED  BY <2>3, <2>4
<1>8. QueueTies(eventSlots', K)
  BY <1>6 DEF QueueTies
<1> QED  BY <1>7, <1>8 DEF e

(* Scheduling a list of events before the simulation starts.                *)
LEMMA ScheduleStep ==
    ASSUME QueueInv, clock = exprStartAt, clock' = clock,
           NEW list \in Seq(Event),
           \A i \in 1 .. Len(list) :
               InRange(list[i]) /\ list[i] \notin EventsIn(AllocatedSlots),
           \A i, j \in 1 .. Len(list) : i < j => list[i] # list[j],
           eventSlots' = AddedAll(eventSlots, list)
    PROVE  /\ QueueInv'
           /\ EventsIn(AllocatedSlots)' = EventsIn(AllocatedSlots) \cup Range(list)
           /\ Order!Schedule
           /\ \A e \in Pending' : e.timestamp >= clock'
<1>1. \A i \in 1 .. Len(list) :
        InRange(list[i]) /\ list[i] \notin EventsOf(eventSlots, AllocatedSlots)
  BY DEF EventsIn, EventsOf
<1>2. /\ SlotsOK(eventSlots')
      /\ EventsOf(eventSlots', AllocatedSlots) = EventsOf(eventSlots, AllocatedSlots) \cup Range(list)
  BY <1>1, EventsAdded DEF QueueInv
<1>3. QueueInv'
  BY <1>2 DEF QueueInv, SlotsOK, Ordered, InSlot, AllocatedSlots, SlotCount, whichslot
<1>4. EventsIn(AllocatedSlots)' = EventsOf(eventSlots', AllocatedSlots)
  BY DEF EventsIn, EventsOf, AllocatedSlots, SlotCount
<1>5. Pending' = EventsOf(eventSlots', ScannedSlots)
  BY DEF Pending, EventsIn, EventsOf, ScannedSlots, SlotCount
<1>6. ASSUME NEW e \in Pending  PROVE e \in Pending'
  <2>1. PICK i \in ScannedSlots : e \in Range(eventSlots[i])
    BY DEF Pending, EventsIn
  <2>2. i \in AllocatedSlots
    BY ScannedAllocated
  <2>3. PICK j \in AllocatedSlots : e \in Range(eventSlots'[j])
    <3>1. e \in EventsOf(eventSlots, AllocatedSlots)
      BY <2>1, <2>2 DEF EventsOf
    <3>2. e \in EventsOf(eventSlots', AllocatedSlots)
      BY <1>2, <3>1
    <3> QED  BY <3>2 DEF EventsOf
  <2>4. InSlot(e, i)
    BY <2>1, <2>2 DEF QueueInv, SlotsOK
  <2>5. InSlot(e, j)
    BY <1>2, <2>3 DEF SlotsOK
  <2>6. i = j
    BY <2>4, <2>5 DEF InSlot
  <2> QED  BY <1>5, <2>3, <2>6 DEF EventsOf
<1>7. ASSUME NEW e \in Pending'  PROVE e \in Event /\ e.timestamp >= clock
  <2>1. PICK j \in ScannedSlots : e \in Range(eventSlots'[j])
    BY <1>5 DEF EventsOf
  <2>2. j \in AllocatedSlots
    BY ScannedAllocated
  <2>3. InSlot(e, j) /\ eventSlots'[j] \in Seq(Event)
    BY <1>2, <2>1, <2>2 DEF SlotsOK
  <2> QED  BY <2>1, <2>3, RangeIndex DEF InSlot
<1>8. Order!Schedule
  BY <1>6, <1>7 DEF Order!Schedule
<1>9. EventsIn(AllocatedSlots) = EventsOf(eventSlots, AllocatedSlots)
  BY DEF EventsIn, EventsOf
<1>10. EventsIn(AllocatedSlots)' = EventsIn(AllocatedSlots) \cup Range(list)
  BY <1>2, <1>4, <1>9
<1>11. \A e \in Pending' : e.timestamp >= clock'
  BY <1>7
<1> QED  BY <1>3, <1>8, <1>10, <1>11

(* The queue implements EventOrder: whatever the clients add now or later,  *)
(* consume_an_event takes a pending event that no other one precedes, out   *)
(* of the slots and lists add_event distributed them to.                    *)
THEOREM ConsumedInOrderHolds == QueueSpec => ConsumedInOrder
<1>1. QueueInit => Order!Init
  <2> SUFFICES ASSUME QueueInit  PROVE Order!Init
    OBVIOUS
  <2>1. Range(<< >>) = {}
    BY DEF Range
  <2>2. Pending = {}
    BY <2>1, ScannedAllocated DEF QueueInit, Pending, EventsIn
  <2> QED  BY <2>2 DEF QueueInit, Order!Init
<1>2. QueueInv /\ [QueueNext]_<<eventSlots, clock>> => QueueInv' /\ [Order!Next]_Order!vars
  <2> SUFFICES ASSUME QueueInv, [QueueNext]_<<eventSlots, clock>>
               PROVE  QueueInv' /\ [Order!Next]_Order!vars
    OBVIOUS
  <2>1. CASE PickEvent
    BY <2>1, PickStep DEF Order!Next
  <2>2. ASSUME NEW e \in Event, AddEvent(e)  PROVE QueueInv' /\ Order!Next
    BY <2>2, AddStep DEF Order!Next
  <2>3. CASE UNCHANGED <<eventSlots, clock>>
    BY <2>3 DEF QueueInv, SlotsOK, Ordered, InSlot, AllocatedSlots, ScannedSlots, SlotCount, whichslot,
                Order!vars, Pending, EventsIn
  <2> QED  BY <2>1, <2>2, <2>3 DEF QueueNext
<1> QED  BY <1>1, <1>2, QueueInitInv, PTL DEF QueueSpec, Order!Spec, ConsumedInOrder
=============================================================================

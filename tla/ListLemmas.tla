----------------------------- MODULE ListLemmas -----------------------------
(***************************************************************************)
(* What the proofs need of lists: where AddInSequenceFromTail puts a datum, *)
(* what RemoveAt leaves, and folds.                                         *)
(*                                                                          *)
(* An operator cannot be a parameter of a lemma.  The order of a sorted     *)
(* list is therefore given by a function, the key of each datum, and so is  *)
(* the step of a fold; the module that uses them shows that its operators   *)
(* agree with such functions on the values that occur.                      *)
(***************************************************************************)
EXTENDS Duallist, SequenceTheorems, WellFoundedInduction, TLAPS

-----------------------------------------------------------------------------
(* The first and the last of some numbers, and induction.                   *)

LEMMA SmallestExists ==
    ASSUME NEW S \in SUBSET Nat, S # {}
    PROVE  \E m \in S : \A j \in S : m =< j
<1>1. IsWellFoundedOn(OpToRel(<, Nat), Nat)
  BY NatLessThanWellFounded
<1>2. \E m \in S : \A j \in S : ~(<<j, m>> \in OpToRel(<, Nat))
  BY <1>1, WFMin
<1>3. PICK m \in S : \A j \in S : ~(<<j, m>> \in OpToRel(<, Nat))
  BY <1>2
<1>4. \A j \in S : ~(j < m)
  BY <1>3 DEF OpToRel
<1> QED  BY <1>4

LEMMA LargestIndex ==
    ASSUME NEW n \in Nat, NEW S \in SUBSET (1 .. n), S # {}
    PROVE  Max(S) \in S /\ \A j \in S : Max(S) >= j
<1> DEFINE T == {n - i : i \in S}
<1>1. T \in SUBSET Nat /\ T # {}
  <2>1. \A i \in S : n - i \in Nat
    OBVIOUS
  <2>2. PICK i \in S : TRUE
    OBVIOUS
  <2>3. n - i \in T
    BY <2>2
  <2> QED  BY <2>1, <2>3
<1>2. PICK t \in T : \A u \in T : t =< u
  BY <1>1, SmallestExists
<1>3. PICK m \in S : t = n - m
  BY <1>2
<1>4. \A j \in S : m >= j
  <2> SUFFICES ASSUME NEW j \in S  PROVE m >= j
    OBVIOUS
  <2>1. n - j \in T
    OBVIOUS
  <2>2. n - m =< n - j
    BY <1>2, <1>3, <2>1
  <2> QED  BY <2>2
<1> QED  BY <1>3, <1>4 DEF Max

(* Induction up to n, on a set.                                              *)
LEMMA UpTo ==
    ASSUME NEW n \in Nat, NEW T, 0 \in T,
           \A k \in 0 .. n - 1 : k \in T => k + 1 \in T
    PROVE  \A k \in 0 .. n : k \in T
<1> DEFINE U == {k \in 0 .. n : k \notin T}
<1> SUFFICES ASSUME U # {}  PROVE FALSE
  OBVIOUS
<1>1. U \in SUBSET Nat
  OBVIOUS
<1>2. PICK k \in U : \A j \in U : k =< j
  BY <1>1, SmallestExists
<1>3. k # 0 /\ k - 1 \in 0 .. n - 1 /\ k - 1 \in Nat /\ k = (k - 1) + 1
  OBVIOUS
<1>4. k - 1 \notin U
  BY <1>2, <1>3
<1> QED  BY <1>3, <1>4

LEMMA MaxOfInterval ==
    ASSUME NEW k \in Nat, k > 0
    PROVE  Max(1 .. k) = k /\ (1 .. k) \ {k} = 1 .. k - 1
<1>1. k \in 1 .. k /\ \A y \in 1 .. k : k >= y
  OBVIOUS
<1>2. Max(1 .. k) \in 1 .. k /\ \A y \in 1 .. k : Max(1 .. k) >= y
  BY <1>1, LargestIndex
<1> QED  BY <1>1, <1>2

LEMMA MaxWith ==
    ASSUME NEW n \in Nat, NEW s \in SUBSET (1 .. n), n \in s
    PROVE  Max(s) = n
<1>1. Max(s) \in s /\ \A y \in s : Max(s) >= y
  BY LargestIndex
<1>2. Max(s) >= n /\ Max(s) \in 1 .. n
  BY <1>1
<1> QED  BY <1>2

-----------------------------------------------------------------------------
(* Sorted lists.                                                            *)

Sorted(list, key) ==
    \A i, j \in 1 .. Len(list) : i < j => key[list[i]] =< key[list[j]]

Distinct(list, key) ==
    \A i, j \in 1 .. Len(list) : i < j => key[list[i]] # key[list[j]]

(* AddInSequenceFromTail, with the order given by a key.                     *)
AddedByKey(list, e, key) ==
    LET notAfter == {i \in DOMAIN list : ~ key[e] < key[list[i]]}
    IN  InsertAt(list, 1 + (IF notAfter = {} THEN 0 ELSE Max(notAfter)), e)

(* new is list with e in place k.                                           *)
PutAt(new, list, e, k) ==
    /\ k \in 1 .. Len(list) + 1
    /\ \A i \in 1 .. Len(list) + 1 :
         new[i] = IF i < k THEN list[i] ELSE IF i = k THEN e ELSE list[i - 1]

(* ... behind the last one that is not later.                               *)
Behind(new, list, e, k, key) ==
    /\ PutAt(new, list, e, k)
    /\ \A i \in 1 .. k - 1 : key[list[i]] =< key[e]
    /\ \A i \in k .. Len(list) : key[e] < key[list[i]]

LEMMA InsertAtProperties ==
    ASSUME NEW Data, NEW list \in Seq(Data), NEW e \in Data, NEW k \in 1 .. Len(list) + 1,
           NEW new, new = InsertAt(list, k, e)
    PROVE  /\ new \in Seq(Data) /\ Len(new) = Len(list) + 1
           /\ PutAt(new, list, e, k)
<1> DEFINE A == SubSeq(list, 1, k - 1)
           B == SubSeq(list, k, Len(list))
<1>1. /\ Len(list) \in Nat /\ k \in Nat \ {0}
      /\ \A i \in 1 .. Len(list) : list[i] \in Data
  OBVIOUS
<1>2. new = A \o <<e>> \o B
  BY DEF InsertAt
<1>7. A \in Seq(Data) /\ Len(A) = k - 1 /\ \A i \in 1 .. k - 1 : A[i] = list[i]
  <2>1. \A i \in 1 .. k - 1 : list[i] \in Data
    BY <1>1
  <2>2. /\ A \in Seq(Data) /\ Len(A) = IF 1 <= k - 1 THEN (k - 1) - 1 + 1 ELSE 0
        /\ \A i \in 1 .. (k - 1) - 1 + 1 : A[i] = list[1 + i - 1]
    BY <1>1, <2>1, SubSeqProperties
  <2> HIDE DEF A
  <2> QED  BY <1>1, <2>2
<1>8. /\ B \in Seq(Data) /\ Len(B) = Len(list) + 1 - k
      /\ \A i \in 1 .. Len(list) + 1 - k : B[i] = list[k + i - 1]
  <2>1. \A i \in k .. Len(list) : list[i] \in Data
    BY <1>1
  <2>2. /\ B \in Seq(Data) /\ Len(B) = IF k <= Len(list) THEN Len(list) - k + 1 ELSE 0
        /\ \A i \in 1 .. Len(list) - k + 1 : B[i] = list[k + i - 1]
    BY <1>1, <2>1, SubSeqProperties
  <2> HIDE DEF B
  <2> QED  BY <1>1, <2>2
<1> HIDE DEF A, B
<1> DEFINE C == A \o <<e>>
<1>9. /\ C \in Seq(Data) /\ Len(C) = k
      /\ \A i \in 1 .. k : C[i] = IF i < k THEN list[i] ELSE e
  <2>1. <<e>> \in Seq(Data) /\ Len(<<e>>) = 1 /\ <<e>>[1] = e
    OBVIOUS
  <2>2. /\ C \in Seq(Data) /\ Len(C) = Len(A) + Len(<<e>>)
        /\ \A i \in 1 .. Len(A) + Len(<<e>>) :
             C[i] = IF i <= Len(A) THEN A[i] ELSE <<e>>[i - Len(A)]
    BY <1>7, <2>1, ConcatProperties
  <2> HIDE DEF C
  <2>3. \A i \in 1 .. k : C[i] = IF i <= k - 1 THEN A[i] ELSE <<e>>[i - (k - 1)]
    <3>1. Len(A) = k - 1 /\ Len(A) + Len(<<e>>) = k
      BY <1>1, <1>7, <2>1
    <3> QED  BY <2>2, <3>1
  <2>4. \A i \in 1 .. k : (i <= k - 1 <=> i < k) /\ (~(i < k) => i - (k - 1) = 1)
    BY <1>1
  <2> QED  BY <1>1, <1>7, <2>1, <2>2, <2>3, <2>4
<1>10. /\ new \in Seq(Data) /\ Len(new) = Len(list) + 1
       /\ \A i \in 1 .. Len(list) + 1 : new[i] = IF i <= k THEN C[i] ELSE B[i - k]
  <2>1. new = C \o B
    BY <1>2
  <2> HIDE DEF C
  <2>2. /\ C \o B \in Seq(Data) /\ Len(C \o B) = Len(C) + Len(B)
        /\ \A i \in 1 .. Len(C) + Len(B) :
             (C \o B)[i] = IF i <= Len(C) THEN C[i] ELSE B[i - Len(C)]
    BY <1>8, <1>9, ConcatProperties
  <2>3. k + (Len(list) + 1 - k) = Len(list) + 1
    BY <1>1
  <2> QED  BY <1>8, <1>9, <2>1, <2>2, <2>3
<1> HIDE DEF C
<1>11. ASSUME NEW i \in 1 .. Len(list) + 1
       PROVE  new[i] = IF i < k THEN list[i] ELSE IF i = k THEN e ELSE list[i - 1]
  <2>1. CASE i <= k
    BY <1>1, <1>9, <1>10, <2>1
  <2>2. CASE i > k
    <3>1. i - k \in 1 .. Len(list) + 1 - k /\ k + (i - k) - 1 = i - 1
      BY <1>1, <2>2
    <3>2. new[i] = B[i - k] /\ B[i - k] = list[k + (i - k) - 1]
      BY <1>1, <1>8, <1>10, <2>2, <3>1
    <3> QED  BY <1>1, <2>2, <3>1, <3>2
  <2> QED  BY <1>1, <2>1, <2>2
<1> QED  BY <1>10, <1>11 DEF PutAt

(* duallist_add_in_sequence_from_tail puts the datum behind the last one     *)
(* that is not later.                                                       *)
LEMMA InsertedAt ==
    ASSUME NEW Data, NEW list \in Seq(Data), NEW e \in Data, NEW key \in [Data -> Int],
           Sorted(list, key), NEW new, new = AddedByKey(list, e, key)
    PROVE  /\ new \in Seq(Data) /\ Len(new) = Len(list) + 1
           /\ \E k : Behind(new, list, e, k, key)
<1> DEFINE S == {i \in DOMAIN list : ~ key[e] < key[list[i]]}
           m == IF S = {} THEN 0 ELSE Max(S)
           k == 1 + m
<1>0. /\ \A i \in 1 .. Len(list) : list[i] \in Data /\ key[list[i]] \in Int
      /\ key[e] \in Int
  OBVIOUS
<1>1. S \in SUBSET (1 .. Len(list)) /\ Len(list) \in Nat
  OBVIOUS
<1>2. m \in 0 .. Len(list) /\ (m # 0 => m \in S) /\ \A i \in S : i =< m
  <2>1. CASE S = {}
    BY <2>1, <1>1
  <2>2. CASE S # {}
    <3>1. Max(S) \in S /\ \A j \in S : Max(S) >= j
      BY <1>1, <2>2, LargestIndex
    <3>2. m = Max(S)
      BY <2>2
    <3> HIDE DEF S, m
    <3>3. m \in S /\ \A j \in S : m >= j
      BY <3>1, <3>2
    <3>4. m \in 1 .. Len(list) /\ S \subseteq 1 .. Len(list)
      BY <1>1, <3>3
    <3> QED  BY <1>1, <3>3, <3>4
  <2> QED  BY <2>1, <2>2
<1>3. new = InsertAt(list, k, e)
  BY DEF AddedByKey
<1>4. \A i \in 1 .. k - 1 : key[list[i]] =< key[e]
  <2> SUFFICES ASSUME NEW i \in 1 .. m  PROVE key[list[i]] =< key[e]
    BY <1>2
  <2>1. m \in S /\ i \in 1 .. Len(list)
    BY <1>2
  <2>2. key[list[m]] =< key[e]
    BY <2>1, <1>0
  <2>3. i = m \/ key[list[i]] =< key[list[m]]
    BY <2>1, <1>1, <1>2 DEF Sorted
  <2> HIDE DEF m, S
  <2> QED  BY <2>1, <2>2, <2>3, <1>0, <1>1
<1>5. \A i \in k .. Len(list) : key[e] < key[list[i]]
  <2> SUFFICES ASSUME NEW i \in k .. Len(list)  PROVE key[e] < key[list[i]]
    OBVIOUS
  <2>1. i \in 1 .. Len(list) /\ i \notin S
    <3> HIDE DEF S, m
    <3> QED  BY <1>1, <1>2
  <2> QED  BY <2>1
<1> HIDE DEF m
<1>6. k \in 1 .. Len(list) + 1
  BY <1>1, <1>2
<1> HIDE DEF k
<1>7. new \in Seq(Data) /\ Len(new) = Len(list) + 1 /\ PutAt(new, list, e, k)
  BY <1>3, <1>6, InsertAtProperties
<1> QED  BY <1>4, <1>5, <1>7 DEF Behind

(* The list stays sorted and gains the datum.                               *)
LEMMA InsertedSorted ==
    ASSUME NEW Data, NEW list \in Seq(Data), NEW e \in Data, NEW key \in [Data -> Int],
           Sorted(list, key), NEW new, NEW k, Len(new) = Len(list) + 1,
           Behind(new, list, e, k, key)
    PROVE  Sorted(new, key)
<1>1. /\ Len(list) \in Nat /\ Len(new) \in Nat
      /\ k \in 1 .. Len(list) + 1
      /\ \A i \in 1 .. Len(new) :
           new[i] = IF i < k THEN list[i] ELSE IF i = k THEN e ELSE list[i - 1]
      /\ \A i \in 1 .. k - 1 : key[list[i]] =< key[e]
      /\ \A i \in k .. Len(list) : key[e] < key[list[i]]
      /\ key[e] \in Int /\ \A i \in 1 .. Len(list) : key[list[i]] \in Int
  BY DEF Behind, PutAt
<1> SUFFICES ASSUME NEW i \in 1 .. Len(new), NEW j \in 1 .. Len(new), i < j
             PROVE  key[new[i]] =< key[new[j]]
  BY DEF Sorted
<1>2. CASE j < k
  <2>1. new[i] = list[i] /\ new[j] = list[j] /\ i \in 1 .. Len(list) /\ j \in 1 .. Len(list)
    BY <1>1, <1>2
  <2> QED  BY <2>1 DEF Sorted
<1>3. CASE j = k
  <2>1. new[i] = list[i] /\ new[j] = e /\ i \in 1 .. k - 1
    BY <1>1, <1>3
  <2> QED  BY <2>1, <1>1
<1>4. CASE j > k /\ i = k
  <2>1. new[i] = e /\ new[j] = list[j - 1] /\ j - 1 \in k .. Len(list) /\ j - 1 \in 1 .. Len(list)
    BY <1>1, <1>4
  <2> QED  BY <2>1, <1>1
<1>5. CASE j > k /\ i < k
  <2>1. i < j - 1 /\ i \in 1 .. Len(list) /\ j - 1 \in 1 .. Len(list)
    BY <1>1, <1>5
  <2>2. ~(j < k) /\ j # k
    BY <1>1, <1>5
  <2>3. new[i] = list[i] /\ new[j] = list[j - 1]
    BY <1>1, <1>5, <2>2
  <2> QED  BY <2>1, <2>3 DEF Sorted
<1>6. CASE j > k /\ i > k
  <2>1. /\ new[i] = list[i - 1] /\ new[j] = list[j - 1] /\ i - 1 < j - 1
        /\ i - 1 \in 1 .. Len(list) /\ j - 1 \in 1 .. Len(list)
    BY <1>1, <1>6
  <2> QED  BY <2>1 DEF Sorted
<1> QED  BY <1>1, <1>2, <1>3, <1>4, <1>5, <1>6

LEMMA RangeIndex ==
    ASSUME NEW Data, NEW list \in Seq(Data)
    PROVE  /\ Len(list) \in Nat /\ Range(list) \subseteq Data
           /\ \A i \in 1 .. Len(list) : list[i] \in Range(list)
           /\ \A x \in Range(list) : \E i \in 1 .. Len(list) : x = list[i]
BY DEF Range

(* What is in the new list, and where.                                      *)
LEMMA PutAtRange ==
    ASSUME NEW Data, NEW list \in Seq(Data), NEW e \in Data, NEW new \in Seq(Data), NEW k,
           Len(new) = Len(list) + 1, PutAt(new, list, e, k)
    PROVE  Range(new) = Range(list) \cup {e}
<1>1. /\ Len(list) \in Nat /\ k \in 1 .. Len(new)
      /\ \A i \in 1 .. Len(new) :
           new[i] = IF i < k THEN list[i] ELSE IF i = k THEN e ELSE list[i - 1]
  BY DEF PutAt
<1>2. ASSUME NEW x \in Range(new)  PROVE x \in Range(list) \cup {e}
  <2>1. PICK i \in 1 .. Len(new) : x = new[i]
    BY <1>1 DEF Range
  <2>2. CASE i < k
    BY <1>1, <2>1, <2>2 DEF Range
  <2>3. CASE i = k
    BY <1>1, <2>1, <2>3
  <2>4. CASE i > k
    <3>1. x = list[i - 1] /\ i - 1 \in 1 .. Len(list)
      BY <1>1, <2>1, <2>4
    <3> QED  BY <3>1 DEF Range
  <2> QED  BY <2>1, <2>2, <2>3, <2>4, <1>1
<1>3. e \in Range(new)
  BY <1>1 DEF Range
<1>4. ASSUME NEW x \in Range(list)  PROVE x \in Range(new)
  <2>1. PICK i \in 1 .. Len(list) : x = list[i]
    BY DEF Range
  <2>2. CASE i < k
    <3>1. i \in 1 .. Len(new) /\ new[i] = x
      BY <1>1, <2>1, <2>2
    <3> QED  BY <1>1, <3>1 DEF Range
  <2>3. CASE i >= k
    <3>1. i + 1 \in 1 .. Len(new) /\ new[i + 1] = list[(i + 1) - 1] /\ (i + 1) - 1 = i
      BY <1>1, <2>1, <2>3
    <3>2. new[i + 1] = x
      BY <2>1, <3>1
    <3>3. \A m \in 1 .. Len(new) : new[m] \in Range(new)
      BY RangeIndex
    <3> QED  BY <3>1, <3>2, <3>3
  <2>4. i \in Int /\ k \in Int
    BY <1>1, <2>1
  <2> QED  BY <2>2, <2>3, <2>4
<1> QED  BY <1>2, <1>3, <1>4

(* A list without duplicates of some key has none with a new datum put into  *)
(* it that has another key.                                                 *)
LEMMA PutAtDistinct ==
    ASSUME NEW list, Len(list) \in Nat, NEW e, NEW new, NEW k, NEW key,
           Len(new) = Len(list) + 1,
           PutAt(new, list, e, k),
           Distinct(list, key), \A x \in 1 .. Len(list) : key[list[x]] # key[e]
    PROVE  Distinct(new, key)
<1> SUFFICES ASSUME NEW i \in 1 .. Len(new), NEW j \in 1 .. Len(new), i < j
             PROVE  key[new[i]] # key[new[j]]
  BY DEF Distinct
<1>0. \A x, y \in 1 .. Len(list) : x # y => key[list[x]] # key[list[y]]
  BY DEF Distinct
<1>1. /\ k \in 1 .. Len(new)
      /\ \A x \in 1 .. Len(new) :
           new[x] = IF x < k THEN list[x] ELSE IF x = k THEN e ELSE list[x - 1]
  BY DEF PutAt
<1>2. CASE j < k
  <2>1. new[i] = list[i] /\ new[j] = list[j]
    BY <1>1, <1>2
  <2>2. i \in 1 .. Len(list) /\ j \in 1 .. Len(list) /\ i # j
    BY <1>1, <1>2
  <2> QED  BY <1>0, <2>1, <2>2
<1>3. CASE j = k
  <2>1. new[i] = list[i] /\ new[j] = e
    BY <1>1, <1>3
  <2>2. i \in 1 .. Len(list)
    BY <1>1, <1>3
  <2> QED  BY <1>0, <2>1, <2>2
<1>4. CASE j > k /\ i = k
  <2>1. new[i] = e /\ new[j] = list[j - 1]
    BY <1>1, <1>4
  <2>2. j - 1 \in 1 .. Len(list)
    BY <1>1, <1>4
  <2> QED  BY <1>0, <2>1, <2>2
<1>5. CASE j > k /\ i < k
  <2>1. new[i] = list[i] /\ new[j] = list[j - 1]
    BY <1>1, <1>5
  <2>2. i \in 1 .. Len(list) /\ j - 1 \in 1 .. Len(list) /\ i # j - 1
    BY <1>1, <1>5
  <2> QED  BY <1>0, <2>1, <2>2
<1>6. CASE j > k /\ i > k
  <2>1. new[i] = list[i - 1] /\ new[j] = list[j - 1]
    BY <1>1, <1>6
  <2>2. i - 1 \in 1 .. Len(list) /\ j - 1 \in 1 .. Len(list) /\ i - 1 # j - 1
    BY <1>1, <1>6
  <2> QED  BY <1>0, <2>1, <2>2
<1> QED  BY <1>1, <1>2, <1>3, <1>4, <1>5, <1>6

LEMMA RemoveAtProperties ==
    ASSUME NEW Data, NEW list \in Seq(Data), NEW k \in 1 .. Len(list),
           NEW new, new = RemoveAt(list, k)
    PROVE  /\ new \in Seq(Data) /\ Len(new) = Len(list) - 1
           /\ \A i \in 1 .. Len(list) - 1 : new[i] = IF i < k THEN list[i] ELSE list[i + 1]
<1> DEFINE A == SubSeq(list, 1, k - 1)
           B == SubSeq(list, k + 1, Len(list))
<1>1. /\ Len(list) \in Nat /\ k \in Nat \ {0} /\ k =< Len(list)
      /\ \A i \in 1 .. Len(list) : list[i] \in Data
  OBVIOUS
<1>2. new = A \o B
  BY DEF RemoveAt
<1>3. A \in Seq(Data) /\ Len(A) = k - 1 /\ \A i \in 1 .. k - 1 : A[i] = list[i]
  <2>1. \A i \in 1 .. k - 1 : list[i] \in Data
    BY <1>1
  <2>2. /\ A \in Seq(Data) /\ Len(A) = IF 1 <= k - 1 THEN (k - 1) - 1 + 1 ELSE 0
        /\ \A i \in 1 .. (k - 1) - 1 + 1 : A[i] = list[1 + i - 1]
    BY <1>1, <2>1, SubSeqProperties
  <2> HIDE DEF A
  <2> QED  BY <1>1, <2>2
<1>4. /\ B \in Seq(Data) /\ Len(B) = Len(list) - k
      /\ \A i \in 1 .. Len(list) - k : B[i] = list[k + i]
  <2>1. \A i \in k + 1 .. Len(list) : list[i] \in Data
    BY <1>1
  <2>2. /\ B \in Seq(Data) /\ Len(B) = IF k + 1 <= Len(list) THEN Len(list) - (k + 1) + 1 ELSE 0
        /\ \A i \in 1 .. Len(list) - (k + 1) + 1 : B[i] = list[(k + 1) + i - 1]
    <3>1. PICK m \in Int, n \in Int : m = k + 1 /\ n = Len(list)
      BY <1>1
    <3>2. /\ SubSeq(list, m, n) \in Seq(Data)
          /\ Len(SubSeq(list, m, n)) = IF m <= n THEN n - m + 1 ELSE 0
          /\ \A i \in 1 .. n - m + 1 : SubSeq(list, m, n)[i] = list[m + i - 1]
      BY <2>1, <3>1, SubSeqProperties
    <3> QED  BY <3>1, <3>2
  <2> HIDE DEF B
  <2>3. Len(list) - (k + 1) + 1 = Len(list) - k /\ \A i \in Nat : (k + 1) + i - 1 = k + i
    BY <1>1
  <2>4. B \in Seq(Data) /\ Len(B) = Len(list) - k
    <3>1. CASE k + 1 <= Len(list)
      BY <2>2, <2>3, <3>1
    <3>2. CASE ~(k + 1 <= Len(list))
      <4>1. Len(B) = 0 /\ B \in Seq(Data)
        BY <2>2, <3>2
      <4>2. Len(list) - k = 0
        BY <1>1, <3>2
      <4> QED  BY <4>1, <4>2
    <3> QED  BY <3>1, <3>2
  <2>5. ASSUME NEW i \in 1 .. Len(list) - k  PROVE B[i] = list[k + i]
    <3>1. i \in Nat /\ i \in 1 .. Len(list) - (k + 1) + 1
      BY <1>1, <2>3
    <3>2. B[i] = list[(k + 1) + i - 1]
      BY <2>2, <3>1
    <3> QED  BY <2>3, <3>1, <3>2
  <2> QED  BY <2>4, <2>5
<1> HIDE DEF A, B
<1>5. /\ new \in Seq(Data) /\ Len(new) = Len(A) + Len(B)
      /\ \A i \in 1 .. Len(A) + Len(B) : new[i] = IF i <= Len(A) THEN A[i] ELSE B[i - Len(A)]
  <2>1. A \in Seq(Data) /\ B \in Seq(Data)
    BY <1>3, <1>4
  <2>2. /\ A \o B \in Seq(Data) /\ Len(A \o B) = Len(A) + Len(B)
        /\ \A i \in 1 .. Len(A) + Len(B) :
             (A \o B)[i] = IF i <= Len(A) THEN A[i] ELSE B[i - Len(A)]
    BY <2>1, ConcatProperties
  <2> QED  BY <1>2, <2>2
<1>6. Len(A) + Len(B) = Len(list) - 1
  BY <1>1, <1>3, <1>4
<1>7. ASSUME NEW i \in 1 .. Len(list) - 1
      PROVE  new[i] = IF i < k THEN list[i] ELSE list[i + 1]
  <2>1. CASE i < k
    BY <1>1, <1>3, <1>5, <1>6, <2>1
  <2>2. CASE i >= k
    <3>1. i - (k - 1) \in 1 .. Len(list) - k /\ k + (i - (k - 1)) = i + 1
      BY <1>1, <2>2
    <3>2. new[i] = B[i - (k - 1)]
      BY <1>1, <1>3, <1>5, <1>6, <2>2
    <3> QED  BY <1>1, <1>4, <2>2, <3>1, <3>2
  <2> QED  BY <1>1, <2>1, <2>2
<1> QED  BY <1>5, <1>6, <1>7

(* What is removed leaves the rest in order.                                *)
LEMMA RemoveAtRest ==
    ASSUME NEW Data, NEW list \in Seq(Data), NEW k \in 1 .. Len(list),
           NEW new, new = RemoveAt(list, k), NEW key
    PROVE  /\ Sorted(list, key) => Sorted(new, key)
           /\ Distinct(list, key) => Distinct(new, key)
<1>1. /\ Len(list) \in Nat /\ Len(new) = Len(list) - 1
      /\ \A i \in 1 .. Len(list) - 1 : new[i] = IF i < k THEN list[i] ELSE list[i + 1]
  BY RemoveAtProperties
<1> DEFINE old == [i \in 1 .. Len(new) |-> IF i < k THEN i ELSE i + 1]
<1>2. \A i \in 1 .. Len(new) : old[i] \in 1 .. Len(list) /\ new[i] = list[old[i]]
  BY <1>1
<1>3. \A i, j \in 1 .. Len(new) : i < j => old[i] < old[j]
  BY <1>1
<1> HIDE DEF old
<1>4. ASSUME Sorted(list, key)  PROVE Sorted(new, key)
  BY <1>2, <1>3, <1>4 DEF Sorted
<1>5. ASSUME Distinct(list, key)  PROVE Distinct(new, key)
  BY <1>2, <1>3, <1>5 DEF Distinct
<1> QED  BY <1>4, <1>5

LEMMA RemoveAtRange ==
    ASSUME NEW Data, NEW list \in Seq(Data), NEW k \in 1 .. Len(list),
           NEW new, new = RemoveAt(list, k), NEW key, Distinct(list, key)
    PROVE  \A x : x \in Range(new) <=> x \in Range(list) /\ key[x] # key[list[k]]
<1>1. /\ Len(list) \in Nat /\ Len(new) = Len(list) - 1 /\ new \in Seq(Data)
      /\ \A i \in 1 .. Len(list) - 1 : new[i] = IF i < k THEN list[i] ELSE list[i + 1]
  BY RemoveAtProperties
<1>2. \A i \in 1 .. Len(list) : i # k => key[list[i]] # key[list[k]]
  <2> SUFFICES ASSUME NEW i \in 1 .. Len(list), i # k  PROVE key[list[i]] # key[list[k]]
    OBVIOUS
  <2>1. i < k \/ k < i
    OBVIOUS
  <2> QED  BY <2>1 DEF Distinct
<1>3. ASSUME NEW x \in Range(new)  PROVE x \in Range(list) /\ key[x] # key[list[k]]
  <2>1. PICK i \in 1 .. Len(new) : x = new[i]
    BY <1>1, RangeIndex
  <2>2. CASE i < k
    <3>1. x = list[i] /\ i \in 1 .. Len(list) /\ i # k
      BY <1>1, <2>1, <2>2
    <3> QED  BY <1>2, <3>1, RangeIndex
  <2>3. CASE ~(i < k)
    <3>1. x = list[i + 1] /\ i + 1 \in 1 .. Len(list) /\ i + 1 # k
      BY <1>1, <2>1, <2>3
    <3> QED  BY <1>2, <3>1, RangeIndex
  <2> QED  BY <2>2, <2>3
<1>4. ASSUME NEW x \in Range(list), key[x] # key[list[k]]  PROVE x \in Range(new)
  <2>1. PICK i \in 1 .. Len(list) : x = list[i]
    BY RangeIndex
  <2>2. i # k
    BY <1>4, <2>1
  <2>3. CASE i < k
    <3>1. i \in 1 .. Len(new) /\ new[i] = x
      BY <1>1, <2>1, <2>3
    <3> QED  BY <1>1, <3>1, RangeIndex
  <2>4. CASE i > k
    <3>1. i - 1 \in 1 .. Len(new) /\ ~(i - 1 < k) /\ (i - 1) + 1 = i
      BY <1>1, <2>1, <2>4
    <3>2. new[i - 1] = list[(i - 1) + 1]
      BY <1>1, <3>1
    <3> QED  BY <1>1, <2>1, <3>1, <3>2, RangeIndex
  <2> QED  BY <2>2, <2>3, <2>4
<1> QED  BY <1>3, <1>4

-----------------------------------------------------------------------------
(* Folds.                                                                   *)

(* f is the fold of step over 1 .. k, with the results of all the subsets.  *)
FoldsTo(f, k, base, step) ==
    \A s \in SUBSET (1 .. k) :
        f[s] = IF s = {} THEN base ELSE step[Max(s)][f[s \ {Max(s)}]]

LEMMA FoldExists ==
    ASSUME NEW n \in Nat, NEW V, NEW base \in V, NEW step \in [1 .. n -> [V -> V]]
    PROVE  \E f \in [SUBSET (1 .. n) -> V] : FoldsTo(f, n, base, step)
<1> DEFINE P(k) == \E f \in [SUBSET (1 .. k) -> V] : FoldsTo(f, k, base, step)
           T == {k \in 0 .. n : P(k)}
<1>1. P(0)
  <2> DEFINE f == [s \in SUBSET (1 .. 0) |-> base]
  <2>1. f \in [SUBSET (1 .. 0) -> V]
    OBVIOUS
  <2>2. \A s \in SUBSET (1 .. 0) : f[s] = base /\ s = {}
    OBVIOUS
  <2> HIDE DEF f
  <2>3. FoldsTo(f, 0, base, step)
    BY <2>2 DEF FoldsTo
  <2> QED  BY <2>1, <2>3
<1>2. ASSUME NEW k \in 0 .. n - 1, P(k)  PROVE P(k + 1)
  <2>1. PICK f \in [SUBSET (1 .. k) -> V] : FoldsTo(f, k, base, step)
    BY <1>2
  <2> DEFINE g == [s \in SUBSET (1 .. k + 1) |->
                     IF k + 1 \in s THEN step[k + 1][f[s \ {k + 1}]] ELSE f[s]]
  <2>2. /\ k \in Nat /\ k + 1 \in Nat /\ k + 1 \in 1 .. n
        /\ SUBSET (1 .. k) \subseteq SUBSET (1 .. k + 1)
        /\ \A s \in SUBSET (1 .. k + 1) : k + 1 \notin s => s \in SUBSET (1 .. k)
        /\ \A s \in SUBSET (1 .. k + 1) : s \ {k + 1} \in SUBSET (1 .. k)
    <3>1. \A x \in 1 .. k + 1 : x # k + 1 => x \in 1 .. k
      OBVIOUS
    <3> QED  BY <3>1
  <2>3. g \in [SUBSET (1 .. k + 1) -> V]
    BY <2>1, <2>2
  <2>4. \A s \in SUBSET (1 .. k) : g[s] = f[s]
    <3>1. \A s \in SUBSET (1 .. k) : k + 1 \notin s
      OBVIOUS
    <3> QED  BY <2>2, <3>1
  <2>5. \A s \in SUBSET (1 .. k + 1) :
           k + 1 \in s => g[s] = step[k + 1][f[s \ {k + 1}]]
    OBVIOUS
  <2> HIDE DEF g
  <2>6. ASSUME NEW s \in SUBSET (1 .. k + 1)
        PROVE  g[s] = IF s = {} THEN base ELSE step[Max(s)][g[s \ {Max(s)}]]
    <3>1. CASE k + 1 \in s
      <4>1. Max(s) = k + 1
        BY <2>2, <3>1, MaxWith
      <4> QED  BY <2>2, <2>4, <2>5, <3>1, <4>1
    <3>2. CASE k + 1 \notin s
      <4>1. s \in SUBSET (1 .. k) /\ s \ {Max(s)} \in SUBSET (1 .. k)
        BY <2>2, <3>2
      <4> QED  BY <2>1, <2>4, <4>1 DEF FoldsTo
    <3> QED  BY <3>1, <3>2
  <2>7. FoldsTo(g, k + 1, base, step)
    BY <2>6 DEF FoldsTo
  <2> QED  BY <2>3, <2>7
<1> HIDE DEF P
<1>3. \A k \in 0 .. n : k \in T
  <2>1. 0 \in T /\ \A k \in 0 .. n - 1 : k \in T => k + 1 \in T
    BY <1>1, <1>2
  <2> HIDE DEF T
  <2> QED  BY <2>1, UpTo
<1>4. P(n)
  BY <1>3
<1> QED  BY <1>4 DEF P

(* A fold as the sequence of its intermediate results.                      *)
Trace(r, n, base, step) ==
    /\ r[0] = base
    /\ \A i \in 1 .. n : r[i] = step[i][r[i - 1]]

LEMMA FoldTrace ==
    ASSUME NEW n \in Nat, NEW f, NEW base, NEW step, FoldsTo(f, n, base, step)
    PROVE  Trace([i \in 0 .. n |-> f[1 .. i]], n, base, step)
<1> DEFINE r == [i \in 0 .. n |-> f[1 .. i]]
<1>1. r[0] = base
  <2>1. 1 .. 0 = {}
    OBVIOUS
  <2>2. {} \in SUBSET (1 .. n)
    OBVIOUS
  <2> QED  BY <2>1, <2>2 DEF FoldsTo
<1>2. ASSUME NEW i \in 1 .. n  PROVE r[i] = step[i][r[i - 1]]
  <2>1. /\ i \in Nat /\ i > 0 /\ i - 1 \in 0 .. n /\ i \in 0 .. n
        /\ 1 .. i \in SUBSET (1 .. n) /\ 1 .. i # {}
    OBVIOUS
  <2>2. Max(1 .. i) = i /\ (1 .. i) \ {i} = 1 .. i - 1
    BY <2>1, MaxOfInterval
  <2>3. f[1 .. i] = step[i][f[1 .. i - 1]]
    BY <2>1, <2>2 DEF FoldsTo
  <2> QED  BY <2>1, <2>3
<1> QED  BY <1>1, <1>2 DEF Trace

=============================================================================

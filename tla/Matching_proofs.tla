---------------------------- MODULE Matching_proofs ----------------------------
(***************************************************************************)
(* A round of Matching never leaves fewer cars with a link.                *)
(***************************************************************************)
EXTENDS Matching, FiniteSetTheorems, TLAPS

LEMMA LinkedFinite ==
    ASSUME NEW m \in Matchings, IsFiniteSet(Cars)
    PROVE  IsFiniteSet(Linked(m)) /\ Cardinality(Linked(m)) \in Nat
<1>1. IsFiniteSet(Linked(m))
  BY FS_Subset DEF Linked
<1> QED
  BY <1>1, FS_CardinalityType

(* A round from matching m to matching n: a car that loses its link gives   *)
(* it to the car its partner links to, which had none.                      *)
LEMMA NotFewer ==
    ASSUME NEW m \in Matchings, NEW n \in Matchings, IsFiniteSet(Cars), None \notin Cars,
           \A c \in Linked(n) : n[c] # m[c] => None \in {m[c], m[n[c]]},
           \A c \in Linked(m) \ Linked(n) : m[c] \in Linked(n)
    PROVE  Cardinality(Linked(m)) <= Cardinality(Linked(n))
<1> DEFINE heir == [c \in Linked(m) |-> IF c \in Linked(n) THEN c ELSE n[m[c]]]
<1>1. \A c \in Linked(m) : m[c] \in Cars /\ m[m[c]] = c /\ m[c] \in Linked(m)
  BY DEF Matchings, Linked
<1>2. \A c \in Linked(n) : n[c] \in Cars /\ n[n[c]] = c /\ n[c] \in Linked(n)
  BY DEF Matchings, Linked
<1>3. \A c \in Linked(m) \ Linked(n) :
          /\ m[c] \in Linked(n) /\ n[m[c]] \in Linked(n) /\ n[m[c]] \notin Linked(m)
  <2> TAKE c \in Linked(m) \ Linked(n)
  <2>1. m[c] \in Linked(n) /\ n[m[c]] \in Linked(n) /\ n[n[m[c]]] = m[c]
    BY <1>2
  <2>2. n[m[c]] # c
    BY <2>1
  <2>3. n[m[c]] # m[m[c]]
    BY <1>1, <2>2
  <2>4. None \in {m[m[c]], m[n[m[c]]]}
    BY <2>1, <2>3
  <2>5. m[m[c]] # None
    BY <1>1
  <2> QED
    BY <2>1, <2>4, <2>5 DEF Linked
<1>4. heir \in [Linked(m) -> Linked(n)]
  BY <1>3
<1>5. ASSUME NEW a \in Linked(m), NEW b \in Linked(m), heir[a] = heir[b]
      PROVE  a = b
  <2>1. CASE a \in Linked(n) /\ b \in Linked(n)
    BY <1>5, <2>1
  <2>2. CASE a \in Linked(n) /\ b \notin Linked(n)
    BY <1>5, <2>2, <1>3
  <2>3. CASE a \notin Linked(n) /\ b \in Linked(n)
    BY <1>5, <2>3, <1>3
  <2>4. CASE a \notin Linked(n) /\ b \notin Linked(n)
    <3>1. n[m[a]] = n[m[b]]
      BY <1>5, <2>4
    <3>2. m[a] = m[b]
      BY <2>4, <3>1, <1>2, <1>3
    <3> QED
      BY <3>2, <1>1
  <2> QED
    BY <2>1, <2>2, <2>3, <2>4
<1>6. heir \in Injection(Linked(m), Linked(n))
  BY <1>4, <1>5 DEF Injection, IsInjective
<1>7. IsFiniteSet(Linked(n))
  BY LinkedFinite
<1> QED
  BY <1>6, <1>7, FS_Injection

(* The links are a matching in every state.                                 *)
IsMatching == partner \in Matchings

LEMMA AlwaysMatching ==
    ASSUME None \notin Cars
    PROVE  Spec => []IsMatching
<1>1. Init => IsMatching
  BY DEF Init, IsMatching, Matchings
<1>2. IsMatching /\ [Round]_partner => IsMatching'
  BY DEF Round, IsMatching
<1> QED
  BY <1>1, <1>2, PTL DEF Spec

(* The abstract specification alone, and so every protocol that implements  *)
(* it, never lets the number of linked cars drop.                           *)
THEOREM LinksNeverDrop ==
    ASSUME IsFiniteSet(Cars), None \notin Cars
    PROVE  Spec => NeverFewer
<1>1. IsMatching /\ [Round]_partner
        => [Cardinality(Linked(partner)) <= Cardinality(Linked(partner'))]_partner
  BY NotFewer DEF Round, IsMatching
<1> QED
  BY <1>1, AlwaysMatching, PTL DEF Spec, NeverFewer
================================================================================

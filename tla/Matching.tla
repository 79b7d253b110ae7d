------------------------------- MODULE Matching -------------------------------
(***************************************************************************)
(* What a round of the mmWave link selection promises: the links are a     *)
(* matching, a new link always has an end that was free, and a car loses   *)
(* its link only to a new link of the partner it had.                      *)
(***************************************************************************)
EXTENDS Integers, FiniteSets

CONSTANTS Cars, None

VARIABLE partner

Matchings == {m \in [Cars -> Cars \cup {None}] :
                \A c \in Cars : m[c] # None => m[c] # c /\ m[m[c]] = c}

Linked(m) == {c \in Cars : m[c] # None}

Init == partner = [c \in Cars |-> None]

Round ==
    /\ partner' \in Matchings
    /\ \A c \in Linked(partner') :
         partner'[c] # partner[c] => None \in {partner[c], partner[partner'[c]]}
    /\ \A c \in Linked(partner) \ Linked(partner') : partner[c] \in Linked(partner')

Spec == Init /\ [][Round]_partner

(* The number of cars with a link never drops.                             *)
NeverFewer == [][Cardinality(Linked(partner)) <= Cardinality(Linked(partner'))]_partner
===============================================================================

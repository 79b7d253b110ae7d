--------------------------- MODULE MCBeaconInterval ---------------------------
(* A small instance of BeaconInterval.                                      *)
EXTENDS BeaconInterval, TLC

AnyGraph == {g \in [Cars -> SUBSET Cars] : \A c \in Cars : c \notin g[c]}

(* Each car sends at a rate of its own; a record read through a lost Item   *)
(* shows a car, for every neighbour, nothing left or everything.            *)
CarRates == {[c \in Cars |-> [d \in Cars |-> r[c]]] : r \in [Cars -> {0, 2}]}
CarLookups == {[c \in Cars |-> [d \in Cars |-> l[c]]] : l \in [Cars -> {0, DATA_TIME}]}

LeftRange == -1 .. DATA_TIME

Symmetry == Permutations(Cars)
===============================================================================

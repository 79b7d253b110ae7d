----------------------------- MODULE MCLinkMatch -----------------------------
(* Small instances of LinkMatch.                                            *)
EXTENDS LinkMatch, TLC

(* Any car may know any other, or not; or every car knows every other.      *)
AnyGraph == {g \in [Cars -> SUBSET Cars] : \A c \in Cars : c \notin g[c]}
AllKnown == {[c \in Cars |-> Cars \ {c}]}

(* Each car has a rate of its own with each other car.                      *)
OwnRates == {r \in [Cars -> [Cars -> 1 .. 2]] : \A c \in Cars : r[c][c] = 1}

(* One rate for both ends of a link.                                        *)
SharedRates == {r \in OwnRates : \A c, d \in Cars : r[c][d] = r[d][c]}
OneRate == {[c \in Cars |-> [d \in Cars |-> 1]]}

Symmetry == Permutations(Cars)
==============================================================================

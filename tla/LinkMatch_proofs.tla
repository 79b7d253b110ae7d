--------------------------- MODULE LinkMatch_proofs ---------------------------
(***************************************************************************)
(* What holds of LinkMatch for every set of cars, every discovery, every   *)
(* rate and every number of rounds.  The inductive invariant IInv adds to  *)
(* the properties what ties a choice to the lists it came from and, during *)
(* the pass that breaks links, how far an old link may be out of date.     *)
(***************************************************************************)
EXTENDS LinkMatch, TLAPS

P == INSTANCE Matching_proofs WITH partner <- Link

Pass == {"choose", "decide", "break"}

(* The passes run while there are rounds to go; only COMNET_Match breaks.   *)
Rounds ==
    /\ pc \in Pass => z < SELECT_TIME
    /\ pc = "break" => Protocol = "comnet"

RoleOfLinked == \A c \in Cars : role[c] = 2 <=> choose_car[c] # None

(* A choice comes from the car's own list; who is told of it is in the list *)
(* of the car chosen.                                                       *)
ChoiceKnown == \A c \in Cars : choice_car[c] # None => choice_car[c] \in known[c]

Told ==
    \A d \in Cars : choose_neigh[d] = IF pc = "decide" THEN Heard(choice_car, d) ELSE {}

(* A linked car chooses in COMNET_Match only, a free car with no lower rate.*)
LinkedChoice ==
    pc = "decide" =>
        \A c \in Cars : role[c] = 2 /\ choice_car[c] # None =>
            /\ Protocol = "comnet"
            /\ role[choice_car[c]] # 2
            /\ data_rate[c][choose_car[c]] <= data_rate[c][choice_car[c]]

(* Outside the pass that breaks links every link is mutual.                 *)
Mutual == pc # "break" => \A c \in Cars : choose_car[c] # None => choose_car[choose_car[c]] = c

(* In it, a car may still point to a partner that has linked to another     *)
(* one, until the pass visits it.                                           *)
AlmostMutual ==
    pc = "break" =>
        \A c \in Cars : choose_car[c] # None =>
            \/ choose_car[choose_car[c]] = c
            \/ /\ c \in todo /\ choose_car[choose_car[c]] # None
               /\ choose_car[choose_car[choose_car[c]]] = choose_car[c]

IInv == /\ TypeOK /\ Rounds /\ RoleOfLinked /\ ChoiceKnown /\ Told
        /\ LinkedChoice /\ Mutual /\ AlmostMutual /\ PartnerKnown

-----------------------------------------------------------------------------
(* The constants as the steps need them.                                    *)

LEMMA GraphType ==
    ASSUME TypeOK
    PROVE  /\ known \in [Cars -> SUBSET Cars] /\ \A c \in Cars : c \notin known[c]
           /\ data_rate \in [Cars -> [Cars -> Nat]]
  BY ConstantsOK DEF TypeOK

(* Agreement is mutual: the car a car agrees to link to agrees to link to   *)
(* it, and one of the two had no link.                                      *)
LEMMA Agreement ==
    ASSUME IInv, pc = "decide", NEW c \in Cars, Agreed(c)
    PROVE  /\ choice_car[c] \in Cars /\ choice_car[c] # c
           /\ choice_car[choice_car[c]] = c
           /\ Agreed(choice_car[c])
           /\ role[c] # 2 \/ role[choice_car[c]] # 2
           /\ c \in known[choice_car[c]] /\ choice_car[c] \in known[c]
<1> DEFINE d == choice_car[c]
<1>1. /\ choice_car \in [Cars -> Cars \cup {None}]
      /\ known \in [Cars -> SUBSET Cars] /\ \A x \in Cars : x \notin known[x]
  BY GraphType DEF IInv, TypeOK
<1>2. d # None /\ d \in choose_neigh[c]
  BY DEF Agreed
<1>3. d \in Cars /\ d \in known[c]
  BY <1>1, <1>2 DEF IInv, ChoiceKnown
<1>4. choose_neigh[c] = Heard(choice_car, c) /\ choose_neigh[d] = Heard(choice_car, d)
  BY <1>3 DEF IInv, Told
<1>5. choice_car[d] = c
  BY <1>2, <1>4 DEF Heard
<1>6. c \in known[d]
  BY <1>3, <1>5, ConstantsOK DEF IInv, ChoiceKnown
<1>7. Agreed(d)
  BY <1>4, <1>5, <1>6, ConstantsOK DEF Agreed, Heard
<1>8. role[c] # 2 \/ role[d] # 2
  BY <1>2 DEF IInv, LinkedChoice
<1> QED
  BY <1>1, <1>3, <1>5, <1>6, <1>7, <1>8

(* Both forms of the pass in which the cars decide do the same to the       *)
(* links: in random_Match no linked car agrees.                             *)
LEMMA Decision ==
    ASSUME IInv, DecideRandom \/ DecideComnet
    PROVE  /\ pc = "decide"
           /\ choose_car' = [c \in Cars |-> IF Agreed(c) THEN choice_car[c] ELSE choose_car[c]]
           /\ role' = [c \in Cars |-> IF Agreed(c) THEN 2 ELSE role[c]]
           /\ UNCHANGED lists
           /\ Protocol = "random" => \A c \in Cars : Agreed(c) => role[c] # 2
<1>1. CASE DecideComnet
  BY <1>1 DEF DecideComnet, NewPartner
<1>2. CASE DecideRandom
  <2>1. pc = "decide" /\ Protocol = "random" /\ UNCHANGED lists
    BY <1>2 DEF DecideRandom
  <2>2. \A c \in Cars : Agreed(c) => role[c] # 2
    BY <2>1 DEF IInv, LinkedChoice, Agreed
  <2> QED
    BY <1>2, <2>1, <2>2 DEF DecideRandom, NewPartner
<1> QED
  BY <1>1, <1>2

-----------------------------------------------------------------------------
(* Every step preserves IInv.                                               *)

LEMMA InitInv == Init => IInv
<1> SUFFICES ASSUME Init PROVE IInv
  OBVIOUS
<1>1. /\ choose_car = [c \in Cars |-> None] /\ choice_car = [c \in Cars |-> None]
      /\ role = [c \in Cars |-> 0] /\ choose_neigh = [c \in Cars |-> {}]
      /\ z = 0 /\ pc = "choose" /\ todo = {}
  BY DEF Init, Nobody
<1>2. TypeOK
  BY <1>1, ConstantsOK DEF Init, TypeOK
<1>3. Rounds /\ RoleOfLinked
  BY <1>1, ConstantsOK DEF Rounds, Pass, RoleOfLinked
<1>4. ChoiceKnown /\ Told /\ LinkedChoice
  BY <1>1 DEF ChoiceKnown, Told, LinkedChoice
<1>5. Mutual /\ AlmostMutual /\ PartnerKnown
  BY <1>1 DEF Mutual, AlmostMutual, PartnerKnown
<1> QED
  BY <1>2, <1>3, <1>4, <1>5 DEF IInv

LEMMA ChooseInv == IInv /\ Choose => IInv'
<1> SUFFICES ASSUME IInv, Choose PROVE IInv'
  OBVIOUS
<1> USE DEF IInv
<1>1. /\ choice_car' \in [Cars -> Cars \cup {None}]
      /\ \A c \in Cars : choice_car'[c] \in Picks(c)
      /\ choose_neigh' = [d \in Cars |-> choose_neigh[d] \cup Heard(choice_car', d)]
      /\ pc = "choose" /\ pc' = "decide"
      /\ UNCHANGED <<lists, role, choose_car, z, todo>>
  BY DEF Choose
<1>2. /\ known' = known /\ data_rate' = data_rate /\ match_id' = match_id
      /\ role' = role /\ choose_car' = choose_car /\ z' = z /\ todo' = todo
  BY <1>1 DEF lists
<1>3. known \in [Cars -> SUBSET Cars]
  BY GraphType
<1>4. \A d \in Cars : choose_neigh'[d] = Heard(choice_car', d)
  BY <1>1 DEF Told
<1>5. \A d \in Cars : Heard(choice_car', d) \subseteq Cars
  BY <1>3 DEF Heard
<1>6. TypeOK'
  <2>1. choose_neigh' \in [Cars -> SUBSET Cars]
    BY <1>1, <1>4, <1>5
  <2> QED
    BY <1>1, <1>2, <2>1 DEF TypeOK
<1>7. ASSUME NEW c \in Cars, choice_car'[c] # None
      PROVE  /\ choice_car'[c] \in known[c]
             /\ role[c] = 2 => /\ Protocol = "comnet"
                               /\ ~Declines(c, choice_car'[c])
  <2>1. choice_car'[c] \in Picks(c)
    BY <1>1
  <2>2. CASE Protocol = "random"
    BY <1>7, <2>1, <2>2 DEF Picks, RandomPicks
  <2>3. CASE Protocol # "random"
    <3>1. Protocol = "comnet"
      BY <2>3, ConstantsOK
    <3>2. choice_car'[c] \in ComnetPicks(c)
      BY <2>1, <2>3 DEF Picks
    <3>3. Due(c) # {}
      BY <3>2, <1>7 DEF ComnetPicks
    <3>4. CASE role[c] = 2
      <4>1. PICK d \in Due(c) : choice_car'[c] = IF Declines(c, d) THEN None ELSE d
        BY <3>2, <3>3, <3>4 DEF ComnetPicks
      <4>2. choice_car'[c] = d /\ ~Declines(c, d)
        BY <4>1, <1>7
      <4> QED
        BY <3>1, <4>2 DEF Due
    <3>5. CASE role[c] # 2
      BY <3>2, <3>3, <3>5 DEF ComnetPicks, Due
    <3> QED
      BY <3>4, <3>5
  <2> QED
    BY <2>2, <2>3
<1>8. ChoiceKnown'
  BY <1>2, <1>7 DEF ChoiceKnown
<1>9. Told'
  BY <1>1, <1>2, <1>4 DEF Told, Heard
<1>10. LinkedChoice'
  <2> SUFFICES ASSUME NEW c \in Cars, role[c] = 2, choice_car'[c] # None
               PROVE  /\ Protocol = "comnet"
                      /\ role[choice_car'[c]] # 2
                      /\ data_rate[c][choose_car[c]] <= data_rate[c][choice_car'[c]]
    BY <1>2 DEF LinkedChoice
  <2>1. Protocol = "comnet" /\ ~Declines(c, choice_car'[c]) /\ choice_car'[c] \in Cars
    BY <1>3, <1>7
  <2>2. choose_car[c] \in Cars
    BY DEF RoleOfLinked, TypeOK
  <2>3. data_rate[c][choose_car[c]] \in Nat /\ data_rate[c][choice_car'[c]] \in Nat
    BY <2>1, <2>2, GraphType
  <2> QED
    BY <2>1, <2>3 DEF Declines
<1>11. Rounds' /\ RoleOfLinked' /\ Mutual' /\ AlmostMutual' /\ PartnerKnown'
  BY <1>1, <1>2 DEF Rounds, Pass, RoleOfLinked, Mutual, AlmostMutual, PartnerKnown
<1> QED
  BY <1>6, <1>8, <1>9, <1>10, <1>11

(* The parts of IInv about links, after the cars decide.                    *)
LEMMA DecideLinks ==
    ASSUME IInv, DecideRandom \/ DecideComnet
    PROVE  /\ role' \in [Cars -> {0, 2}] /\ choose_car' \in [Cars -> Cars \cup {None}]
           /\ RoleOfLinked' /\ PartnerKnown'
           /\ \A c \in Cars : choose_car'[c] # None =>
                 \/ choose_car'[choose_car'[c]] = c
                 \/ /\ Protocol = "comnet" /\ choose_car'[choose_car'[c]] # None
                    /\ choose_car'[choose_car'[choose_car'[c]]] = choose_car'[c]
<1> USE DEF IInv
<1>1. /\ pc = "decide"
      /\ choose_car' = [c \in Cars |-> IF Agreed(c) THEN choice_car[c] ELSE choose_car[c]]
      /\ role' = [c \in Cars |-> IF Agreed(c) THEN 2 ELSE role[c]]
      /\ known' = known
      /\ Protocol = "random" => \A c \in Cars : Agreed(c) => role[c] # 2
  BY Decision DEF lists
<1>2. \A c \in Cars : Agreed(c) =>
         /\ choice_car[c] \in Cars /\ choice_car[choice_car[c]] = c /\ Agreed(choice_car[c])
         /\ c \in known[choice_car[c]] /\ choice_car[c] \in known[c]
  BY <1>1, Agreement
<1>3. \A c \in Cars : choose_car[c] # None =>
         choose_car[c] \in Cars /\ choose_car[choose_car[c]] = c
  BY <1>1 DEF TypeOK, Mutual
<1>4. role' \in [Cars -> {0, 2}] /\ choose_car' \in [Cars -> Cars \cup {None}]
  BY <1>1, <1>2 DEF TypeOK
<1>5. RoleOfLinked'
  BY <1>1, <1>2, ConstantsOK DEF RoleOfLinked
<1>6. PartnerKnown'
  BY <1>1, <1>2 DEF PartnerKnown
<1>7. ASSUME NEW c \in Cars, choose_car'[c] # None
      PROVE  \/ choose_car'[choose_car'[c]] = c
             \/ /\ Protocol = "comnet" /\ choose_car'[choose_car'[c]] # None
                /\ choose_car'[choose_car'[choose_car'[c]]] = choose_car'[c]
  <2>1. CASE Agreed(c)
    BY <1>1, <1>2, <2>1
  <2>2. CASE ~Agreed(c)
    <3> DEFINE d == choose_car[c]
    <3>1. choose_car'[c] = d /\ d \in Cars /\ choose_car[d] = c
      BY <1>1, <1>3, <1>7, <2>2
    <3>2. CASE ~Agreed(d)
      BY <1>1, <3>1, <3>2
    <3>3. CASE Agreed(d)
      <4>1. /\ choose_car'[d] = choice_car[d] /\ choice_car[d] \in Cars
            /\ choose_car'[choice_car[d]] = d
        BY <1>1, <1>2, <3>1, <3>3
      <4>2. role[d] = 2
        BY <3>1, ConstantsOK DEF RoleOfLinked
      <4>3. Protocol = "comnet"
        BY <1>1, <3>1, <3>3, <4>2, ConstantsOK
      <4> QED
        BY <3>1, <4>1, <4>3, ConstantsOK
    <3> QED
      BY <3>2, <3>3
  <2> QED
    BY <2>1, <2>2
<1> QED
  BY <1>4, <1>5, <1>6, <1>7

LEMMA NextRoundType ==
    ASSUME IInv, pc \in Pass
    PROVE  /\ NextRound \in {"choose", "end"} /\ z + 1 \in 0 .. SELECT_TIME
           /\ NextRound = "choose" => z + 1 < SELECT_TIME
<1>1. z \in 0 .. SELECT_TIME /\ z < SELECT_TIME /\ SELECT_TIME \in Nat
  BY ConstantsOK DEF IInv, TypeOK, Rounds
<1> QED
  BY <1>1 DEF NextRound

LEMMA DecideRandomInv == IInv /\ DecideRandom => IInv'
<1> SUFFICES ASSUME IInv, DecideRandom PROVE IInv'
  OBVIOUS
<1> USE DEF IInv
<1>1. /\ pc = "decide" /\ Protocol = "random"
      /\ pc' = NextRound /\ z' = z + 1 /\ choice_car' = choice_car /\ todo' = todo
      /\ known' = known /\ data_rate' = data_rate /\ match_id' = match_id
      /\ choose_neigh' = [c \in Cars |-> {}]
  BY DEF DecideRandom, lists
<1>2. pc' \in {"choose", "end"} /\ z' \in 0 .. SELECT_TIME /\ (pc' = "choose" => z' < SELECT_TIME)
  BY <1>1, NextRoundType DEF Pass
<1>3. /\ role' \in [Cars -> {0, 2}] /\ choose_car' \in [Cars -> Cars \cup {None}]
      /\ RoleOfLinked' /\ PartnerKnown'
      /\ \A c \in Cars : choose_car'[c] # None => choose_car'[choose_car'[c]] = c
  BY <1>1, DecideLinks
<1>4. TypeOK'
  BY <1>1, <1>2, <1>3 DEF TypeOK
<1>5. Rounds' /\ Mutual' /\ AlmostMutual'
  BY <1>2, <1>3 DEF Rounds, Pass, Mutual, AlmostMutual
<1>6. ChoiceKnown' /\ Told' /\ LinkedChoice'
  BY <1>1, <1>2 DEF ChoiceKnown, Told, LinkedChoice
<1> QED
  BY <1>3, <1>4, <1>5, <1>6

LEMMA DecideComnetInv == IInv /\ DecideComnet => IInv'
<1> SUFFICES ASSUME IInv, DecideComnet PROVE IInv'
  OBVIOUS
<1> USE DEF IInv
<1>1. /\ pc = "decide" /\ Protocol = "comnet"
      /\ pc' = "break" /\ z' = z /\ choice_car' = [c \in Cars |-> None] /\ todo' = Cars
      /\ known' = known /\ data_rate' = data_rate /\ match_id' = match_id
      /\ choose_neigh' = [c \in Cars |-> {}]
  BY DEF DecideComnet, lists, Nobody
<1>2. /\ role' \in [Cars -> {0, 2}] /\ choose_car' \in [Cars -> Cars \cup {None}]
      /\ RoleOfLinked' /\ PartnerKnown'
      /\ \A c \in Cars : choose_car'[c] # None =>
            \/ choose_car'[choose_car'[c]] = c
            \/ /\ choose_car'[choose_car'[c]] # None
               /\ choose_car'[choose_car'[choose_car'[c]]] = choose_car'[c]
  BY DecideLinks
<1>3. TypeOK'
  BY <1>1, <1>2 DEF TypeOK
<1>4. Rounds' /\ Mutual' /\ AlmostMutual'
  BY <1>1, <1>2 DEF Rounds, Pass, Mutual, AlmostMutual
<1>5. ChoiceKnown' /\ Told' /\ LinkedChoice'
  BY <1>1 DEF ChoiceKnown, Told, LinkedChoice
<1> QED
  BY <1>2, <1>3, <1>4, <1>5

(* A car is taken out of its link only if nobody points to it any more.     *)
LEMMA LeftAlone ==
    ASSUME IInv, pc = "break", NEW c \in Cars, Left(c)
    PROVE  /\ \A x \in Cars : choose_car[x] # c
           /\ Link[c] = None
<1>1. /\ choose_car \in [Cars -> Cars \cup {None}]
      /\ choose_car[c] # None => choose_car[choose_car[c]] # c
  BY DEF IInv, TypeOK, RoleOfLinked, Left
<1>2. ASSUME NEW x \in Cars, choose_car[x] = c PROVE FALSE
  <2>1. choose_car[c] # x
    BY <1>1, <1>2, ConstantsOK
  <2>2. choose_car[c] # None /\ choose_car[choose_car[c]] = c
    BY <1>2, <2>1, ConstantsOK DEF IInv, AlmostMutual
  <2> QED
    BY <1>1, <2>2
<1> QED
  BY <1>1, <1>2 DEF Link

LEMMA BreakInv ==
    ASSUME IInv, NEW c \in Cars, BreakOld(c)
    PROVE  IInv'
<1> USE DEF IInv
<1>1. /\ pc = "break" /\ c \in todo /\ todo' = todo \ {c}
      /\ IF todo' = {} THEN pc' = NextRound /\ z' = z + 1 ELSE pc' = pc /\ z' = z
      /\ choice_car' = choice_car /\ choose_neigh' = choose_neigh
      /\ known' = known /\ data_rate' = data_rate /\ match_id' = match_id
      /\ role' = IF Left(c) THEN [role EXCEPT ![c] = 0] ELSE role
      /\ choose_car' = IF Left(c) THEN [choose_car EXCEPT ![c] = None] ELSE choose_car
  BY DEF BreakOld, lists
<1>2. /\ role \in [Cars -> {0, 2}] /\ choose_car \in [Cars -> Cars \cup {None}]
      /\ todo \subseteq Cars
  BY DEF TypeOK
<1>3. /\ pc' \in {"choose", "break", "end"} /\ z' \in 0 .. SELECT_TIME
      /\ pc' # "end" => z' < SELECT_TIME
      /\ pc' = "break" <=> todo' # {}
  BY <1>1, NextRoundType DEF Pass, TypeOK, Rounds
<1>4. \A x \in Cars : /\ role'[x] = IF Left(c) /\ x = c THEN 0 ELSE role[x]
                      /\ choose_car'[x] = IF Left(c) /\ x = c THEN None ELSE choose_car[x]
  BY <1>1, <1>2
<1>5. TypeOK'
  BY <1>1, <1>2, <1>3 DEF TypeOK
<1>6. RoleOfLinked' /\ PartnerKnown'
  BY <1>1, <1>4 DEF RoleOfLinked, PartnerKnown
<1>7. Left(c) => \A x \in Cars : choose_car[x] # c
  BY <1>1, LeftAlone
<1>8. ~Left(c) => role[c] = 2 /\ choose_car[c] # None /\ choose_car[choose_car[c]] = c
  BY DEF Left, RoleOfLinked
<1>9. ASSUME NEW x \in Cars, choose_car'[x] # None
      PROVE  \/ choose_car'[choose_car'[x]] = x
             \/ /\ x \in todo' /\ choose_car'[choose_car'[x]] # None
                /\ choose_car'[choose_car'[choose_car'[x]]] = choose_car'[x]
  <2> DEFINE d == choose_car[x]
  <2>1. choose_car'[x] = d /\ d \in Cars
    BY <1>2, <1>4, <1>9
  <2>2. \/ choose_car[d] = x
        \/ /\ x \in todo /\ choose_car[d] \in Cars /\ choose_car[choose_car[d]] = d
    BY <1>1, <1>2, <2>1, ConstantsOK DEF AlmostMutual
  <2>3. CASE ~Left(c)
    <3>1. choose_car' = choose_car
      BY <1>1, <2>3
    <3>2. x = c => choose_car[d] = x
      BY <1>8, <2>3
    <3> QED
      BY <1>1, <2>1, <2>2, <3>1, <3>2, ConstantsOK
  <2>4. CASE Left(c)
    <3>1. x # c /\ d # c
      BY <1>4, <1>7, <1>9, <2>4
    <3>2. choose_car'[d] = choose_car[d]
      BY <1>4, <2>1, <3>1
    <3>3. CASE choose_car[d] = x
      BY <2>1, <3>2, <3>3
    <3>4. CASE x \in todo /\ choose_car[d] \in Cars /\ choose_car[choose_car[d]] = d
      <4>1. choose_car[d] # c
        BY <1>7, <2>1, <2>4
      <4>2. choose_car'[choose_car[d]] = d
        BY <1>4, <3>4, <4>1
      <4> QED
        BY <1>1, <2>1, <3>1, <3>2, <3>4, <4>2, ConstantsOK
    <3> QED
      BY <2>2, <3>3, <3>4
  <2> QED
    BY <2>3, <2>4
<1>10. AlmostMutual'
  BY <1>9 DEF AlmostMutual
<1>11. Mutual'
  BY <1>3, <1>9 DEF Mutual
<1>12. Rounds'
  BY <1>1, <1>3 DEF Rounds, Pass
<1>13. ChoiceKnown' /\ Told' /\ LinkedChoice'
  <2>1. \A d \in Cars : choose_neigh[d] = {}
    BY <1>1 DEF Told
  <2> QED
    BY <1>1, <1>3, <2>1 DEF ChoiceKnown, Told, LinkedChoice
<1> QED
  BY <1>5, <1>6, <1>10, <1>11, <1>12, <1>13

LEMMA StutterInv == IInv /\ UNCHANGED vars => IInv'
  BY DEF IInv, vars, lists, TypeOK, Rounds, Pass, RoleOfLinked, ChoiceKnown, Told, Heard,
         LinkedChoice, Mutual, AlmostMutual, PartnerKnown

LEMMA NextInv == IInv /\ [Next]_vars => IInv'
  BY ChooseInv, DecideRandomInv, DecideComnetInv, BreakInv, StutterInv DEF Next

LEMMA Inductive == Spec => []IInv
  BY InitInv, NextInv, PTL DEF Spec

-----------------------------------------------------------------------------
(* What follows from IInv in every state.                                   *)

(* Every variable keeps its type; the function returns after SELECT_TIME    *)
(* rounds.                                                                  *)
THEOREM TypeCorrect == Spec => []TypeOK
<1>1. IInv => TypeOK
  BY DEF IInv
<1> QED
  BY <1>1, Inductive, PTL

(* Whatever discovery leaves behind, a link is between two cars that know   *)
(* each other: the search for the partner's record always finds it.         *)
THEOREM LinkedKnowEachOther == Spec => []PartnerKnown
<1>1. IInv => PartnerKnown
  BY DEF IInv
<1> QED
  BY <1>1, Inductive, PTL

(* At the end of every round role 2 and a mutual partner go together.       *)
THEOREM RoundsSymmetric == Spec => []RoundSymmetric
<1>1. IInv => RoundSymmetric
  BY DEF IInv, TypeOK, RoleOfLinked, Mutual, RoundSymmetric, Link
<1> QED
  BY <1>1, Inductive, PTL

(* In any order of the cars, the pass that breaks links reads no partner    *)
(* through NULL.                                                            *)
THEOREM NeverNull == Spec => []NoNullRead
<1>1. IInv => NoNullRead
  <2> SUFFICES ASSUME IInv, pc = "break", NEW c \in Cars, role[c] = 2
               PROVE  None \notin {choose_car[c], choose_car[choose_car[c]]}
    BY DEF NoNullRead, ThroughNull, IInv, TypeOK
  <2>1. choose_car[c] # None
    BY DEF IInv, RoleOfLinked
  <2>2. choose_car[choose_car[c]] # None
    BY <2>1, ConstantsOK DEF IInv, AlmostMutual
  <2> QED
    BY <2>1, <2>2
<1> QED
  BY <1>1, Inductive, PTL

-----------------------------------------------------------------------------
(* What one step may do to the links.                                       *)

LinksMatch == Link \in M!Matchings

LEMMA LinkMatching == IInv => LinksMatch
<1> SUFFICES ASSUME IInv PROVE Link \in M!Matchings
  BY DEF LinksMatch
<1>1. Link \in [Cars -> Cars \cup {None}]
  BY DEF Link, IInv, TypeOK
<1>2. ASSUME NEW c \in Cars, Link[c] # None PROVE Link[c] # c /\ Link[Link[c]] = c
  <2>1. Link[c] = choose_car[c] /\ choose_car[choose_car[c]] = c /\ choose_car[c] # None
    BY <1>2 DEF Link
  <2>2. choose_car[c] \in Cars
    BY <2>1 DEF IInv, TypeOK
  <2>3. choose_car[c] # c
    BY <2>1, GraphType DEF IInv, PartnerKnown
  <2> QED
    BY <2>1, <2>2, <2>3, ConstantsOK DEF Link
<1> QED
  BY <1>1, <1>2 DEF M!Matchings

LEMMA LinkMatchingNext == IInv' => LinksMatch'
  BY LinkMatching, PTL

(* Taking a car out of a link that is out of date changes no mutual link.   *)
LEMMA BreakLink ==
    ASSUME IInv, NEW c \in Cars, BreakOld(c)
    PROVE  Link' = Link
<1>1. pc = "break"
  BY DEF BreakOld
<1>2. CASE ~Left(c)
  <2>1. choose_car' = choose_car
    BY <1>2 DEF BreakOld
  <2> QED
    BY <2>1 DEF Link
<1>3. CASE Left(c)
  <2>1. /\ \A x \in Cars : choose_car'[x] = IF x = c THEN None ELSE choose_car[x]
        /\ \A x \in Cars : choose_car[x] # None => choose_car[x] \in Cars
    BY <1>3 DEF BreakOld, IInv, TypeOK
  <2>2. Link[c] = None /\ \A x \in Cars : choose_car[x] # c
    BY <1>1, <1>3, LeftAlone
  <2>3. ASSUME NEW x \in Cars PROVE Link'[x] = Link[x]
    <3>1. CASE x = c
      BY <2>1, <2>2, <3>1 DEF Link
    <3>2. CASE x # c
      BY <2>1, <2>2, <3>2 DEF Link
    <3> QED
      BY <3>1, <3>2
  <2> QED
    BY <2>3 DEF Link
<1> QED
  BY <1>2, <1>3

(* When the cars decide, a car that agrees gets the link it agreed to; any  *)
(* other keeps its link unless its partner agreed to another one.           *)
LEMMA DecideLink ==
    ASSUME IInv, DecideRandom \/ DecideComnet, NEW c \in Cars
    PROVE  /\ Link[c] = choose_car[c]
           /\ Agreed(c) => /\ Link'[c] = choice_car[c] /\ choice_car[c] \in Cars
                           /\ role[c] # 2 \/ role[choice_car[c]] # 2
           /\ ~Agreed(c) =>
                \/ Link'[c] = Link[c]
                \/ /\ Link'[c] = None /\ Link[c] \in Cars /\ Agreed(Link[c])
<1>1. /\ pc = "decide"
      /\ choose_car' = [x \in Cars |-> IF Agreed(x) THEN choice_car[x] ELSE choose_car[x]]
  BY Decision
<1>2. /\ choose_car \in [Cars -> Cars \cup {None}]
      /\ \A x \in Cars : choose_car[x] # None => choose_car[choose_car[x]] = x
  BY <1>1 DEF IInv, TypeOK, Mutual
<1>3. \A x \in Cars : Link[x] = choose_car[x]
  BY <1>2 DEF Link
<1>4. CASE Agreed(c)
  <2>1. /\ choice_car[c] \in Cars /\ choice_car[choice_car[c]] = c /\ Agreed(choice_car[c])
        /\ role[c] # 2 \/ role[choice_car[c]] # 2
    BY <1>1, <1>4, Agreement
  <2>2. choose_car'[c] = choice_car[c] /\ choose_car'[choice_car[c]] = c
    BY <1>1, <1>4, <2>1
  <2>3. Link'[c] = choice_car[c]
    BY <2>1, <2>2, ConstantsOK DEF Link
  <2> QED
    BY <1>3, <1>4, <2>1, <2>3
<1>5. CASE ~Agreed(c)
  <2>1. choose_car'[c] = choose_car[c]
    BY <1>1, <1>5
  <2>2. CASE choose_car[c] = None
    BY <1>3, <1>5, <2>1, <2>2 DEF Link
  <2>3. CASE choose_car[c] # None
    <3>1. choose_car[c] \in Cars /\ choose_car[choose_car[c]] = c
      BY <1>2, <2>3
    <3>2. CASE Agreed(choose_car[c])
      <4>1. Link'[c] \in {choose_car[c], None}
        BY <2>1 DEF Link
      <4> QED
        BY <1>3, <1>5, <3>1, <3>2, <4>1
    <3>3. CASE ~Agreed(choose_car[c])
      <4>1. choose_car'[choose_car[c]] = c
        BY <1>1, <3>1, <3>3
      <4>2. Link'[c] = choose_car[c]
        BY <2>1, <2>3, <4>1 DEF Link
      <4> QED
        BY <1>3, <1>5, <4>2
    <3> QED
      BY <3>2, <3>3
  <2> QED
    BY <2>2, <2>3
<1> QED
  BY <1>4, <1>5

(* Every step is a round of Matching or leaves the links alone.             *)
LEMMA StepIsRound ==
    ASSUME IInv, [Next]_vars
    PROVE  [M!Round]_Link
<1>1. CASE Choose
  BY <1>1 DEF Choose, Link
<1>2. CASE \E c \in Cars : BreakOld(c)
  BY <1>2, BreakLink
<1>3. CASE UNCHANGED vars
  BY <1>3 DEF vars, Link
<1>4. CASE DecideRandom \/ DecideComnet
  <2>1. Link' \in M!Matchings
    <3>1. IInv'
      BY <1>4, DecideRandomInv, DecideComnetInv
    <3> QED
      BY <3>1, LinkMatchingNext DEF LinksMatch
  <2>2. \A c \in Cars : choose_car[c] # None <=> role[c] = 2
    BY DEF IInv, RoleOfLinked
  <2>3. ASSUME NEW c \in Cars, Link'[c] # None, Link'[c] # Link[c]
        PROVE  None \in {Link[c], Link[Link'[c]]}
    <3>1. Agreed(c)
      BY <1>4, <2>3, DecideLink
    <3>2. /\ Link'[c] = choice_car[c] /\ choice_car[c] \in Cars
          /\ role[c] # 2 \/ role[choice_car[c]] # 2
          /\ Link[c] = choose_car[c]
      BY <1>4, <3>1, DecideLink
    <3>3. Link[choice_car[c]] = choose_car[choice_car[c]]
      BY <1>4, <3>2, DecideLink
    <3> QED
      BY <2>2, <3>2, <3>3
  <2>4. ASSUME NEW c \in Cars, Link[c] # None, Link'[c] = None
        PROVE  Link[c] \in Cars /\ Link'[Link[c]] # None
    <3>1. ~Agreed(c)
      BY <1>4, <2>4, DecideLink, ConstantsOK
    <3>2. Link[c] \in Cars /\ Agreed(Link[c])
      BY <1>4, <2>4, <3>1, DecideLink
    <3>3. Link'[Link[c]] \in Cars
      BY <1>4, <3>2, DecideLink
    <3> QED
      BY <3>2, <3>3, ConstantsOK
  <2>5. M!Round
    BY <2>1, <2>3, <2>4 DEF M!Round, M!Linked
  <2> QED
    BY <2>5
<1> QED
  BY <1>1, <1>2, <1>3, <1>4 DEF Next

(* random_Match and COMNET_Match implement Matching: the links are always a *)
(* matching, and a car loses its link only to a new link of its partner.    *)
THEOREM ImplementsMatching == Spec => MatchingHolds
<1>1. Init => M!Init
  BY DEF Init, Nobody, Link, M!Init
<1>2. IInv /\ [Next]_vars => [M!Round]_Link
  BY StepIsRound
<1> QED
  BY <1>1, <1>2, Inductive, PTL DEF Spec, MatchingHolds, M!Spec

(* Matching_proofs counts with the operators of FiniteSets, under another   *)
(* name here.                                                               *)
LEMMA SameCount ==
    ASSUME NEW S
    PROVE  P!Cardinality(S) = Cardinality(S) /\ (P!IsFiniteSet(S) <=> IsFiniteSet(S))
<1>1. P!Cardinality(S) = Cardinality(S)
  BY DEF P!Cardinality, Cardinality
<1>2. P!IsFiniteSet(S) <=> IsFiniteSet(S)
  BY DEF P!IsFiniteSet, IsFiniteSet
<1> QED
  BY <1>1, <1>2

(* A round never leaves fewer cars with a link.                             *)
THEOREM LinksNotFewer == Spec => LinksNeverFewer
<1>1. IInv /\ IInv' /\ [Next]_vars => [Cardinality(LinkedCars) <= Cardinality(LinkedCars')]_vars
  <2> SUFFICES ASSUME IInv, IInv', [Next]_vars
               PROVE  Cardinality(LinkedCars) <= Cardinality(LinkedCars') \/ UNCHANGED vars
    OBVIOUS
  <2>1. [M!Round]_Link
    BY StepIsRound
  <2>2. Link \in P!Matchings /\ Link' \in P!Matchings
    BY LinkMatching, LinkMatchingNext DEF LinksMatch, M!Matchings, P!Matchings
  <2>3. LinkedCars = P!Linked(Link) /\ LinkedCars' = P!Linked(Link')
    BY DEF LinkedCars, P!Linked
  <2>4. P!IsFiniteSet(Cars) /\ None \notin Cars
    BY ConstantsOK, SameCount
  <2>5. CASE M!Round
    <3>1. /\ \A c \in P!Linked(Link') : Link'[c] # Link[c] => None \in {Link[c], Link[Link'[c]]}
          /\ \A c \in P!Linked(Link) \ P!Linked(Link') : Link[c] \in P!Linked(Link')
      BY <2>5 DEF M!Round, M!Linked, P!Linked
    <3>2. P!Cardinality(P!Linked(Link)) <= P!Cardinality(P!Linked(Link'))
      BY <2>2, <2>4, <3>1, P!NotFewer
    <3> QED
      BY <2>3, <3>2, SameCount
  <2>6. CASE Link' = Link
    <3>1. LinkedCars' = LinkedCars
      BY <2>6 DEF LinkedCars
    <3>2. P!Cardinality(P!Linked(Link)) \in Nat
      BY <2>2, <2>4, P!LinkedFinite
    <3> QED
      BY <2>3, <3>1, <3>2, SameCount
  <2> QED
    BY <2>1, <2>5, <2>6
<1> QED
  BY <1>1, Inductive, PTL DEF Spec, LinksNeverFewer

(* A car that is linked before and after a step has no lower rate after it. *)
LEMMA LinkedKeepRate ==
    ASSUME IInv, [Next]_vars, NEW c \in Cars, Link[c] # None, Link'[c] # None
    PROVE  data_rate[c][Link[c]] <= data_rate[c][Link'[c]]
<1>1. Link[c] = choose_car[c] /\ Link[c] \in Cars /\ data_rate[c][Link[c]] \in Nat
  BY GraphType DEF Link, IInv, TypeOK
<1>2. CASE Link'[c] = Link[c]
  BY <1>1, <1>2
<1>3. CASE Link'[c] # Link[c]
  <2>1. DecideRandom \/ DecideComnet
    BY <1>3, BreakLink DEF Next, Choose, vars, Link
  <2>2. Agreed(c) /\ Link'[c] = choice_car[c] /\ pc = "decide"
    BY <1>3, <2>1, DecideLink, Decision
  <2>3. role[c] = 2 /\ choice_car[c] # None
    BY <1>1, <2>2 DEF IInv, RoleOfLinked, Agreed
  <2> QED
    BY <1>1, <2>2, <2>3 DEF IInv, LinkedChoice
<1> QED
  BY <1>2, <1>3

(* A car that changes its partner gets no lower rate.                       *)
THEOREM RatesNeverDrop == Spec => RateNeverDrops
<1> DEFINE Kept == \A c \in Cars : Link[c] # None /\ Link'[c] # None =>
                      data_rate[c][Link[c]] <= data_rate[c][Link'[c]]
<1>1. IInv /\ [Next]_vars => [Kept]_vars
  BY LinkedKeepRate
<1> QED
  BY <1>1, Inductive, PTL DEF Spec, RateNeverDrops

(* random_Match never takes a link apart.                                   *)
THEOREM RandomLinksStay ==
    ASSUME Protocol = "random"
    PROVE  Spec => LinksStay
<1> DEFINE Stay == \A c \in LinkedCars : Link'[c] = Link[c]
<1>1. IInv /\ [Next]_vars => [Stay]_vars
  <2> SUFFICES ASSUME IInv, [Next]_vars, NEW c \in Cars, Link[c] # None
               PROVE  Link'[c] = Link[c]
    BY DEF LinkedCars
  <2>1. CASE DecideRandom \/ DecideComnet
    <3>1. \A x \in Cars : Agreed(x) => role[x] # 2
      BY <2>1, Decision
    <3>2. Link[c] \in Cars /\ choose_car[c] # None /\ choose_car[Link[c]] # None
      BY ConstantsOK DEF Link, IInv, TypeOK
    <3>3. ~Agreed(c) /\ ~Agreed(Link[c])
      BY <3>1, <3>2 DEF IInv, RoleOfLinked
    <3> QED
      BY <2>1, <3>3, DecideLink
  <2>2. CASE ~(DecideRandom \/ DecideComnet)
    BY <2>2, BreakLink DEF Next, Choose, vars, Link
  <2> QED
    BY <2>1, <2>2
<1> QED
  BY <1>1, Inductive, PTL DEF Spec, LinksStay

-----------------------------------------------------------------------------
(* Two cars that know only each other.                                      *)

Isolated(a, b) == known[a] = {b} /\ known[b] = {a}

(* The round in which they draw each other.                                 *)
DueRound(a, b) ==
    IF Protocol = "random" THEN 0 ELSE (match_id[a] + match_id[b]) % magic_number

(* They are linked from that round on; in it, they are linked or have just  *)
(* chosen each other.                                                       *)
LinksWhenDue(a, b) ==
    /\ pc \in {"choose", "decide", "end"} /\ z > DueRound(a, b) => choose_car[a] = b
    /\ pc = "break" /\ z >= DueRound(a, b) => choose_car[a] = b
    /\ pc = "decide" /\ z = DueRound(a, b) =>
         choose_car[a] = b \/ (choice_car[a] = b /\ choice_car[b] = a)

IsolatedInv ==
    /\ pc = "end" => z = SELECT_TIME
    /\ \A a, b \in Cars : Isolated(a, b) => LinksWhenDue(a, b)

LEMMA DueRoundType ==
    ASSUME TypeOK, NEW a \in Cars, NEW b \in Cars
    PROVE  /\ DueRound(a, b) \in Nat /\ DueRound(a, b) = DueRound(b, a)
           /\ DueRound(a, b) < magic_number
           /\ Protocol # "random" =>
                (match_id[a] + match_id[b]) % magic_number = DueRound(a, b) % magic_number
<1>1. match_id[a] \in Nat /\ match_id[b] \in Nat /\ magic_number \in Nat \ {0}
  BY ConstantsOK DEF TypeOK
<1>2. match_id[a] + match_id[b] = match_id[b] + match_id[a]
  BY <1>1
<1>3. PICK s \in Nat : s = match_id[a] + match_id[b]
  BY <1>1
<1>4. s % magic_number \in Nat /\ s % magic_number < magic_number
  BY <1>1, <1>3
<1>5. (s % magic_number) % magic_number = s % magic_number
  <2>1. PICK m \in Nat : m = s % magic_number
    BY <1>4
  <2>2. m < magic_number
    BY <1>4, <2>1
  <2>3. m % magic_number = m
    BY <1>1, <2>2
  <2> QED  BY <2>1, <2>3
<1> QED  BY <1>1, <1>2, <1>3, <1>4, <1>5 DEF DueRound

LEMMA IsolatedPair ==
    ASSUME IInv, NEW a \in Cars, NEW b \in Cars, Isolated(a, b)
    PROVE  /\ a # b /\ Isolated(b, a)
           /\ choose_car[a] \in {None, b} /\ choice_car[a] \in {None, b}
           /\ role[a] = 2 <=> choose_car[a] = b
           /\ pc # "break" => (choose_car[a] = b <=> choose_car[b] = a)
<1>1. a # b
  BY GraphType DEF IInv, Isolated
<1>2. choose_car[a] \in {None, b} /\ choose_car[b] \in {None, a} /\ choice_car[a] \in {None, b}
  BY DEF IInv, PartnerKnown, ChoiceKnown, Isolated
<1>3. role[a] = 2 <=> choose_car[a] = b
  BY <1>2, ConstantsOK DEF IInv, RoleOfLinked
<1>4. pc # "break" => (choose_car[a] = b <=> choose_car[b] = a)
  BY <1>2, ConstantsOK DEF IInv, Mutual
<1> QED  BY <1>1, <1>2, <1>3, <1>4 DEF Isolated

LEMMA IsolatedChoose == IInv /\ IsolatedInv /\ Choose => IsolatedInv'
<1> SUFFICES ASSUME IInv, IsolatedInv, Choose  PROVE IsolatedInv'
  OBVIOUS
<1>1. /\ pc = "choose" /\ pc' = "decide"
      /\ UNCHANGED <<known, match_id, role, choose_car, z>>
      /\ \A c \in Cars : choice_car'[c] \in Picks(c)
  BY DEF Choose, lists
<1>2. ASSUME NEW c \in Cars, NEW d \in Cars, Isolated(c, d), z = DueRound(c, d),
             choose_car[c] # d
      PROVE  choice_car'[c] = d
  <2>1. role[c] # 2 /\ known[c] = {d}
    BY <1>2, IsolatedPair DEF Isolated
  <2>2. CASE Protocol = "random"
    BY <1>1, <2>1, <2>2 DEF Picks, RandomPicks
  <2>3. CASE Protocol # "random"
    <3>1. (match_id[c] + match_id[d]) % magic_number = z % magic_number
      BY <1>2, <2>3, DueRoundType DEF IInv
    <3>2. (match_id[d] + match_id[c]) % magic_number = z % magic_number
      <4>1. match_id[c] \in Nat /\ match_id[d] \in Nat
        BY ConstantsOK DEF IInv, TypeOK
      <4>2. match_id[d] + match_id[c] = match_id[c] + match_id[d]
        BY <4>1
      <4> QED  BY <3>1, <4>2
    <3>3. Due(c) = {d}
      BY <2>1, <3>2 DEF Due
    <3> QED  BY <1>1, <2>1, <2>3, <3>3 DEF Picks, ComnetPicks
  <2> QED  BY <2>2, <2>3
<1>3. ASSUME NEW a \in Cars, NEW b \in Cars, Isolated(a, b)
      PROVE  LinksWhenDue(a, b)'
  <2>1. Isolated(b, a) /\ (choose_car[a] = b <=> choose_car[b] = a)
        /\ DueRound(a, b) = DueRound(b, a)
    BY <1>1, <1>3, IsolatedPair, DueRoundType DEF IInv
  <2>2. z = DueRound(a, b) /\ choose_car[a] # b => choice_car'[a] = b /\ choice_car'[b] = a
    BY <1>2, <1>3, <2>1
  <2>3. z > DueRound(a, b) => choose_car[a] = b
    BY <1>1, <1>3 DEF IsolatedInv, LinksWhenDue
  <2>4. DueRound(a, b)' = DueRound(a, b)
    BY <1>1 DEF DueRound
  <2> QED  BY <1>1, <2>2, <2>3, <2>4 DEF LinksWhenDue
<1>4. \A a, b \in Cars : Isolated(a, b)' => Isolated(a, b)
  BY <1>1 DEF Isolated
<1>5. pc' # "end"
  BY <1>1
<1> QED  BY <1>3, <1>4, <1>5 DEF IsolatedInv

LEMMA IsolatedDecide == IInv /\ IsolatedInv /\ (DecideRandom \/ DecideComnet) => IsolatedInv'
<1> SUFFICES ASSUME IInv, IsolatedInv, DecideRandom \/ DecideComnet  PROVE IsolatedInv'
  OBVIOUS
<1>1. /\ pc = "decide" /\ UNCHANGED lists /\ z \in Nat /\ z < SELECT_TIME /\ SELECT_TIME \in Nat
      /\ choose_car' = [c \in Cars |-> IF Agreed(c) THEN choice_car[c] ELSE choose_car[c]]
  BY Decision, ConstantsOK DEF IInv, TypeOK, Rounds, Pass
<1>2. \/ pc' = "break" /\ z' = z
      \/ pc' = NextRound /\ z' = z + 1
  BY DEF DecideRandom, DecideComnet
<1>3. pc' = "end" => z' = SELECT_TIME
  BY <1>1, <1>2 DEF NextRound
<1>4. ASSUME NEW a \in Cars, NEW b \in Cars, Isolated(a, b), z >= DueRound(a, b)
      PROVE  choose_car'[a] = b
  <2>1. choice_car[a] \in {None, b} /\ DueRound(a, b) \in Nat
    BY <1>4, IsolatedPair, DueRoundType DEF IInv
  <2>2. \/ choose_car[a] = b
        \/ choice_car[a] = b /\ choice_car[b] = a
    BY <1>1, <1>4, <2>1 DEF IsolatedInv, LinksWhenDue
  <2>3. CASE choice_car[a] = b /\ choice_car[b] = a
    <3>1. choose_neigh[a] = Heard(choice_car, a) /\ b \in known[a]
      BY <1>1, <1>4 DEF IInv, Told, Isolated
    <3>2. Agreed(a)
      BY <2>3, <3>1, ConstantsOK DEF Agreed, Heard
    <3> QED  BY <1>1, <2>3, <3>2
  <2>4. CASE choose_car[a] = b
    <3>1. Agreed(a) => choice_car[a] = b
      BY <2>1 DEF Agreed
    <3> QED  BY <1>1, <2>4, <3>1
  <2> QED  BY <2>2, <2>3, <2>4
<1>5. ASSUME NEW a \in Cars, NEW b \in Cars, Isolated(a, b)
      PROVE  LinksWhenDue(a, b)'
  <2>1. DueRound(a, b)' = DueRound(a, b) /\ DueRound(a, b) \in Nat
    BY <1>1, DueRoundType DEF DueRound, lists, IInv
  <2>2. pc' # "decide" /\ (z' = z \/ (z' = z + 1 /\ pc' # "break"))
    BY <1>2 DEF NextRound
  <2>3. CASE z >= DueRound(a, b)
    BY <1>4, <1>5, <2>2, <2>3 DEF LinksWhenDue
  <2>4. CASE ~ (z >= DueRound(a, b))
    <3>1. ~ (z' > DueRound(a, b)) /\ (pc' = "break" => ~ (z' >= DueRound(a, b)))
      BY <1>1, <2>1, <2>2, <2>4
    <3> QED  BY <2>1, <2>2, <3>1 DEF LinksWhenDue
  <2> QED  BY <2>3, <2>4
<1>6. \A a, b \in Cars : Isolated(a, b)' => Isolated(a, b)
  BY <1>1 DEF Isolated, lists
<1> QED  BY <1>3, <1>5, <1>6 DEF IsolatedInv

LEMMA IsolatedBreak ==
    ASSUME NEW c \in Cars  PROVE IInv /\ IsolatedInv /\ BreakOld(c) => IsolatedInv'
<1> SUFFICES ASSUME IInv, IsolatedInv, BreakOld(c)  PROVE IsolatedInv'
  OBVIOUS
<1>1. /\ pc = "break" /\ UNCHANGED lists /\ z \in Nat /\ z < SELECT_TIME /\ SELECT_TIME \in Nat
      /\ choose_car \in [Cars -> Cars \cup {None}]
      /\ choose_car' = IF Left(c) THEN [choose_car EXCEPT ![c] = None] ELSE choose_car
      /\ \/ pc' = "break" /\ z' = z
         \/ pc' = NextRound /\ z' = z + 1
  BY ConstantsOK DEF BreakOld, IInv, TypeOK, Rounds, Pass
<1>2. pc' = "end" => z' = SELECT_TIME
  BY <1>1 DEF NextRound
<1>3. ASSUME NEW a \in Cars, NEW b \in Cars, Isolated(a, b), z >= DueRound(a, b)
      PROVE  choose_car'[a] = b
  <2>1. Isolated(b, a) /\ DueRound(b, a) = DueRound(a, b)
    BY <1>3, IsolatedPair, DueRoundType DEF IInv
  <2>2. choose_car[a] = b /\ choose_car[b] = a
    BY <1>1, <1>3, <2>1 DEF IsolatedInv, LinksWhenDue
  <2>3. role[a] = 2
    BY <1>3, <2>2, IsolatedPair
  <2>4. ~ Left(a)
    BY <2>2, <2>3 DEF Left
  <2> QED  BY <1>1, <2>2, <2>4
<1>4. ASSUME NEW a \in Cars, NEW b \in Cars, Isolated(a, b)
      PROVE  LinksWhenDue(a, b)'
  <2>1. DueRound(a, b)' = DueRound(a, b) /\ DueRound(a, b) \in Nat
    BY <1>1, DueRoundType DEF DueRound, lists, IInv
  <2>2. pc' # "decide" /\ (z' = z \/ (z' = z + 1 /\ pc' # "break"))
        /\ (z' = z => pc' = "break")
    BY <1>1 DEF NextRound
  <2>3. CASE z >= DueRound(a, b)
    BY <1>3, <1>4, <2>2, <2>3 DEF LinksWhenDue
  <2>4. CASE ~ (z >= DueRound(a, b))
    <3>1. ~ (z' > DueRound(a, b)) /\ (pc' = "break" => ~ (z' >= DueRound(a, b)))
      BY <1>1, <2>1, <2>2, <2>4
    <3> QED  BY <2>1, <2>2, <3>1 DEF LinksWhenDue
  <2> QED  BY <2>3, <2>4
<1>5. \A a, b \in Cars : Isolated(a, b)' => Isolated(a, b)
  BY <1>1 DEF Isolated, lists
<1> QED  BY <1>2, <1>4, <1>5 DEF IsolatedInv

LEMMA IsolatedStutter == IsolatedInv /\ UNCHANGED vars => IsolatedInv'
BY DEF vars, lists, IsolatedInv, Isolated, LinksWhenDue, DueRound

(* Two cars that know only each other end up linked: they draw each other in *)
(* the round of their class, and no round takes them apart.                 *)
THEOREM IsolatedPairLinksHolds == Spec => []IsolatedPairLinks
<1>1. Init => IInv /\ IsolatedInv
  <2> SUFFICES ASSUME Init  PROVE IInv /\ IsolatedInv
    OBVIOUS
  <2>1. IInv /\ pc = "choose" /\ z = 0
    BY InitInv DEF Init
  <2>2. \A a, b \in Cars : DueRound(a, b) \in Nat
    BY <2>1, DueRoundType DEF IInv
  <2> QED  BY <2>1, <2>2 DEF IsolatedInv, LinksWhenDue
<1>2. IInv /\ IsolatedInv /\ [Next]_vars => (IInv /\ IsolatedInv)'
  BY NextInv, IsolatedChoose, IsolatedDecide, IsolatedBreak, IsolatedStutter DEF Next
<1>3. IInv /\ IsolatedInv => IsolatedPairLinks
  <2> SUFFICES ASSUME IInv, IsolatedInv, pc = "end",
                      Protocol = "comnet" => SELECT_TIME >= magic_number,
                      NEW a \in Cars, NEW b \in Cars, Isolated(a, b)
               PROVE  choose_car[a] = b
    BY DEF IsolatedPairLinks, Isolated
  <2>1. z = SELECT_TIME /\ SELECT_TIME \in Nat \ {0} /\ magic_number \in Nat
    BY ConstantsOK DEF IsolatedInv
  <2>2. /\ DueRound(a, b) \in Nat /\ DueRound(a, b) < magic_number
        /\ Protocol = "random" => DueRound(a, b) = 0
    BY DueRoundType DEF IInv, DueRound
  <2>3. z > DueRound(a, b)
    BY <2>1, <2>2, ConstantsOK
  <2> QED  BY <2>3 DEF IsolatedInv, LinksWhenDue
<1> QED  BY <1>1, <1>2, <1>3, PTL DEF Spec
===============================================================================

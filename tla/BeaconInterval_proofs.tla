------------------------ MODULE BeaconInterval_proofs ------------------------
(***************************************************************************)
(* What holds of BeaconInterval for every set of cars, every traffic and   *)
(* every discovery, rate and length of a frame.  The invariant IInv adds   *)
(* to the properties how far the tables agree in each part of the main     *)
(* loop: a choice comes from a list of known cars, which comes from the    *)
(* table of neighbours; a neighbour without a record in the history is     *)
(* mutual and has DATA_TIME left until data is exchanged.                  *)
(***************************************************************************)
EXTENDS BeaconInterval, TLAPS

Rounds == {"choose", "decide", "end"}
Linking == Rounds \cup {"interval"}

Table == UNION {[S -> Int] : S \in SUBSET Cars}

Types ==
    /\ cars \subseteq Cars /\ todo \subseteq Cars
    /\ neighbours \in [Cars -> Table] /\ history_neigh \in [Cars -> Table]
    /\ role \in [Cars -> {0, 2}] /\ choose_car \in [Cars -> Cars \cup {None}]
    /\ known \in [Cars -> SUBSET Cars]
    /\ choice_car \in [Cars -> Cars \cup {None}]
    /\ choose_neigh \in [Cars -> SUBSET Cars]

-----------------------------------------------------------------------------
(* The part of the invariant that follows a link through the frame.         *)

KnownListed == pc \in Linking => \A c \in Cars : known[c] \subseteq Lists(neighbours, c)

ChoiceKnown ==
    pc = "decide" => \A c \in Cars : choice_car[c] # None => choice_car[c] \in known[c]

Told ==
    pc \in {"choose", "decide"} =>
        \A d \in Cars : \A c \in choose_neigh[d] :
            pc = "decide" /\ c \in known[d] /\ choice_car[c] = d

LinkKnown ==
    pc \in Rounds =>
        \A c \in Cars : choose_car[c] # None =>
            choose_car[c] \in known[c] /\ c \in known[choose_car[c]]

RoleKnown ==
    pc \in Linking => \A c \in Cars : role[c] = 2 => choose_car[c] \in known[c]

AllUnfinished ==
    pc \in Rounds \cup {"discover"} =>
        \A c \in Cars : \A d \in Lists(neighbours, c) : neighbours[c][d] > 0

LinkInv ==
    Types /\ KnownListed /\ ChoiceKnown /\ Told /\ LinkKnown /\ RoleKnown /\ AllUnfinished

-----------------------------------------------------------------------------
(* The part that keeps the histories in pairs.                              *)

OnlyCars(table) ==
    \A c \in Cars : \A d \in Lists(table, c) : c \in cars /\ d \in cars

HistoryMutual ==
    \A c \in Cars : \A d \in Lists(history_neigh, c) : c \in Lists(history_neigh, d)

(* A neighbour met for the first time since the reset.                      *)
NewListed(c, d) == d \in Lists(neighbours, c) /\ d \notin Lists(history_neigh, c)

NewHasAll ==
    pc \in {"validate", "filter"} =>
        \A c, d \in Cars : NewListed(c, d) => neighbours[c][d] = DATA_TIME

NewMutual ==
    \A c, d \in Cars :
        NewListed(c, d) /\ ~(pc = "validate" /\ c \in todo) =>
            c \in Lists(neighbours, d)

ValidatedMutual ==
    /\ pc = "validate" => \A c, d \in Cars :
            c \notin todo /\ d \in Lists(neighbours, c) => c \in Lists(neighbours, d)
    /\ pc = "filter" => \A c, d \in Cars :
            d \in Lists(neighbours, c) => c \in Lists(neighbours, d)

HistoryInv ==
    /\ OnlyCars(neighbours) /\ OnlyCars(history_neigh)
    /\ HistoryMutual /\ NewHasAll /\ NewMutual /\ ValidatedMutual
    /\ pc = "validate" => todo \subseteq cars
    /\ pc # "validate" => todo = {}

IInv == LinkInv /\ (itemKept => HistoryInv)

-----------------------------------------------------------------------------
(* Tables: what a restriction and an update of one record leave.            *)

LEMMA Restricted ==
    ASSUME NEW t \in Table, NEW S \in SUBSET DOMAIN t
    PROVE  /\ Restrict(t, S) \in Table /\ DOMAIN Restrict(t, S) = S
           /\ \A d \in S : Restrict(t, S)[d] = t[d]
<1>1. PICK D \in SUBSET Cars : t \in [D -> Int]
  BY DEF Table
<1>2. Restrict(t, S) \in [S -> Int]
  BY <1>1 DEF Restrict
<1>3. S \in SUBSET Cars
  BY <1>1
<1> QED  BY <1>2, <1>3 DEF Restrict, Table

LEMMA Recorded ==
    ASSUME NEW t \in Table, NEW d, NEW v \in Int
    PROVE  /\ [t EXCEPT ![d] = v] \in Table
           /\ DOMAIN [t EXCEPT ![d] = v] = DOMAIN t
<1>1. PICK D \in SUBSET Cars : t \in [D -> Int]
  BY DEF Table
<1> QED  BY <1>1 DEF Table

LEMMA ReadRecord ==
    ASSUME NEW t \in Table, NEW d \in DOMAIN t
    PROVE  t[d] \in Int /\ d \in Cars
<1>1. PICK D \in SUBSET Cars : t \in [D -> Int]
  BY DEF Table
<1> QED  BY <1>1

(* The passes of random_Match, as BeaconInterval runs them.                 *)
LEMMA ChooseStep ==
    ASSUME random_Match, pc = "choose"
    PROVE  /\ choice_car' \in [Cars -> Cars \cup {None}]
           /\ \A c \in Cars : choice_car'[c] # None => choice_car'[c] \in known[c]
           /\ choose_neigh' = [d \in Cars |-> choose_neigh[d] \cup {c \in known[d] : choice_car'[c] = d}]
           /\ pc' = "decide"
           /\ UNCHANGED <<known, role, choose_car, z, todo>>
           /\ UNCHANGED <<bi_num, cars, neighbours, history_neigh, itemKept>>
<1>1. Match!Choose
  BY DEF random_Match, Match!DecideRandom
<1>2. ASSUME NEW c \in Cars, choice_car'[c] # None
      PROVE  choice_car'[c] \in known[c]
  <2>1. choice_car'[c] \in Match!RandomPicks(c)
    BY <1>1 DEF Match!Choose, Match!Picks
  <2> QED  BY <1>2, <2>1 DEF Match!RandomPicks
<1>3. choice_car' \in [Cars -> Cars \cup {None}]
  BY <1>1 DEF Match!Choose
<1>4. choose_neigh' = [d \in Cars |-> choose_neigh[d] \cup {c \in known[d] : choice_car'[c] = d}]
  BY <1>1 DEF Match!Choose, Match!Heard
<1>5. /\ pc' = "decide" /\ UNCHANGED <<known, role, choose_car, z, todo>>
  BY <1>1 DEF Match!Choose, Match!lists
<1> QED  BY <1>2, <1>3, <1>4, <1>5 DEF random_Match

LEMMA DecideStep ==
    ASSUME random_Match, pc = "decide"
    PROVE  \E new \in SUBSET Cars :
           /\ \A c \in new : choice_car[c] # None /\ choice_car[c] \in choose_neigh[c]
           /\ role' = [c \in Cars |-> IF c \in new THEN 2 ELSE role[c]]
           /\ choose_car' = [c \in Cars |-> IF c \in new THEN choice_car[c] ELSE choose_car[c]]
           /\ choose_neigh' = [c \in Cars |-> {}]
           /\ pc' \in {"choose", "end"}
           /\ UNCHANGED <<known, choice_car, todo>>
           /\ UNCHANGED <<bi_num, cars, neighbours, history_neigh, itemKept>>
<1> DEFINE new == {c \in Cars : Match!Agreed(c) /\ role[c] # 2}
<1>1. Match!DecideRandom
  BY DEF random_Match, Match!Choose
<1>2. /\ role' = [c \in Cars |-> IF c \in new THEN 2 ELSE role[c]]
      /\ choose_car' = [c \in Cars |-> IF c \in new THEN choice_car[c] ELSE choose_car[c]]
  BY <1>1 DEF Match!DecideRandom, Match!NewPartner
<1>3. /\ choose_neigh' = [c \in Cars |-> {}]
      /\ pc' \in {"choose", "end"} /\ UNCHANGED <<known, choice_car, todo>>
  BY <1>1 DEF Match!DecideRandom, Match!NextRound, Match!lists
<1>4. \A c \in new : choice_car[c] # None /\ choice_car[c] \in choose_neigh[c]
  BY DEF Match!Agreed
<1>5. new \in SUBSET Cars
  OBVIOUS
<1> HIDE DEF new
<1> QED  BY <1>2, <1>3, <1>4, <1>5 DEF random_Match

(* Both ends of a link send: the lists of neighbours stay as they are, and  *)
(* only a car that is done forgets a car it knew, its partner.              *)
LEMMA ExchangeStep ==
    ASSUME Types, KnownListed, RoleKnown, pc \in Linking,
           NEW time \in Nat, data_exchange_phase(time)
    PROVE  \E done \in SUBSET Sending :
           /\ neighbours' \in [Cars -> Table]
           /\ \A c \in Cars : Lists(neighbours', c) = Lists(neighbours, c)
           /\ role' = [c \in Cars |-> IF c \in done THEN 0 ELSE role[c]]
           /\ choose_car' = [c \in Cars |-> IF c \in done THEN None ELSE choose_car[c]]
           /\ known' = [c \in Cars |-> known[c] \ (IF c \in done THEN {choose_car[c]} ELSE {})]
<1>1. PICK data_rate \in RateTables :
        LET left == [c \in Sending |-> LeftAfter(c, data_rate, time)]
            done == {c \in Sending : left[c] <= 0}
        IN /\ neighbours' = [c \in Cars |->
                IF c \in Sending THEN [neighbours[c] EXCEPT ![choose_car[c]] = left[c]]
                ELSE neighbours[c]]
           /\ role' = RoleAfter(done)
           /\ choose_car' = [c \in Cars |-> IF c \in done THEN None ELSE choose_car[c]]
           /\ known' = [c \in Cars |-> known[c] \ (IF c \in done THEN {choose_car[c]} ELSE {})]
  BY DEF data_exchange_phase
<1> DEFINE left == [c \in Sending |-> LeftAfter(c, data_rate, time)]
           done == {c \in Sending : left[c] <= 0}
<1>2. \A c \in Sending : left[c] \in Int
  <2> SUFFICES ASSUME NEW c \in Sending  PROVE LeftAfter(c, data_rate, time) \in Int
    OBVIOUS
  <2>1. c \in Cars /\ choose_car[c] \in Lists(neighbours, c)
    BY DEF Sending, RoleKnown, KnownListed
  <2>2. neighbours[c] \in Table
    BY <2>1 DEF Types
  <2>3. neighbours[c][choose_car[c]] \in Int /\ choose_car[c] \in Cars
    BY <2>1, <2>2, ReadRecord DEF Lists
  <2>4. data_rate[c][choose_car[c]] \in Nat
    BY <2>1, <2>3, BeaconAssumption
  <2>5. data_rate[c][choose_car[c]] * time \in Int
    BY <2>4
  <2> HIDE DEF left, done
  <2> QED  BY <2>3, <2>5 DEF LeftAfter
<1>3. neighbours' = [c \in Cars |->
         IF c \in Sending THEN [neighbours[c] EXCEPT ![choose_car[c]] = left[c]]
         ELSE neighbours[c]]
  BY <1>1
<1>4. ASSUME NEW c \in Cars
      PROVE  neighbours'[c] \in Table /\ Lists(neighbours', c) = Lists(neighbours, c)
  <2> HIDE DEF left, done
  <2>1. neighbours[c] \in Table
    BY DEF Types
  <2>2. CASE c \in Sending
    <3>1. neighbours'[c] = [neighbours[c] EXCEPT ![choose_car[c]] = left[c]]
      BY <1>3, <2>2
    <3>2. left[c] \in Int
      BY <1>2, <2>2
    <3>3. /\ [neighbours[c] EXCEPT ![choose_car[c]] = left[c]] \in Table
          /\ DOMAIN [neighbours[c] EXCEPT ![choose_car[c]] = left[c]] = DOMAIN neighbours[c]
      BY <3>2, <2>1, Recorded
    <3> QED  BY <3>1, <3>3 DEF Lists
  <2>3. CASE c \notin Sending
    BY <1>3, <2>1, <2>3 DEF Lists
  <2> QED  BY <2>2, <2>3
<1>5. neighbours' \in [Cars -> Table]
  <2> HIDE DEF left, done
  <2> QED  BY <1>3, <1>4
<1>6. /\ role' = [c \in Cars |-> IF c \in done THEN 0 ELSE role[c]]
      /\ choose_car' = [c \in Cars |-> IF c \in done THEN None ELSE choose_car[c]]
      /\ known' = [c \in Cars |-> known[c] \ (IF c \in done THEN {choose_car[c]} ELSE {})]
  BY <1>1 DEF RoleAfter
<1>7. done \in SUBSET Sending
  OBVIOUS
<1> HIDE DEF left, done
<1> QED  BY <1>4, <1>5, <1>6, <1>7

-----------------------------------------------------------------------------
(* The links.                                                               *)

LEMMA LinkInit == Init => LinkInv
<1> SUFFICES ASSUME Init  PROVE LinkInv
  OBVIOUS
<1>1. NoRecords \in [Cars -> Table]
  <2>1. [d \in {} |-> 0] \in [{} -> Int]
    OBVIOUS
  <2>2. [d \in {} |-> 0] \in Table
    BY <2>1 DEF Table
  <2> QED  BY <2>2 DEF NoRecords
<1>2. Types
  BY <1>1 DEF Init, Types, Unknown, Unlinked, Nobody
<1> QED  BY <1>2 DEF Init, LinkInv, KnownListed, ChoiceKnown, Told, LinkKnown, RoleKnown,
                     AllUnfinished, Linking, Rounds

LEMMA LinkGenerate == LinkInv /\ GenerateCar => LinkInv'
<1> SUFFICES ASSUME LinkInv, GenerateCar  PROVE LinkInv'
  OBVIOUS
<1> USE DEF LinkInv
<1>1. PICK trace \in SUBSET Cars :
        /\ cars' = IF AtReset THEN trace ELSE cars \cap trace
        /\ history_neigh' =
             [c \in Cars |-> IF AtReset \/ c \notin cars' THEN NoRecords[c]
                             ELSE Restrict(history_neigh[c], Kept(c, cars \ trace))]
  BY DEF GenerateCar
<1>2. ASSUME NEW c \in Cars
      PROVE  NoRecords[c] \in Table /\ Restrict(history_neigh[c], Kept(c, cars \ trace)) \in Table
  <2>1. [d \in {} |-> 0] \in [{} -> Int]
    OBVIOUS
  <2>2. [d \in {} |-> 0] \in Table
    BY <2>1 DEF Table
  <2>3. history_neigh[c] \in Table /\ Kept(c, cars \ trace) \in SUBSET DOMAIN history_neigh[c]
    BY DEF Types, Kept, Lists
  <2> QED  BY <2>2, <2>3, Restricted DEF NoRecords
<1>3. history_neigh' \in [Cars -> Table] /\ neighbours' \in [Cars -> Table]
  BY <1>1, <1>2 DEF GenerateCar, NoRecords
<1>4. cars' \subseteq Cars
  BY <1>1 DEF Types
<1>5. Types'
  BY <1>3, <1>4 DEF Types, GenerateCar, Unlinked, Unknown
<1> QED  BY <1>5 DEF GenerateCar, KnownListed, ChoiceKnown, Told, LinkKnown, RoleKnown,
                     AllUnfinished, Linking, Rounds

LEMMA Shown ==
    ASSUME Types, ListNeighbours
    PROVE  \E g \in Graphs :
        /\ \A c \in Cars : g[c] \subseteq (IF c \in cars THEN cars ELSE {})
        /\ neighbours' \in [Cars -> Table]
        /\ \A c \in Cars : Lists(neighbours', c) = g[c]
        /\ itemKept => \A c \in Cars : \A d \in g[c] : neighbours'[c][d] = Carried(c, d)
<1>1. PICK g \in Graphs :
        /\ \A c \in Cars : g[c] \subseteq (IF c \in cars THEN cars ELSE {})
        /\ IF itemKept
           THEN neighbours' = [c \in Cars |-> [d \in g[c] |-> Carried(c, d)]]
           ELSE \E shown \in Lookups :
                  neighbours' = [c \in Cars |-> [d \in g[c] |-> shown[c][d]]]
  BY DEF ListNeighbours
<1>2. g \in [Cars -> SUBSET Cars]
  BY BeaconAssumption
<1>3. \A c \in Cars : \A d \in g[c] : Carried(c, d) \in Int
  <2> SUFFICES ASSUME NEW c \in Cars, NEW d \in g[c], d \in Lists(history_neigh, c)
               PROVE  history_neigh[c][d] \in Int
    BY BeaconAssumption DEF Carried
  <2>1. history_neigh[c] \in Table
    BY DEF Types
  <2> QED  BY <2>1, ReadRecord DEF Lists
<1>4. CASE itemKept
  <2>1. neighbours' = [c \in Cars |-> [d \in g[c] |-> Carried(c, d)]]
    BY <1>1, <1>4
  <2>2. \A c \in Cars : [d \in g[c] |-> Carried(c, d)] \in [g[c] -> Int]
    BY <1>3
  <2>3. \A c \in Cars : [d \in g[c] |-> Carried(c, d)] \in Table
    BY <2>2, <1>2 DEF Table
  <2>4. \A c \in Cars : Lists(neighbours', c) = g[c]
    BY <2>1 DEF Lists
  <2>5. \A c \in Cars : \A d \in g[c] : neighbours'[c][d] = Carried(c, d)
    BY <2>1
  <2> QED  BY <1>1, <2>1, <2>3, <2>4, <2>5
<1>5. CASE ~itemKept
  <2>1. PICK shown \in Lookups :
           neighbours' = [c \in Cars |-> [d \in g[c] |-> shown[c][d]]]
    BY <1>1, <1>5
  <2>2. shown \in [Cars -> [Cars -> PacketNums]] /\ PacketNums \subseteq Int
    BY BeaconAssumption
  <2>3. \A c \in Cars : [d \in g[c] |-> shown[c][d]] \in [g[c] -> Int]
    BY <1>2, <2>2
  <2>4. \A c \in Cars : [d \in g[c] |-> shown[c][d]] \in Table
    BY <2>3, <1>2 DEF Table
  <2>5. \A c \in Cars : Lists(neighbours', c) = g[c]
    BY <2>1 DEF Lists
  <2> QED  BY <1>1, <1>5, <2>1, <2>4, <2>5
<1> QED  BY <1>4, <1>5

LEMMA LinkList == LinkInv /\ ListNeighbours => LinkInv'
<1> SUFFICES ASSUME LinkInv, ListNeighbours  PROVE LinkInv'
  OBVIOUS
<1> USE DEF LinkInv
<1>1. neighbours' \in [Cars -> Table]
  BY Shown
<1>2. Types'
  BY <1>1 DEF Types, ListNeighbours, link
<1>3. pc' \notin Linking \cup {"discover"}
  BY DEF ListNeighbours, Linking, Rounds
<1> QED  BY <1>2, <1>3 DEF KnownListed, ChoiceKnown, Told, LinkKnown, RoleKnown,
                           AllUnfinished, Linking, Rounds

LEMMA LinkValidate == ASSUME NEW c \in Cars PROVE LinkInv /\ ValidateNeighbours(c) => LinkInv'
<1> SUFFICES ASSUME LinkInv, ValidateNeighbours(c)  PROVE LinkInv'
  OBVIOUS
<1> USE DEF LinkInv
<1>1. neighbours[c] \in Table /\ Mutual(c) \in SUBSET DOMAIN neighbours[c]
  BY DEF Types, Mutual, Lists
<1>2. Restrict(neighbours[c], Mutual(c)) \in Table
  BY <1>1, Restricted
<1>3. neighbours' \in [Cars -> Table]
  BY <1>2 DEF Types, ValidateNeighbours
<1>4. Types'
  BY <1>3 DEF Types, ValidateNeighbours, link
<1>5. pc' \notin Linking \cup {"discover"}
  BY DEF ValidateNeighbours, Linking, Rounds
<1> QED  BY <1>4, <1>5 DEF KnownListed, ChoiceKnown, Told, LinkKnown, RoleKnown,
                           AllUnfinished, Linking, Rounds

LEMMA LinkFilter == LinkInv /\ FilterNeighbours => LinkInv'
<1> SUFFICES ASSUME LinkInv, FilterNeighbours  PROVE LinkInv'
  OBVIOUS
<1> USE DEF LinkInv
<1>1. ASSUME NEW c \in Cars
      PROVE  /\ neighbours'[c] \in Table
             /\ \A d \in Lists(neighbours', c) : neighbours'[c][d] > 0
  <2>1. neighbours[c] \in Table /\ Unfinished(c) \in SUBSET DOMAIN neighbours[c]
    BY DEF Types, Unfinished, Lists
  <2>2. neighbours'[c] = Restrict(neighbours[c], Unfinished(c))
    BY DEF FilterNeighbours
  <2> QED  BY <2>1, <2>2, Restricted DEF Unfinished, Lists
<1>2. neighbours' \in [Cars -> Table]
  BY <1>1 DEF FilterNeighbours
<1>3. Types'
  BY <1>2 DEF Types, FilterNeighbours, link
<1>4. AllUnfinished'
  BY <1>1 DEF AllUnfinished, FilterNeighbours
<1>5. pc' \notin Linking
  BY DEF FilterNeighbours, Linking, Rounds
<1> QED  BY <1>3, <1>4, <1>5 DEF KnownListed, ChoiceKnown, Told, LinkKnown, RoleKnown,
                                 Linking, Rounds

LEMMA LinkDiscover == LinkInv /\ Discover => LinkInv'
<1> SUFFICES ASSUME LinkInv, Discover  PROVE LinkInv'
  OBVIOUS
<1> USE DEF LinkInv
<1>1. known' \in [Cars -> SUBSET Cars] /\ \A c \in Cars : known'[c] \subseteq Lists(neighbours, c)
  BY BeaconAssumption DEF Discover
<1>2. Types'
  BY <1>1 DEF Types, Discover, Unlinked, Unknown, Nobody
<1>3. KnownListed' /\ AllUnfinished'
  BY <1>1 DEF KnownListed, AllUnfinished, Discover, Lists
<1>4. LinkKnown' /\ RoleKnown' /\ Told' /\ ChoiceKnown'
  BY DEF LinkKnown, RoleKnown, Told, ChoiceKnown, Discover, Unlinked, Unknown, Nobody
<1> QED  BY <1>2, <1>3, <1>4

LEMMA LinkRound == LinkInv /\ random_Match => LinkInv'
<1> SUFFICES ASSUME LinkInv, random_Match  PROVE LinkInv'
  OBVIOUS
<1> USE DEF LinkInv
<1>1. CASE pc = "choose"
  <2> USE <1>1
  <2>1. ASSUME NEW d \in Cars
        PROVE  choose_neigh'[d] = {c \in known[d] : choice_car'[c] = d}
    <3>1. choose_neigh[d] = {}
      BY DEF Told
    <3> QED  BY <3>1, ChooseStep
  <2>2. Types'
    BY <2>1, ChooseStep DEF Types
  <2>3. Told'
    BY <2>1, ChooseStep DEF Told
  <2>4. ChoiceKnown'
    BY ChooseStep DEF ChoiceKnown
  <2>5. KnownListed' /\ LinkKnown' /\ RoleKnown' /\ AllUnfinished'
    BY ChooseStep DEF KnownListed, LinkKnown, RoleKnown, AllUnfinished, Lists, Linking, Rounds
  <2> QED  BY <2>2, <2>3, <2>4, <2>5
<1>2. CASE pc = "decide"
  <2> USE <1>2
  <2>1. PICK new \in SUBSET Cars :
           /\ \A c \in new : choice_car[c] # None /\ choice_car[c] \in choose_neigh[c]
           /\ role' = [c \in Cars |-> IF c \in new THEN 2 ELSE role[c]]
           /\ choose_car' = [c \in Cars |-> IF c \in new THEN choice_car[c] ELSE choose_car[c]]
           /\ choose_neigh' = [c \in Cars |-> {}]
           /\ pc' \in {"choose", "end"}
           /\ UNCHANGED <<known, choice_car, todo>>
           /\ UNCHANGED <<bi_num, cars, neighbours, history_neigh, itemKept>>
    BY DecideStep
  <2>2. \A c \in new : choice_car[c] \in known[c] /\ c \in known[choice_car[c]]
    <3> SUFFICES ASSUME NEW c \in new
                 PROVE  choice_car[c] \in known[c] /\ c \in known[choice_car[c]]
      OBVIOUS
    <3>1. choice_car[c] \in known[c] /\ choice_car[c] \in Cars
      BY <2>1 DEF ChoiceKnown, Types
    <3>2. choice_car[choice_car[c]] = c /\ choice_car[choice_car[c]] # None
      BY <2>1, BeaconAssumption DEF Told, Types
    <3> QED  BY <3>1, <3>2 DEF ChoiceKnown
  <2>3. Types'
    BY <2>1 DEF Types
  <2>4. LinkKnown'
    <3> SUFFICES ASSUME NEW c \in Cars, choose_car'[c] # None
                 PROVE  choose_car'[c] \in known[c] /\ c \in known[choose_car'[c]]
      BY <2>1 DEF LinkKnown
    <3> QED  BY <2>1, <2>2 DEF LinkKnown, Rounds, Types
  <2>5. RoleKnown'
    BY <2>1, <2>2 DEF RoleKnown, Linking, Rounds, Types
  <2>6. KnownListed' /\ AllUnfinished' /\ Told' /\ ChoiceKnown'
    BY <2>1 DEF KnownListed, AllUnfinished, Told, ChoiceKnown, Lists, Linking, Rounds
  <2> QED  BY <2>3, <2>4, <2>5, <2>6
<1> QED  BY <1>1, <1>2 DEF random_Match, Match!Choose, Match!DecideRandom

LEMMA LinkFirst == LinkInv /\ FirstInterval => LinkInv'
<1> SUFFICES ASSUME LinkInv, FirstInterval  PROVE LinkInv'
  OBVIOUS
<1> USE DEF LinkInv
<1>1. PICK done \in SUBSET Sending :
        /\ neighbours' \in [Cars -> Table]
        /\ \A c \in Cars : Lists(neighbours', c) = Lists(neighbours, c)
        /\ role' = [c \in Cars |-> IF c \in done THEN 0 ELSE role[c]]
        /\ choose_car' = [c \in Cars |-> IF c \in done THEN None ELSE choose_car[c]]
        /\ known' = [c \in Cars |-> known[c] \ (IF c \in done THEN {choose_car[c]} ELSE {})]
  BY ExchangeStep, BeaconAssumption DEF FirstInterval, Linking, Rounds
<1>2. pc' \notin Rounds \cup {"discover"} /\ pc \in Linking
  BY DEF FirstInterval, NextInterval, Linking, Rounds
<1>3. Types'
  BY <1>1 DEF Types, FirstInterval, Nobody
<1>4. KnownListed' /\ RoleKnown'
  BY <1>1, <1>2 DEF KnownListed, RoleKnown, Lists, Types
<1> QED  BY <1>2, <1>3, <1>4 DEF ChoiceKnown, Told, LinkKnown, AllUnfinished, Rounds

LEMMA UpdatedType ==
    ASSUME Types, neighbours' \in [Cars -> Table], NEW c \in Cars
    PROVE  /\ Updated(c) \in Table
           /\ DOMAIN Updated(c) = Lists(history_neigh, c) \cup Lists(neighbours', c)
<1> DEFINE D == Lists(history_neigh, c) \cup Lists(neighbours', c)
<1>1. history_neigh[c] \in Table /\ neighbours'[c] \in Table
  BY DEF Types
<1>2. \A d \in DOMAIN history_neigh[c] : history_neigh[c][d] \in Int /\ d \in Cars
  BY <1>1, ReadRecord
<1>3. \A d \in DOMAIN neighbours'[c] : neighbours'[c][d] \in Int /\ d \in Cars
  BY <1>1, ReadRecord
<1>4. Updated(c) \in [D -> Int] /\ D \in SUBSET Cars
  BY <1>2, <1>3 DEF Updated, Lists
<1> QED  BY <1>4 DEF Table

LEMMA LinkLater == LinkInv /\ LaterInterval => LinkInv'
<1> SUFFICES ASSUME LinkInv, LaterInterval  PROVE LinkInv'
  OBVIOUS
<1> USE DEF LinkInv
<1>1. PICK done \in SUBSET Sending :
        /\ neighbours' \in [Cars -> Table]
        /\ \A c \in Cars : Lists(neighbours', c) = Lists(neighbours, c)
        /\ role' = [c \in Cars |-> IF c \in done THEN 0 ELSE role[c]]
        /\ choose_car' = [c \in Cars |-> IF c \in done THEN None ELSE choose_car[c]]
        /\ known' = [c \in Cars |-> known[c] \ (IF c \in done THEN {choose_car[c]} ELSE {})]
  BY ExchangeStep, BeaconAssumption DEF LaterInterval, Linking, Rounds
<1>2. pc' \notin Rounds \cup {"discover"} /\ pc \in Linking
  BY DEF LaterInterval, NextInterval, Linking, Rounds
<1>3. history_neigh' \in [Cars -> Table]
  <2>1. CASE itemKept /\ bi_num % BEACON_NUM = BEACON_NUM - 1
    BY <1>1, <2>1, UpdatedType DEF LaterInterval
  <2>2. CASE ~(itemKept /\ bi_num % BEACON_NUM = BEACON_NUM - 1)
    BY <2>2 DEF LaterInterval, Types
  <2> QED  BY <2>1, <2>2
<1>4. Types'
  BY <1>1, <1>3 DEF Types, LaterInterval
<1>5. KnownListed' /\ RoleKnown'
  BY <1>1, <1>2 DEF KnownListed, RoleKnown, Lists, Types
<1> QED  BY <1>2, <1>4, <1>5 DEF ChoiceKnown, Told, LinkKnown, AllUnfinished, Rounds

LEMMA LinkNext == LinkInv /\ [Next]_vars => LinkInv'
<1> SUFFICES ASSUME LinkInv, [Next]_vars  PROVE LinkInv'
  OBVIOUS
<1>1. CASE Next
  BY <1>1, LinkGenerate, LinkList, LinkValidate, LinkFilter, LinkDiscover, LinkRound, LinkFirst,
     LinkLater DEF Next
<1>2. CASE UNCHANGED vars
  BY <1>2 DEF vars, link, LinkInv, Types, KnownListed, ChoiceKnown, Told, LinkKnown, RoleKnown,
              AllUnfinished, Lists
<1> QED  BY <1>1, <1>2

-----------------------------------------------------------------------------
(* The histories.                                                           *)

LEMMA HistoryInit == Init => HistoryInv
  BY DEF Init, HistoryInv, OnlyCars, HistoryMutual, NewHasAll, NewMutual, NewListed,
         ValidatedMutual, Lists, NoRecords

LEMMA HistoryGenerate == LinkInv /\ HistoryInv /\ GenerateCar => HistoryInv'
<1> SUFFICES ASSUME LinkInv, HistoryInv, GenerateCar  PROVE HistoryInv'
  OBVIOUS
<1> USE DEF HistoryInv
<1>1. PICK trace \in SUBSET Cars :
        /\ cars' = IF AtReset THEN trace ELSE cars \cap trace
        /\ history_neigh' =
             [c \in Cars |-> IF AtReset \/ c \notin cars' THEN NoRecords[c]
                             ELSE Restrict(history_neigh[c], Kept(c, cars \ trace))]
  BY DEF GenerateCar
<1>2. ASSUME NEW c \in Cars
      PROVE  Lists(history_neigh', c) =
               IF AtReset \/ c \notin cars' THEN {} ELSE Lists(history_neigh, c) \ (cars \ trace)
  <2>1. CASE AtReset \/ c \notin cars'
    BY <1>1, <2>1 DEF Lists, NoRecords
  <2>2. CASE ~(AtReset \/ c \notin cars')
    <3>1. history_neigh[c] \in Table /\ Kept(c, cars \ trace) \in SUBSET DOMAIN history_neigh[c]
      BY DEF LinkInv, Types, Kept, Lists
    <3>2. Lists(history_neigh', c) = Kept(c, cars \ trace)
      BY <1>1, <2>2, <3>1, Restricted DEF Lists
    <3>3. Kept(c, cars \ trace) = Lists(history_neigh, c) \ (cars \ trace)
      BY DEF Kept, HistoryMutual
    <3> QED  BY <2>2, <3>2, <3>3
  <2> QED  BY <2>1, <2>2
<1>3. \A c \in Cars : Lists(neighbours', c) = {}
  <2>1. neighbours' = NoRecords
    BY DEF GenerateCar
  <2> QED  BY <2>1 DEF NoRecords, Lists
<1>4. OnlyCars(history_neigh)'
  <2>1. ASSUME NEW c \in Cars, NEW d \in Lists(history_neigh', c)
        PROVE  c \in cars' /\ d \in cars'
    <3>1. ~AtReset /\ c \in cars' /\ d \in Lists(history_neigh, c) /\ d \notin cars \ trace
      BY <1>2, <2>1
    <3>2. d \in cars /\ cars' = cars \cap trace
      BY <1>1, <3>1 DEF OnlyCars
    <3> QED  BY <3>1, <3>2
  <2> QED  BY <2>1 DEF OnlyCars, Lists
<1>5. ASSUME NEW c \in Cars, NEW d \in Lists(history_neigh', c)
      PROVE  c \in Lists(history_neigh', d)
  <2>1. ~AtReset /\ c \in cars' /\ d \in Lists(history_neigh, c) /\ d \notin cars \ trace
    BY <1>2, <1>5
  <2>2. d \in cars /\ d \in Cars /\ c \in Lists(history_neigh, d)
    BY <2>1 DEF OnlyCars, HistoryMutual, LinkInv, Types
  <2>3. d \in cars' /\ c \notin cars \ trace
    BY <1>1, <2>1, <2>2
  <2> QED  BY <1>2, <2>1, <2>2, <2>3
<1>6. pc' = "list" /\ todo' = todo /\ todo = {}
  BY DEF GenerateCar
<1>7. HistoryMutual'
  BY <1>5 DEF HistoryMutual, Lists
<1>8. OnlyCars(neighbours)' /\ NewMutual'
  BY <1>3 DEF OnlyCars, NewMutual, NewListed, Lists
<1> QED  BY <1>4, <1>6, <1>7, <1>8 DEF NewHasAll, ValidatedMutual

LEMMA HistoryList == LinkInv /\ itemKept /\ HistoryInv /\ ListNeighbours => HistoryInv'
<1> SUFFICES ASSUME LinkInv, itemKept, HistoryInv, ListNeighbours  PROVE HistoryInv'
  OBVIOUS
<1> USE DEF HistoryInv
<1>1. PICK g \in Graphs :
        /\ \A c \in Cars : g[c] \subseteq (IF c \in cars THEN cars ELSE {})
        /\ \A c \in Cars : Lists(neighbours', c) = g[c]
        /\ \A c \in Cars : \A d \in g[c] : neighbours'[c][d] = Carried(c, d)
  BY Shown DEF LinkInv
<1>2. /\ todo' = cars /\ UNCHANGED <<cars, history_neigh>>
      /\ pc' = IF cars = {} THEN "filter" ELSE "validate"
  BY DEF ListNeighbours
<1>3. OnlyCars(neighbours)'
  BY <1>1, <1>2 DEF OnlyCars, Lists
<1>4. OnlyCars(history_neigh)' /\ HistoryMutual'
  BY <1>2 DEF OnlyCars, HistoryMutual, Lists
<1>5. NewHasAll'
  BY <1>1, <1>2 DEF NewHasAll, NewListed, Carried, Lists
<1>6. NewMutual' /\ ValidatedMutual'
  BY <1>2, <1>3 DEF NewMutual, NewListed, ValidatedMutual, OnlyCars, Lists
<1>7. (pc = "validate" => todo \subseteq cars)' /\ (pc # "validate" => todo = {})'
  BY <1>2
<1> QED  BY <1>3, <1>4, <1>5, <1>6, <1>7

LEMMA HistoryValidate ==
    ASSUME NEW x \in Cars
    PROVE  LinkInv /\ HistoryInv /\ ValidateNeighbours(x) => HistoryInv'
<1> SUFFICES ASSUME LinkInv, HistoryInv, ValidateNeighbours(x)  PROVE HistoryInv'
  OBVIOUS
<1> USE DEF HistoryInv
<1>1. neighbours[x] \in Table /\ Mutual(x) \in SUBSET DOMAIN neighbours[x]
  BY DEF LinkInv, Types, Mutual, Lists
<1>2. /\ Lists(neighbours', x) = {d \in Lists(neighbours, x) : x \in Lists(neighbours, d)}
      /\ \A d \in Lists(neighbours', x) : neighbours'[x][d] = neighbours[x][d]
  BY <1>1, Restricted DEF ValidateNeighbours, Mutual, Lists, LinkInv, Types
<1>3. \A c \in Cars \ {x} : neighbours'[c] = neighbours[c]
  BY DEF ValidateNeighbours, LinkInv, Types
<1>4. \A c \in Cars : \A d \in Lists(neighbours', c) :
        d \in Lists(neighbours, c) /\ neighbours'[c][d] = neighbours[c][d]
  BY <1>2, <1>3 DEF Lists
<1>5. /\ pc = "validate" /\ todo' = todo \ {x} /\ UNCHANGED <<cars, history_neigh>>
      /\ pc' = IF todo' = {} THEN "filter" ELSE "validate"
  BY DEF ValidateNeighbours
<1>6. OnlyCars(neighbours)'
  BY <1>4, <1>5 DEF OnlyCars, Lists
<1>7. OnlyCars(history_neigh)' /\ HistoryMutual'
  BY <1>5 DEF OnlyCars, HistoryMutual, Lists
<1>8. NewHasAll'
  BY <1>4, <1>5 DEF NewHasAll, NewListed, Lists
<1>9. ASSUME NEW c \in Cars, NEW d \in Cars, c \notin todo', d \in Lists(neighbours', c)
      PROVE  c \in Lists(neighbours', d)
  <2>1. c \in Lists(neighbours, d)
    <3>1. CASE c = x
      BY <1>2, <1>9, <3>1
    <3>2. CASE c # x
      BY <1>4, <1>5, <1>9, <3>2 DEF ValidatedMutual
    <3> QED  BY <3>1, <3>2
  <2>2. d \in Lists(neighbours, c)
    BY <1>4, <1>9
  <2>3. CASE d = x
    BY <1>2, <2>1, <2>2, <2>3
  <2>4. CASE d # x
    BY <1>3, <2>1, <2>4 DEF Lists
  <2> QED  BY <2>3, <2>4
<1>10. NewMutual' /\ ValidatedMutual'
  BY <1>5, <1>9 DEF NewMutual, NewListed, ValidatedMutual, Lists
<1> QED  BY <1>5, <1>6, <1>7, <1>8, <1>10

LEMMA HistoryFilter == LinkInv /\ HistoryInv /\ FilterNeighbours => HistoryInv'
<1> SUFFICES ASSUME LinkInv, HistoryInv, FilterNeighbours  PROVE HistoryInv'
  OBVIOUS
<1> USE DEF HistoryInv
<1>1. ASSUME NEW c \in Cars
      PROVE  Lists(neighbours', c) = {d \in Lists(neighbours, c) : neighbours[c][d] > 0}
  <2>1. neighbours[c] \in Table /\ Unfinished(c) \in SUBSET DOMAIN neighbours[c]
    BY DEF LinkInv, Types, Unfinished, Lists
  <2>2. neighbours'[c] = Restrict(neighbours[c], Unfinished(c))
    BY DEF FilterNeighbours
  <2> QED  BY <2>1, <2>2, Restricted DEF Unfinished, Lists
<1>2. pc = "filter" /\ pc' = "discover" /\ todo' = todo /\ UNCHANGED <<cars, history_neigh>>
  BY DEF FilterNeighbours
<1>3. ASSUME NEW c \in Cars, NEW d \in Cars, NewListed(c, d)'
      PROVE  c \in Lists(neighbours', d)
  <2>1. d \in Lists(neighbours, c) /\ d \notin Lists(history_neigh, c)
    BY <1>1, <1>2, <1>3 DEF NewListed, Lists
  <2>2. c \in Lists(neighbours, d) /\ c \notin Lists(history_neigh, d)
    BY <1>2, <2>1 DEF ValidatedMutual, HistoryMutual
  <2>3. neighbours[d][c] = DATA_TIME
    BY <1>2, <2>2 DEF NewHasAll, NewListed
  <2> QED  BY <1>1, <2>2, <2>3, BeaconAssumption
<1>4. NewMutual'
  BY <1>3 DEF NewMutual, Lists
<1>5. OnlyCars(neighbours)'
  BY <1>1, <1>2 DEF OnlyCars, Lists
<1>6. OnlyCars(history_neigh)' /\ HistoryMutual'
  BY <1>2 DEF OnlyCars, HistoryMutual, Lists
<1> QED  BY <1>2, <1>4, <1>5, <1>6 DEF NewHasAll, ValidatedMutual

(* Discovery, the rounds and the data exchange leave the lists alone.       *)
LEMMA HistorySame ==
    ASSUME HistoryInv, pc \in Linking \cup {"discover"},
           pc' \notin {"validate", "filter"}, UNCHANGED <<todo, cars, history_neigh>>,
           \A c \in Cars : Lists(neighbours', c) = Lists(neighbours, c)
    PROVE  HistoryInv'
<1> USE DEF HistoryInv
<1>1. pc \notin {"validate", "filter"}
  BY DEF Linking, Rounds
<1>2. OnlyCars(neighbours)' /\ OnlyCars(history_neigh)' /\ HistoryMutual'
  BY DEF OnlyCars, HistoryMutual, Lists
<1>3. NewMutual'
  BY <1>1 DEF NewMutual, NewListed, Lists
<1> QED  BY <1>1, <1>2, <1>3 DEF NewHasAll, ValidatedMutual

LEMMA HistoryLater == LinkInv /\ itemKept /\ HistoryInv /\ LaterInterval => HistoryInv'
<1> SUFFICES ASSUME LinkInv, itemKept, HistoryInv, LaterInterval  PROVE HistoryInv'
  OBVIOUS
<1>1. /\ neighbours' \in [Cars -> Table]
      /\ \A c \in Cars : Lists(neighbours', c) = Lists(neighbours, c)
  BY ExchangeStep, BeaconAssumption DEF LaterInterval, Linking, Rounds, LinkInv
<1>2. /\ pc = "interval" /\ pc' \notin {"validate", "filter"}
      /\ todo' = todo /\ cars' = cars
  BY DEF LaterInterval, NextInterval
<1>3. CASE bi_num % BEACON_NUM # BEACON_NUM - 1
  BY <1>1, <1>2, <1>3, HistorySame DEF LaterInterval, Linking
<1>4. CASE bi_num % BEACON_NUM = BEACON_NUM - 1
  <2> USE DEF HistoryInv
  <2>1. \A c \in Cars :
          Lists(history_neigh', c) = Lists(history_neigh, c) \cup Lists(neighbours, c)
    <3>1. history_neigh' = [c \in Cars |-> Updated(c)]
      BY <1>4 DEF LaterInterval
    <3> QED  BY <3>1, <1>1, UpdatedType DEF Lists, LinkInv
  <2>2. OnlyCars(neighbours)' /\ OnlyCars(history_neigh)'
    BY <1>1, <1>2, <2>1 DEF OnlyCars, Lists
  <2>3. ASSUME NEW c \in Cars, NEW d \in Lists(history_neigh', c)
        PROVE  c \in Lists(history_neigh', d)
    <3>1. d \in Cars
      BY <2>1, <2>3 DEF OnlyCars, LinkInv, Types
    <3>2. CASE d \in Lists(history_neigh, c)
      BY <2>1, <3>1, <3>2 DEF HistoryMutual
    <3>3. CASE d \notin Lists(history_neigh, c)
      BY <1>2, <2>1, <2>3, <3>1, <3>3 DEF NewMutual, NewListed
    <3> QED  BY <3>2, <3>3
  <2>4. HistoryMutual'
    BY <2>3 DEF HistoryMutual, Lists
  <2>5. NewMutual'
    BY <1>1, <2>1 DEF NewMutual, NewListed, Lists
  <2> QED  BY <1>2, <2>2, <2>4, <2>5 DEF NewHasAll, ValidatedMutual
<1> QED  BY <1>3, <1>4

LEMMA HistoryNext == IInv /\ itemKept /\ [Next]_vars => HistoryInv'
<1> SUFFICES ASSUME LinkInv, itemKept, HistoryInv, [Next]_vars  PROVE HistoryInv'
  BY DEF IInv
<1>1. CASE Discover
  BY <1>1, HistorySame DEF Discover, Lists
<1>2. CASE random_Match
  <2>1. CASE pc = "choose"
    BY <2>1, <1>2, ChooseStep, HistorySame DEF Lists, Linking, Rounds
  <2>2. CASE pc = "decide"
    BY <2>2, <1>2, DecideStep, HistorySame DEF Lists, Linking, Rounds
  <2> QED  BY <1>2, <2>1, <2>2 DEF random_Match, Match!Choose, Match!DecideRandom
<1>3. CASE FirstInterval
  <2>1. \A c \in Cars : Lists(neighbours', c) = Lists(neighbours, c)
    BY <1>3, ExchangeStep, BeaconAssumption DEF FirstInterval, Linking, Rounds, LinkInv
  <2> QED  BY <1>3, <2>1, HistorySame DEF FirstInterval, NextInterval, Linking, Rounds
<1>4. CASE UNCHANGED vars
  BY <1>4 DEF vars, link, HistoryInv, OnlyCars, HistoryMutual, NewHasAll, NewMutual, NewListed,
              ValidatedMutual, Lists
<1> QED  BY <1>1, <1>2, <1>3, <1>4, HistoryGenerate, HistoryList, HistoryValidate, HistoryFilter,
            HistoryLater DEF Next

-----------------------------------------------------------------------------
(* The theorems.                                                            *)

LEMMA Inductive == Spec => []IInv
<1>1. Init => IInv
  BY LinkInit, HistoryInit DEF IInv
<1>2. IInv /\ [Next]_vars => IInv'
  <2> SUFFICES ASSUME IInv, [Next]_vars  PROVE IInv'
    OBVIOUS
  <2>1. itemKept' = itemKept
    BY DEF Next, GenerateCar, ListNeighbours, ValidateNeighbours, FilterNeighbours, Discover,
           random_Match, FirstInterval, LaterInterval, vars
  <2> QED  BY <2>1, LinkNext, HistoryNext DEF IInv
<1> QED  BY <1>1, <1>2, PTL DEF Spec

(* The record of the partner is found in every interval of a frame, by      *)
(* both ends, whichever of them is done first.                              *)
THEOREM RecordFoundHolds == Spec => []RecordFound
<1>1. IInv => RecordFound
  <2> SUFFICES ASSUME LinkInv, pc \in {"end", "interval"}, NEW c \in Sending
               PROVE  ~RecordAbsent(c) /\ choose_car[c] \in Lists(neighbours, c)
    BY DEF IInv, RecordFound
  <2> QED  BY DEF LinkInv, RoleKnown, KnownListed, Sending, RecordAbsent, Linking, Rounds
<1> QED  BY <1>1, Inductive, PTL

(* The histories never keep a record of a car that has left.                *)
THEOREM NoDanglingRecordHolds == Spec => []NoDanglingRecord
<1>1. IInv => NoDanglingRecord
  BY DEF IInv, HistoryInv, OnlyCars, NoDanglingRecord
<1> QED  BY <1>1, Inductive, PTL

(* A pair is linked only while both ends have data left.                    *)
THEOREM FinishedNotLinkedHolds == Spec => []FinishedNotLinked
<1>1. IInv => FinishedNotLinked
  <2> SUFFICES ASSUME LinkInv, pc \in Rounds, NEW c \in Cars, choose_car[c] # None
               PROVE  LeftFor(c, choose_car[c]) > 0 /\ LeftFor(choose_car[c], c) > 0
    BY DEF IInv, FinishedNotLinked, Rounds
  <2>1. choose_car[c] \in Cars /\ choose_car[c] \in known[c] /\ c \in known[choose_car[c]]
    BY DEF LinkInv, LinkKnown, Types
  <2>2. choose_car[c] \in Lists(neighbours, c) /\ c \in Lists(neighbours, choose_car[c])
    BY <2>1 DEF LinkInv, KnownListed, Linking
  <2> QED  BY <2>1, <2>2 DEF LinkInv, AllUnfinished, LeftFor
<1> QED  BY <1>1, Inductive, PTL

-----------------------------------------------------------------------------
(* Data that was sent stays sent.                                           *)

(* Where the loop is in the frame.                                          *)
FrameInv ==
    /\ bi_num \in 0 .. RESET - 1
    /\ IF pc = "interval" THEN bi_num % BEACON_NUM # 0 ELSE bi_num % BEACON_NUM = 0
    /\ pc \in {"generate", "list", "validate", "filter", "discover", "interval"} \cup Rounds

(* Which tables agree: those of the neighbours are new at the start of a    *)
(* frame, and in the history at its end.                                    *)
AgreeInv ==
    /\ pc = "list" => \A c \in Cars : Lists(neighbours, c) = {}
    /\ pc = "list" /\ AtReset => \A c \in Cars : Lists(history_neigh, c) = {}
    /\ pc \in {"generate", "validate", "filter"} =>
         \A c \in Cars : \A d \in Lists(neighbours, c) \cap Lists(history_neigh, c) :
             neighbours[c][d] = history_neigh[c][d]
    /\ pc = "generate" =>
         \A c \in Cars : Lists(neighbours, c) \subseteq Lists(history_neigh, c)

LEMMA LastOfFrame ==
    ASSUME NEW n \in Nat \ {0}, NEW b \in Nat \ {0, 1}
    PROVE  n % b = 0 <=> (n - 1) % b = b - 1
<1>1. n = b * (n \div b) + (n % b) /\ n % b \in 0 .. b - 1 /\ n \div b \in Int
  OBVIOUS
<1>2. n - 1 = b * ((n - 1) \div b) + ((n - 1) % b) /\ (n - 1) % b \in 0 .. b - 1
      /\ (n - 1) \div b \in Int
  OBVIOUS
<1> DEFINE q == n \div b - (n - 1) \div b
<1>3. q \in Int /\ b * q = 1 + ((n - 1) % b) - (n % b)
  <2>1. b * q = b * (n \div b) - b * ((n - 1) \div b)
    BY <1>1, <1>2
  <2> QED  BY <1>1, <1>2, <2>1
<1> HIDE DEF q
<1>4. q = 0 \/ q = 1
  <2>1. q >= 2 => b * q >= b + b
    BY <1>3
  <2>2. q <= -1 => b * q <= -b
    BY <1>3
  <2> QED  BY <1>1, <1>2, <1>3, <2>1, <2>2
<1>5. b * 0 = 0 /\ b * 1 = b
  OBVIOUS
<1> QED  BY <1>1, <1>2, <1>3, <1>4, <1>5

LEMMA NextBi ==
    ASSUME bi_num \in 0 .. RESET - 1
    PROVE  /\ (bi_num + 1) % RESET \in 0 .. RESET - 1
           /\ ((bi_num + 1) % RESET) % BEACON_NUM = 0 <=> bi_num % BEACON_NUM = BEACON_NUM - 1
<1>1. CASE bi_num + 1 < RESET
  <2>0. bi_num + 1 \in Nat \ {0} /\ (bi_num + 1) - 1 = bi_num
    BY BeaconAssumption
  <2>1. (bi_num + 1) % RESET = bi_num + 1
    BY <1>1, BeaconAssumption
  <2>2. ((bi_num + 1) % BEACON_NUM) = 0 <=> ((bi_num + 1) - 1) % BEACON_NUM = BEACON_NUM - 1
    BY <1>1, <2>0, LastOfFrame, BeaconAssumption
  <2> QED  BY <1>1, <2>1, <2>2, BeaconAssumption
<1>2. CASE bi_num + 1 = RESET
  <2>1. (bi_num + 1) % RESET = 0 /\ 0 % BEACON_NUM = 0
    BY <1>2, BeaconAssumption
  <2>2. RESET % BEACON_NUM = 0 <=> (RESET - 1) % BEACON_NUM = BEACON_NUM - 1
    BY LastOfFrame, BeaconAssumption
  <2>3. RESET - 1 = bi_num
    BY <1>2, BeaconAssumption
  <2> QED  BY <2>1, <2>2, <2>3, BeaconAssumption
<1> QED  BY <1>1, <1>2, BeaconAssumption

LEMMA FrameStep == FrameInv /\ [Next]_vars => FrameInv'
<1> SUFFICES ASSUME FrameInv, [Next]_vars  PROVE FrameInv'
  OBVIOUS
<1>1. CASE FirstInterval \/ LaterInterval
  <2>1. bi_num' = (bi_num + 1) % RESET
        /\ pc' = IF bi_num' % BEACON_NUM = 0 THEN "generate" ELSE "interval"
    BY <1>1 DEF FirstInterval, LaterInterval, NextInterval
  <2> QED  BY <2>1, NextBi DEF FrameInv, Rounds
<1>2. CASE random_Match
  <2>1. pc # "interval" /\ pc' \in Rounds /\ bi_num' = bi_num
    BY <1>2 DEF random_Match, Match!Choose, Match!DecideRandom, Match!NextRound, Rounds
  <2> QED  BY <2>1 DEF FrameInv, Rounds
<1>3. CASE UNCHANGED vars
  BY <1>3 DEF vars, FrameInv
<1>4. CASE GenerateCar \/ ListNeighbours \/ FilterNeighbours \/ Discover
  BY <1>4 DEF GenerateCar, ListNeighbours, FilterNeighbours, Discover, link, FrameInv, Rounds
<1>5. ASSUME NEW c \in Cars, ValidateNeighbours(c)  PROVE FrameInv'
  BY <1>5 DEF ValidateNeighbours, FrameInv, Rounds
<1> QED  BY <1>1, <1>2, <1>3, <1>4, <1>5 DEF Next

LEMMA SentFalls ==
    ASSUME Types, KnownListed, RoleKnown, pc \in Linking,
           NEW time \in Nat, data_exchange_phase(time),
           NEW c \in Cars, NEW d \in Lists(neighbours, c)
    PROVE  neighbours'[c][d] <= neighbours[c][d] /\ neighbours[c][d] \in Int
<1>1. PICK data_rate \in RateTables :
         neighbours' = [x \in Cars |->
                IF x \in Sending
                THEN [neighbours[x] EXCEPT ![choose_car[x]] =
                        [y \in Sending |-> LeftAfter(y, data_rate, time)][x]]
                ELSE neighbours[x]]
  BY DEF data_exchange_phase
<1>2. neighbours[c] \in Table /\ neighbours[c][d] \in Int /\ d \in Cars
  BY ReadRecord DEF Types, Lists
<1>3. CASE c \in Sending /\ d = choose_car[c]
  <2>1. neighbours'[c][d] = LeftAfter(c, data_rate, time)
    BY <1>1, <1>3 DEF Lists
  <2>2. data_rate[c][d] \in Nat
    BY <1>2, BeaconAssumption
  <2>3. data_rate[c][d] * time \in Nat
    BY <2>2
  <2> QED  BY <1>2, <1>3, <2>1, <2>3 DEF LeftAfter
<1>4. CASE ~(c \in Sending /\ d = choose_car[c])
  <2>1. neighbours'[c][d] = neighbours[c][d]
    BY <1>1, <1>4 DEF Lists
  <2> QED  BY <1>2, <2>1
<1> QED  BY <1>3, <1>4

LEMMA LeftForInt ==
    ASSUME Types, NEW c \in Cars, NEW d  PROVE LeftFor(c, d) \in Int
<1>1. neighbours[c] \in Table /\ history_neigh[c] \in Table
  BY DEF Types
<1> QED  BY <1>1, ReadRecord, BeaconAssumption DEF LeftFor, Lists

Falls == \A c, d \in cars : {c, d} \subseteq cars' => LeftFor(c, d)' <= LeftFor(c, d)

LEMMA FallsGenerate ==
    ASSUME LinkInv, HistoryInv, AgreeInv, GenerateCar
    PROVE  AgreeInv' /\ (~AtReset => Falls)
<1>1. PICK trace \in SUBSET Cars :
        /\ cars' = IF AtReset THEN trace ELSE cars \cap trace
        /\ history_neigh' =
             [c \in Cars |-> IF AtReset \/ c \notin cars' THEN NoRecords[c]
                             ELSE Restrict(history_neigh[c], Kept(c, cars \ trace))]
  BY DEF GenerateCar
<1>2. pc = "generate" /\ pc' = "list" /\ bi_num' = bi_num
  BY DEF GenerateCar
<1>3. \A c \in Cars : Lists(neighbours', c) = {}
  BY DEF GenerateCar, NoRecords, Lists
<1>4. AtReset' => \A c \in Cars : Lists(history_neigh', c) = {}
  BY <1>1, <1>2 DEF AtReset, NoRecords, Lists
<1>5. AgreeInv'
  BY <1>2, <1>3, <1>4 DEF AgreeInv, Lists
<1>6. ASSUME ~AtReset, NEW c \in cars, NEW d \in cars, {c, d} \subseteq cars'
      PROVE  LeftFor(c, d)' <= LeftFor(c, d)
  <2>0. c \in Cars
    BY DEF LinkInv, Types
  <2>1. history_neigh[c] \in Table /\ Kept(c, cars \ trace) \in SUBSET DOMAIN history_neigh[c]
    BY <2>0 DEF LinkInv, Types, Kept, Lists
  <2>2. history_neigh'[c] = Restrict(history_neigh[c], Kept(c, cars \ trace))
    BY <1>1, <1>6, <2>0
  <2>3. d \notin cars \ trace
    BY <1>1, <1>6
  <2>4. d \in Lists(history_neigh, c) <=> d \in Lists(history_neigh', c)
    BY <2>1, <2>2, <2>3, Restricted DEF Kept, Lists
  <2>5. d \in Lists(history_neigh, c) => history_neigh'[c][d] = history_neigh[c][d]
    BY <2>1, <2>2, <2>3, Restricted DEF Kept, Lists
  <2>6. LeftFor(c, d)' = LeftFor(c, d)
    BY <1>2, <1>3, <2>0, <2>4, <2>5 DEF LeftFor, AgreeInv, Lists
  <2> QED  BY <2>0, <2>6, LeftForInt DEF LinkInv
<1> QED  BY <1>5, <1>6 DEF Falls

LEMMA FallsList ==
    ASSUME LinkInv, itemKept, HistoryInv, AgreeInv, ListNeighbours
    PROVE  AgreeInv' /\ Falls
<1>1. PICK g \in Graphs :
        /\ \A c \in Cars : Lists(neighbours', c) = g[c]
        /\ \A c \in Cars : \A d \in g[c] : neighbours'[c][d] = Carried(c, d)
  BY Shown DEF LinkInv
<1>2. /\ pc = "list" /\ pc' \notin {"list", "generate"}
      /\ UNCHANGED <<bi_num, cars, history_neigh>>
  BY DEF ListNeighbours
<1>3. ASSUME NEW c \in Cars, NEW d \in Lists(neighbours', c)
      PROVE  neighbours'[c][d] = IF d \in Lists(history_neigh, c) THEN history_neigh[c][d] ELSE DATA_TIME
  BY <1>1, <1>2, <1>3 DEF Carried, AgreeInv
<1>4. AgreeInv'
  BY <1>2, <1>3 DEF AgreeInv, Lists
<1>5. \A c \in Cars : \A d : LeftFor(c, d)' = LeftFor(c, d)
  BY <1>2, <1>3 DEF AgreeInv, LeftFor, Lists
<1>6. cars \subseteq Cars
  BY DEF LinkInv, Types
<1> QED  BY <1>4, <1>5, <1>6, LeftForInt DEF Falls, LinkInv

(* A record that the validation or the filter drops shows what the history  *)
(* shows.                                                                   *)
LEMMA FallsDrop ==
    ASSUME LinkInv, HistoryInv, AgreeInv, pc \in {"validate", "filter"},
           pc' \notin {"list", "generate"}, UNCHANGED <<cars, history_neigh>>,
           \A c \in Cars : \A d \in Lists(neighbours', c) :
              d \in Lists(neighbours, c) /\ neighbours'[c][d] = neighbours[c][d]
    PROVE  AgreeInv' /\ Falls
<1>1. AgreeInv'
  BY DEF AgreeInv, Lists
<1>2. cars \subseteq Cars
  BY DEF LinkInv, Types
<1>3. ASSUME NEW c \in Cars, NEW d \in Cars  PROVE LeftFor(c, d)' = LeftFor(c, d)
  BY DEF LeftFor, AgreeInv, HistoryInv, NewHasAll, NewListed, Lists
<1> QED  BY <1>1, <1>2, <1>3, LeftForInt DEF Falls, LinkInv

LEMMA FallsExchange ==
    ASSUME LinkInv, AgreeInv, pc \in {"end", "interval"}, NEW time \in Nat,
           data_exchange_phase(time), cars' = cars,
           \/ history_neigh' = history_neigh /\ pc' \notin {"list", "generate", "validate", "filter"}
           \/ history_neigh' = [c \in Cars |-> Updated(c)] /\ pc' \notin {"list", "validate", "filter"}
    PROVE  AgreeInv' /\ Falls
<1>1. neighbours' \in [Cars -> Table]
      /\ \A c \in Cars : Lists(neighbours', c) = Lists(neighbours, c)
  BY ExchangeStep DEF LinkInv, Linking, Rounds
<1>2. ASSUME NEW c \in Cars, NEW d \in Lists(neighbours, c)
      PROVE  neighbours'[c][d] <= neighbours[c][d]
  BY SentFalls DEF LinkInv, Linking, Rounds
<1>3. ASSUME history_neigh' = [c \in Cars |-> Updated(c)], NEW c \in Cars
      PROVE  /\ Lists(history_neigh', c) = Lists(history_neigh, c) \cup Lists(neighbours', c)
             /\ \A d \in Lists(history_neigh', c) : history_neigh'[c][d] =
                  IF d \in Lists(neighbours', c) THEN neighbours'[c][d] ELSE history_neigh[c][d]
  BY <1>1, <1>3, UpdatedType DEF Updated, Lists, LinkInv
<1>4. AgreeInv'
  <2>1. CASE history_neigh' = history_neigh /\ pc' \notin {"list", "generate", "validate", "filter"}
    BY <2>1 DEF AgreeInv
  <2>2. CASE history_neigh' = [c \in Cars |-> Updated(c)] /\ pc' \notin {"list", "validate", "filter"}
    <3>1. ASSUME NEW c \in Cars
          PROVE  /\ Lists(neighbours', c) \subseteq Lists(history_neigh', c)
                 /\ \A d \in Lists(neighbours', c) : neighbours'[c][d] = history_neigh'[c][d]
      BY <1>3, <2>2
    <3>2. pc' \notin {"list", "validate", "filter"}
      BY <2>2
    <3> QED  BY <3>1, <3>2 DEF AgreeInv, Lists
  <2> QED  BY <2>1, <2>2
<1>5. ASSUME NEW c \in Cars, NEW d \in Cars  PROVE LeftFor(c, d)' <= LeftFor(c, d)
  <2>1. CASE d \in Lists(neighbours, c)
    BY <1>1, <1>2, <2>1 DEF LeftFor, Lists
  <2>2. CASE d \notin Lists(neighbours, c)
    <3>1. d \in Lists(history_neigh', c) <=> d \in Lists(history_neigh, c)
      BY <1>1, <1>3, <2>2 DEF Lists
    <3>2. d \in Lists(history_neigh, c) => history_neigh'[c][d] = history_neigh[c][d]
      BY <1>1, <1>3, <2>2 DEF Lists
    <3>3. LeftFor(c, d)' = LeftFor(c, d)
      BY <1>1, <2>2, <3>1, <3>2 DEF LeftFor, Lists
    <3> QED  BY <3>3, LeftForInt DEF LinkInv
  <2> QED  BY <2>1, <2>2
<1>6. cars \subseteq Cars
  BY DEF LinkInv, Types
<1> QED  BY <1>4, <1>5, <1>6 DEF Falls

LEMMA FallsSame ==
    ASSUME LinkInv, AgreeInv, pc' \notin {"list", "generate", "validate", "filter"},
           UNCHANGED <<cars, neighbours, history_neigh>>
    PROVE  AgreeInv' /\ Falls
<1>1. AgreeInv'
  BY DEF AgreeInv
<1>2. cars \subseteq Cars
  BY DEF LinkInv, Types
<1>3. ASSUME NEW c \in Cars, NEW d \in Cars  PROVE LeftFor(c, d)' = LeftFor(c, d)
  BY DEF LeftFor, Lists
<1> QED  BY <1>1, <1>2, <1>3, LeftForInt DEF Falls, LinkInv

LEMMA FallsNext ==
    ASSUME IInv, itemKept, FrameInv, AgreeInv, Next
    PROVE  AgreeInv' /\ (~(pc = "generate" /\ AtReset) => Falls)
<1>0. LinkInv /\ HistoryInv
  BY DEF IInv
<1>1. CASE GenerateCar
  BY <1>0, <1>1, FallsGenerate DEF GenerateCar
<1>2. CASE ListNeighbours
  BY <1>0, <1>2, FallsList
<1>3. ASSUME NEW x \in Cars, ValidateNeighbours(x)  PROVE AgreeInv' /\ Falls
  <2>1. neighbours[x] \in Table /\ Mutual(x) \in SUBSET DOMAIN neighbours[x]
    BY <1>0 DEF LinkInv, Types, Mutual, Lists
  <2>2. \A c \in Cars : neighbours'[c] =
          IF c = x THEN Restrict(neighbours[x], Mutual(x)) ELSE neighbours[c]
    BY <1>0, <1>3 DEF ValidateNeighbours, LinkInv, Types
  <2>3. \A c \in Cars : \A d \in Lists(neighbours', c) :
          d \in Lists(neighbours, c) /\ neighbours'[c][d] = neighbours[c][d]
    BY <2>1, <2>2, Restricted DEF Lists
  <2>4. pc = "validate" /\ pc' \in {"validate", "filter"} /\ UNCHANGED <<cars, history_neigh>>
    BY <1>3 DEF ValidateNeighbours
  <2> QED  BY <1>0, <2>3, <2>4, FallsDrop
<1>4. CASE FilterNeighbours
  <2>1. \A c \in Cars : neighbours[c] \in Table /\ Unfinished(c) \in SUBSET DOMAIN neighbours[c]
    BY <1>0 DEF LinkInv, Types, Unfinished, Lists
  <2>2. \A c \in Cars : neighbours'[c] = Restrict(neighbours[c], Unfinished(c))
    BY <1>4 DEF FilterNeighbours
  <2>3. \A c \in Cars : \A d \in Lists(neighbours', c) :
          d \in Lists(neighbours, c) /\ neighbours'[c][d] = neighbours[c][d]
    BY <2>1, <2>2, Restricted DEF Lists
  <2>4. pc = "filter" /\ pc' = "discover" /\ UNCHANGED <<cars, history_neigh>>
    BY <1>4 DEF FilterNeighbours
  <2> QED  BY <1>0, <2>3, <2>4, FallsDrop
<1>5. CASE Discover
  BY <1>0, <1>5, FallsSame DEF Discover
<1>6. CASE random_Match
  <2>1. pc' \in Rounds /\ UNCHANGED <<cars, neighbours, history_neigh>>
    BY <1>6 DEF random_Match, Match!Choose, Match!DecideRandom, Match!NextRound, Rounds
  <2> QED  BY <1>0, <2>1, FallsSame DEF Rounds
<1>7. CASE FirstInterval
  <2>1. pc' = "interval"
    <3>1. bi_num % BEACON_NUM = 0 /\ bi_num \in 0 .. RESET - 1
      BY <1>7 DEF FirstInterval, FrameInv
    <3> QED  BY <1>7, <3>1, NextBi, BeaconAssumption DEF FirstInterval, NextInterval
  <2> QED  BY <1>0, <1>7, <2>1, FallsExchange, BeaconAssumption DEF FirstInterval
<1>8. CASE LaterInterval
  <2>1. pc' \in {"generate", "interval"}
        /\ (pc' = "generate" => bi_num % BEACON_NUM = BEACON_NUM - 1)
    BY <1>8, NextBi DEF LaterInterval, NextInterval, FrameInv
  <2>2. \/ history_neigh' = history_neigh /\ pc' = "interval"
        \/ history_neigh' = [c \in Cars |-> Updated(c)]
    BY <1>8, <2>1 DEF LaterInterval
  <2> QED  BY <1>0, <1>8, <2>1, <2>2, FallsExchange, BeaconAssumption DEF LaterInterval
<1> QED  BY <1>1, <1>2, <1>3, <1>4, <1>5, <1>6, <1>7, <1>8 DEF Next

(* Between two resets what a car has left to send to another one only       *)
(* falls, over frames in which they were neighbours and frames in which     *)
(* they were not.                                                           *)
THEOREM DataOnlyFallsHolds == Spec => DataOnlyFalls
<1>1. Init => FrameInv /\ (itemKept => AgreeInv)
  <2> SUFFICES ASSUME Init  PROVE FrameInv /\ AgreeInv
    OBVIOUS
  <2>1. 0 % BEACON_NUM = 0 /\ 0 \in 0 .. RESET - 1
    BY BeaconAssumption
  <2> QED  BY <2>1 DEF Init, FrameInv, AgreeInv, Lists, NoRecords
<1>2. IInv /\ FrameInv /\ (itemKept => AgreeInv) /\ [Next]_vars => (itemKept => AgreeInv)'
  <2> SUFFICES ASSUME IInv, FrameInv, itemKept => AgreeInv, [Next]_vars
               PROVE  (itemKept => AgreeInv)'
    OBVIOUS
  <2>1. CASE UNCHANGED vars
    BY <2>1 DEF vars, link, AgreeInv, AtReset, Lists
  <2>2. CASE Next
    <3>1. itemKept' = itemKept
      BY <2>2 DEF Next, GenerateCar, ListNeighbours, ValidateNeighbours, FilterNeighbours,
              Discover, random_Match, FirstInterval, LaterInterval
    <3> QED  BY <2>2, <3>1, FallsNext
  <2> QED  BY <2>1, <2>2
<1>3. IInv /\ FrameInv /\ (itemKept => AgreeInv) /\ [Next]_vars =>
        [itemKept /\ ~(pc = "generate" /\ AtReset) => Falls]_vars
  BY FallsNext
<1>4. (itemKept /\ ~(pc = "generate" /\ AtReset) => Falls) <=>
      (itemKept /\ ~(pc = "generate" /\ AtReset) =>
         \A c, d \in cars : {c, d} \subseteq cars' => LeftFor(c, d)' <= LeftFor(c, d))
  BY DEF Falls
<1>5. [itemKept /\ ~(pc = "generate" /\ AtReset) => Falls]_vars =>
      [itemKept /\ ~(pc = "generate" /\ AtReset) =>
         \A c, d \in cars : {c, d} \subseteq cars' => LeftFor(c, d)' <= LeftFor(c, d)]_vars
  BY <1>4
<1> QED  BY <1>1, <1>2, <1>3, <1>5, FrameStep, Inductive, PTL DEF Spec, DataOnlyFalls

-----------------------------------------------------------------------------
(* Types, and the range of packet_num.                                      *)

InNums(table) == \A c \in Cars : \A d \in Lists(table, c) : table[c][d] \in PacketNums

(* Who sends has something left to send.                                    *)
SendsMore ==
    pc \in Linking => \A c \in Cars : role[c] = 2 => neighbours[c][choose_car[c]] > 0

RangeInv ==
    /\ InNums(neighbours) /\ InNums(history_neigh)
    /\ SendsMore
    /\ todo \subseteq cars /\ (pc # "validate" => todo = {})
    /\ pc \in Rounds => known \in Graphs /\ z \in 0 .. SELECT_TIME
    /\ pc \in {"choose", "decide"} => z < SELECT_TIME
    /\ itemKept \in BOOLEAN

LEMMA TablesInNums ==
    ASSUME NEW table \in [Cars -> Table], InNums(table)
    PROVE  table \in Tables
<1>1. ASSUME NEW c \in Cars
      PROVE  table[c] \in UNION {[S -> PacketNums] : S \in SUBSET Cars}
  <2>1. PICK D \in SUBSET Cars : table[c] \in [D -> Int]
    BY DEF Table
  <2>2. \A d \in D : table[c][d] \in PacketNums
    BY <2>1 DEF InNums, Lists
  <2>3. table[c] \in [D -> PacketNums]
    BY <2>1, <2>2
  <2> QED  BY <2>3
<1> QED  BY <1>1 DEF Tables

LEMMA ExchangeNums ==
    ASSUME LinkInv, pc \in Linking, InNums(neighbours), SendsMore,
           NEW time \in {comm_time, BEACON_INTERVAL}, data_exchange_phase(time)
    PROVE  /\ InNums(neighbours')
           /\ \A c \in Cars : role'[c] = 2 => neighbours'[c][choose_car'[c]] > 0
<1> USE DEF LinkInv
<1>1. PICK data_rate \in RateTables :
        LET left == [c \in Sending |-> LeftAfter(c, data_rate, time)]
            done == {c \in Sending : left[c] <= 0}
        IN /\ neighbours' = [c \in Cars |->
                IF c \in Sending THEN [neighbours[c] EXCEPT ![choose_car[c]] = left[c]]
                ELSE neighbours[c]]
           /\ role' = RoleAfter(done)
           /\ choose_car' = [c \in Cars |-> IF c \in done THEN None ELSE choose_car[c]]
  BY DEF data_exchange_phase
<1> DEFINE left == [c \in Sending |-> LeftAfter(c, data_rate, time)]
           done == {c \in Sending : left[c] <= 0}
<1>2. ASSUME NEW c \in Sending
      PROVE  /\ c \in Cars /\ choose_car[c] \in Lists(neighbours, c)
             /\ left[c] \in PacketNums /\ left[c] \in Int
  <2>1. c \in Cars /\ choose_car[c] \in Lists(neighbours, c)
    BY DEF Sending, RoleKnown, KnownListed
  <2>2. neighbours[c] \in Table
    BY <2>1 DEF Types
  <2>3. choose_car[c] \in Cars
    BY <2>1, <2>2, ReadRecord DEF Lists
  <2>4. neighbours[c][choose_car[c]] \in PacketNums /\ neighbours[c][choose_car[c]] > 0
    BY <2>1 DEF InNums, SendsMore, Sending
  <2>5. neighbours[c][choose_car[c]] - data_rate[c][choose_car[c]] * time \in PacketNums
    BY <2>1, <2>3, <2>4, BeaconAssumption
  <2>6. left[c] = neighbours[c][choose_car[c]] - data_rate[c][choose_car[c]] * time
    BY DEF LeftAfter
  <2> HIDE DEF left, done
  <2> QED  BY <2>1, <2>5, <2>6, BeaconAssumption
<1>3. /\ neighbours' = [c \in Cars |->
           IF c \in Sending THEN [neighbours[c] EXCEPT ![choose_car[c]] = left[c]]
           ELSE neighbours[c]]
      /\ role' = [c \in Cars |-> IF c \in done THEN 0 ELSE role[c]]
      /\ choose_car' = [c \in Cars |-> IF c \in done THEN None ELSE choose_car[c]]
  BY <1>1 DEF RoleAfter
<1>4. \A c \in Sending : c \notin done => left[c] > 0
  <2> HIDE DEF left
  <2> QED  BY <1>2
<1> HIDE DEF left, done
<1>5. ASSUME NEW c \in Cars
      PROVE  \A d \in Lists(neighbours', c) : neighbours'[c][d] \in PacketNums
  <2>1. CASE c \in Sending
    <3>1. neighbours'[c] = [neighbours[c] EXCEPT ![choose_car[c]] = left[c]]
      BY <1>3, <2>1
    <3>2. DOMAIN neighbours'[c] = DOMAIN neighbours[c]
      BY <3>1
    <3>3. \A d \in DOMAIN neighbours[c] :
             neighbours'[c][d] = IF d = choose_car[c] THEN left[c] ELSE neighbours[c][d]
      BY <3>1
    <3> QED  BY <1>2, <2>1, <3>2, <3>3 DEF InNums, Lists
  <2>2. CASE c \notin Sending
    BY <1>3, <2>2 DEF InNums, Lists
  <2> QED  BY <2>1, <2>2
<1>6. ASSUME NEW c \in Cars, role'[c] = 2
      PROVE  neighbours'[c][choose_car'[c]] > 0
  <2>1. c \notin done /\ c \in Sending /\ choose_car'[c] = choose_car[c]
    BY <1>3, <1>6 DEF Sending
  <2>2. neighbours[c] \in Table /\ choose_car[c] \in DOMAIN neighbours[c]
    BY <1>2, <2>1 DEF Types, Lists
  <2>3. neighbours'[c][choose_car[c]] = left[c]
    BY <1>3, <2>1, <2>2
  <2> QED  BY <1>4, <2>1, <2>3
<1> QED  BY <1>5, <1>6 DEF InNums

LEMMA RangeInit == Init => RangeInv
<1> SUFFICES ASSUME Init  PROVE RangeInv
  OBVIOUS
<1>1. \A c \in Cars : Lists(NoRecords, c) = {}
  BY DEF Lists, NoRecords
<1> QED  BY <1>1, BeaconAssumption DEF Init, RangeInv, InNums, SendsMore, Linking, Rounds

LEMMA RangeGenerate == LinkInv /\ RangeInv /\ GenerateCar => RangeInv'
<1> SUFFICES ASSUME LinkInv, RangeInv, GenerateCar  PROVE RangeInv'
  OBVIOUS
<1>1. \A c \in Cars : DOMAIN NoRecords[c] = {}
  BY DEF NoRecords
<1>2. InNums(neighbours)'
  BY <1>1 DEF GenerateCar, InNums, Lists
<1>3. PICK gone :
        history_neigh' = [c \in Cars |-> IF AtReset \/ c \notin cars' THEN NoRecords[c]
                                 ELSE Restrict(history_neigh[c], Kept(c, gone))]
  BY DEF GenerateCar
<1>4. ASSUME NEW c \in Cars, NEW d \in DOMAIN history_neigh'[c]
      PROVE  history_neigh'[c][d] \in PacketNums
  <2>1. history_neigh'[c] = Restrict(history_neigh[c], Kept(c, gone))
    BY <1>1, <1>3, <1>4
  <2>2. history_neigh[c] \in Table /\ Kept(c, gone) \in SUBSET DOMAIN history_neigh[c]
    BY DEF LinkInv, Types, Kept, Lists
  <2>3. d \in DOMAIN history_neigh[c] /\ history_neigh'[c][d] = history_neigh[c][d]
    BY <1>4, <2>1, <2>2, Restricted
  <2> QED  BY <2>3 DEF RangeInv, InNums, Lists
<1>5. InNums(history_neigh)'
  BY <1>4 DEF InNums, Lists
<1> QED  BY <1>2, <1>5 DEF RangeInv, GenerateCar, SendsMore, Linking, Rounds

LEMMA RangeList == LinkInv /\ RangeInv /\ ListNeighbours => RangeInv'
<1> SUFFICES ASSUME LinkInv, RangeInv, ListNeighbours  PROVE RangeInv'
  OBVIOUS
<1>1. PICK g \in Graphs :
        IF itemKept
        THEN neighbours' = [c \in Cars |-> [d \in g[c] |-> Carried(c, d)]]
        ELSE \E shown \in Lookups :
               neighbours' = [c \in Cars |-> [d \in g[c] |-> shown[c][d]]]
  BY DEF ListNeighbours
<1>2. g \in [Cars -> SUBSET Cars]
  BY BeaconAssumption
<1>3. \A c, d \in Cars : Carried(c, d) \in PacketNums
  BY BeaconAssumption DEF Carried, RangeInv, InNums
<1>4. InNums(neighbours')
  <2>1. CASE itemKept
    <3>1. neighbours' = [c \in Cars |-> [d \in g[c] |-> Carried(c, d)]]
      BY <1>1, <2>1
    <3>2. ASSUME NEW c \in Cars, NEW d \in DOMAIN neighbours'[c]
          PROVE  neighbours'[c][d] \in PacketNums
      <4>1. neighbours'[c] = [x \in g[c] |-> Carried(c, x)]
        BY <3>1
      <4>2. d \in g[c] /\ d \in Cars /\ neighbours'[c][d] = Carried(c, d)
        BY <1>2, <3>2, <4>1
      <4> QED  BY <1>3, <4>2
    <3> QED  BY <3>2 DEF InNums, Lists
  <2>2. CASE ~ itemKept
    <3>1. PICK shown \in Lookups :
             neighbours' = [c \in Cars |-> [d \in g[c] |-> shown[c][d]]]
      BY <1>1, <2>2
    <3>2. shown \in [Cars -> [Cars -> PacketNums]]
      BY BeaconAssumption
    <3>3. ASSUME NEW c \in Cars, NEW d \in DOMAIN neighbours'[c]
          PROVE  neighbours'[c][d] \in PacketNums
      <4>1. neighbours'[c] = [x \in g[c] |-> shown[c][x]]
        BY <3>1
      <4>2. d \in g[c] /\ d \in Cars /\ neighbours'[c][d] = shown[c][d]
        BY <1>2, <3>3, <4>1
      <4> QED  BY <3>2, <4>2
    <3> QED  BY <3>3 DEF InNums, Lists
  <2> QED  BY <2>1, <2>2
<1>5. InNums(neighbours)'
  BY <1>4 DEF InNums, Lists
<1> QED  BY <1>5 DEF RangeInv, ListNeighbours, SendsMore, Linking, Rounds, InNums, Lists

(* A table of which each record is as before has its values where it had.   *)
LEMMA NumsRestricted ==
    ASSUME Types, InNums(neighbours), NEW c \in Cars, NEW S \in SUBSET Lists(neighbours, c)
    PROVE  /\ DOMAIN Restrict(neighbours[c], S) = S
           /\ \A d \in S : Restrict(neighbours[c], S)[d] \in PacketNums
<1>1. neighbours[c] \in Table /\ S \in SUBSET DOMAIN neighbours[c]
  BY DEF Types, Lists
<1> QED  BY <1>1, Restricted DEF InNums, Lists

LEMMA RangeValidate ==
    ASSUME NEW c \in Cars  PROVE LinkInv /\ RangeInv /\ ValidateNeighbours(c) => RangeInv'
<1> SUFFICES ASSUME LinkInv, RangeInv, ValidateNeighbours(c)  PROVE RangeInv'
  OBVIOUS
<1>1. /\ DOMAIN Restrict(neighbours[c], Mutual(c)) = Mutual(c)
      /\ \A d \in Mutual(c) : Restrict(neighbours[c], Mutual(c))[d] \in PacketNums
  BY NumsRestricted DEF LinkInv, RangeInv, Mutual
<1>2. neighbours' = [neighbours EXCEPT ![c] = Restrict(@, Mutual(c))]
      /\ neighbours \in [Cars -> Table]
  BY DEF ValidateNeighbours, LinkInv, Types
<1>3. \A x \in Cars : neighbours'[x] = IF x = c THEN Restrict(neighbours[c], Mutual(c))
                                       ELSE neighbours[x]
  BY <1>2
<1>4. InNums(neighbours)'
  BY <1>1, <1>3 DEF RangeInv, InNums, Lists
<1> QED  BY <1>4 DEF RangeInv, ValidateNeighbours, SendsMore, Linking, Rounds, InNums, Lists

LEMMA RangeFilter == LinkInv /\ RangeInv /\ FilterNeighbours => RangeInv'
<1> SUFFICES ASSUME LinkInv, RangeInv, FilterNeighbours  PROVE RangeInv'
  OBVIOUS
<1>1. ASSUME NEW c \in Cars
      PROVE  \A d \in Lists(neighbours', c) : neighbours'[c][d] \in PacketNums
  <2>1. neighbours'[c] = Restrict(neighbours[c], Unfinished(c))
    BY DEF FilterNeighbours
  <2>2. /\ DOMAIN Restrict(neighbours[c], Unfinished(c)) = Unfinished(c)
        /\ \A d \in Unfinished(c) : Restrict(neighbours[c], Unfinished(c))[d] \in PacketNums
    BY NumsRestricted DEF LinkInv, RangeInv, Unfinished
  <2> QED  BY <2>1, <2>2 DEF Lists
<1>2. InNums(neighbours)'
  BY <1>1 DEF InNums, Lists
<1> QED  BY <1>2 DEF RangeInv, FilterNeighbours, SendsMore, Linking, Rounds, InNums, Lists

LEMMA RangeDiscover == RangeInv /\ Discover => RangeInv'
<1> SUFFICES ASSUME RangeInv, Discover  PROVE RangeInv'
  OBVIOUS
<1>1. \A c \in Cars : role'[c] # 2
  BY DEF Discover, Unlinked
<1> QED  BY <1>1, BeaconAssumption DEF RangeInv, Discover, SendsMore, InNums, Lists, Rounds

LEMMA RangeRound == LinkInv /\ RangeInv /\ random_Match => RangeInv'
<1> SUFFICES ASSUME LinkInv, RangeInv, random_Match  PROVE RangeInv'
  OBVIOUS
<1>1. LinkInv'
  BY LinkRound
<1>2. pc \in {"choose", "decide"} /\ pc' \in Rounds
  BY DEF random_Match, Match!Choose, Match!DecideRandom, Match!NextRound, Rounds
<1>3. /\ UNCHANGED <<known, todo, bi_num, cars, neighbours, history_neigh, itemKept>>
  BY DEF random_Match, Match!Choose, Match!DecideRandom, Match!lists
<1>4. SendsMore'
  <2> SUFFICES ASSUME NEW c \in Cars, role'[c] = 2
               PROVE  neighbours'[c][choose_car'[c]] > 0
    BY DEF SendsMore
  <2>1. choose_car'[c] \in known'[c] /\ known'[c] \subseteq Lists(neighbours', c)
    BY <1>1, <1>2 DEF LinkInv, RoleKnown, KnownListed, Linking
  <2> QED  BY <1>1, <1>2, <2>1 DEF LinkInv, AllUnfinished
<1>5. z' \in 0 .. SELECT_TIME /\ (pc' \in {"choose", "decide"} => z' < SELECT_TIME)
  <2>1. z \in 0 .. SELECT_TIME /\ z < SELECT_TIME
    BY <1>2 DEF RangeInv, Rounds
  <2>2. CASE Match!Choose
    BY <2>1, <2>2 DEF Match!Choose
  <2>3. CASE Match!DecideRandom
    <3>1. z' = z + 1 /\ pc' = (IF z + 1 < SELECT_TIME THEN "choose" ELSE "end")
      BY <2>3 DEF Match!DecideRandom, Match!NextRound
    <3> QED  BY <2>1, <3>1, BeaconAssumption
  <2> QED  BY <2>2, <2>3 DEF random_Match
<1> QED  BY <1>2, <1>3, <1>4, <1>5 DEF RangeInv, InNums, Lists, Rounds

LEMMA RangeFirst == LinkInv /\ RangeInv /\ FirstInterval => RangeInv'
<1> SUFFICES ASSUME LinkInv, RangeInv, FirstInterval  PROVE RangeInv'
  OBVIOUS
<1>1. /\ InNums(neighbours')
      /\ \A c \in Cars : role'[c] = 2 => neighbours'[c][choose_car'[c]] > 0
  BY ExchangeNums DEF FirstInterval, RangeInv, Linking, Rounds
<1>2. InNums(neighbours)' /\ SendsMore'
  BY <1>1 DEF InNums, Lists, SendsMore
<1>3. pc' \notin Rounds /\ pc = "end"
  BY DEF FirstInterval, NextInterval, Rounds
<1> QED  BY <1>2, <1>3 DEF RangeInv, FirstInterval, NextInterval, InNums, Lists, Rounds

LEMMA RangeLater == LinkInv /\ RangeInv /\ LaterInterval => RangeInv'
<1> SUFFICES ASSUME LinkInv, RangeInv, LaterInterval  PROVE RangeInv'
  OBVIOUS
<1>1. /\ InNums(neighbours')
      /\ \A c \in Cars : role'[c] = 2 => neighbours'[c][choose_car'[c]] > 0
  BY ExchangeNums DEF LaterInterval, RangeInv, Linking, Rounds
<1>2. InNums(neighbours)' /\ SendsMore'
  BY <1>1 DEF InNums, Lists, SendsMore
<1>3. pc' \notin Rounds /\ pc = "interval"
  BY DEF LaterInterval, NextInterval, Rounds
<1>4. ASSUME NEW c \in Cars, NEW d \in Lists(history_neigh', c)
      PROVE  history_neigh'[c][d] \in PacketNums
  <2>1. CASE history_neigh' = [x \in Cars |-> Updated(x)]
    <3>1. history_neigh'[c] = Updated(c)
      BY <2>1
    <3>2. d \in Lists(history_neigh, c) \cup Lists(neighbours', c)
      BY <1>4, <3>1 DEF Updated, Lists
    <3>3. history_neigh'[c][d] = IF d \in Lists(neighbours', c) THEN neighbours'[c][d]
                                 ELSE history_neigh[c][d]
      BY <3>1, <3>2 DEF Updated
    <3> QED  BY <1>1, <3>2, <3>3 DEF RangeInv, InNums
  <2>2. CASE history_neigh' = history_neigh
    BY <1>4, <2>2 DEF RangeInv, InNums
  <2> QED  BY <2>1, <2>2 DEF LaterInterval
<1>5. InNums(history_neigh)'
  BY <1>4 DEF InNums, Lists
<1> QED  BY <1>2, <1>3, <1>5 DEF RangeInv, LaterInterval, NextInterval, Rounds

LEMMA RangeNext == LinkInv /\ RangeInv /\ [Next]_vars => RangeInv'
<1> SUFFICES ASSUME LinkInv, RangeInv, [Next]_vars  PROVE RangeInv'
  OBVIOUS
<1>1. CASE UNCHANGED vars
  BY <1>1 DEF vars, link, RangeInv, InNums, SendsMore, Lists
<1>2. CASE Next
  BY <1>2, RangeGenerate, RangeList, RangeValidate, RangeFilter, RangeDiscover, RangeRound,
     RangeFirst, RangeLater DEF Next
<1> QED  BY <1>1, <1>2

LEMMA TypeOKImplied == LinkInv /\ FrameInv /\ RangeInv => TypeOK
<1> SUFFICES ASSUME LinkInv, FrameInv, RangeInv  PROVE TypeOK
  OBVIOUS
<1>1. neighbours \in Tables /\ history_neigh \in Tables
  BY TablesInNums DEF LinkInv, Types, RangeInv
<1>2. pc \in Rounds => Match!TypeOK
  BY DEF Match!TypeOK, LinkInv, Types, RangeInv, Rounds
<1> QED  BY <1>1, <1>2 DEF TypeOK, LinkInv, Types, FrameInv, RangeInv, Rounds

(* Every variable keeps its type, and no packet_num leaves its range: who    *)
(* sends, in any interval of a frame, has something left to send.           *)
THEOREM TypeOKHolds == Spec => []TypeOK
<1>1. Init => LinkInv /\ FrameInv /\ RangeInv
  <2>1. Init => FrameInv
    BY BeaconAssumption DEF Init, FrameInv, Rounds
  <2> QED  BY <2>1, LinkInit, RangeInit
<1>2. LinkInv /\ FrameInv /\ RangeInv /\ [Next]_vars => (LinkInv /\ FrameInv /\ RangeInv)'
  BY LinkNext, FrameStep, RangeNext
<1> QED  BY <1>1, <1>2, TypeOKImplied, PTL DEF Spec
=============================================================================

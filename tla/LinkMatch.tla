------------------------------ MODULE LinkMatch ------------------------------
(***************************************************************************)
(* The link selection of the mmWave simulator (src/simulation/mmwave):     *)
(* random_Match and COMNET_Match.  After neighbour discovery every car has *)
(* a list of the neighbours it knows.  In each of SELECT_TIME rounds every *)
(* car chooses one of them, a car that chose the car it was chosen by      *)
(* links to it, and COMNET_Match, where a linked car may choose again,     *)
(* then takes a car whose partner has linked to another one out of its old *)
(* link.                                                                   *)
(*                                                                         *)
(* The passes over all cars that read nothing another car writes in the    *)
(* same pass are one step; the pass that breaks old links, which does, is  *)
(* one step per car, in any order.                                         *)
(***************************************************************************)
EXTENDS Integers, FiniteSets

CONSTANTS
    Cars,
    None,           \* NULL
    Protocol,       \* "random" or "comnet"
    SELECT_TIME,    \* rounds (40)
    magic_number,   \* classes of pairs (7)
    MatchIds,       \* values drawn for match_id (1 .. 10000)
    Graphs,         \* lists of known neighbours that discovery may leave
    RateTables      \* data_rate of each car's record of each other car

ASSUME ConstantsOK ==
    /\ IsFiniteSet(Cars) /\ None \notin Cars
    /\ Protocol \in {"random", "comnet"}
    /\ SELECT_TIME \in Nat \ {0}
    /\ magic_number \in Nat \ {0}
    /\ MatchIds \subseteq Nat
    /\ Graphs \subseteq {g \in [Cars -> SUBSET Cars] : \A c \in Cars : c \notin g[c]}
    /\ RateTables \subseteq [Cars -> [Cars -> Nat]]

VARIABLES
    known,          \* known_neigh: a car may know one that does not know it
    data_rate,
    match_id,
    role,           \* 2 for a linked car, 0 for any other
    choose_car,     \* choose_car_Item: the partner
    choice_car,     \* the car chosen in this round
    choose_neigh,   \* the cars that chose this one in this round
    z,              \* the round
    pc,             \* the pass; "end" when the function returns
    todo            \* cars the pass that breaks old links has yet to visit

lists == <<known, data_rate, match_id>>
vars  == <<lists, role, choose_car, choice_car, choose_neigh, z, pc, todo>>

Nobody == [c \in Cars |-> None]

(* The first pass, which both functions begin with.  random_Match leaves    *)
(* match_id alone and does not read it.                                     *)
Init ==
    /\ known \in Graphs /\ data_rate \in RateTables
    /\ match_id \in [Cars -> MatchIds]
    /\ role = [c \in Cars |-> 0]
    /\ choose_car = Nobody /\ choice_car = Nobody
    /\ choose_neigh = [c \in Cars |-> {}]
    /\ z = 0 /\ pc = "choose" /\ todo = {}

-----------------------------------------------------------------------------
(* A car chooses: the values choice_car may take.                           *)

(* random_Match: a car without a link draws any car it knows.               *)
RandomPicks_Several(c) ==
    IF role[c] = 2 \/ Cardinality(known[c]) < 2 THEN {None} ELSE known[c]
RandomPicks(c) == IF role[c] = 2 \/ known[c] = {} THEN {None} ELSE known[c]

(* COMNET_Match: it draws among the cars whose pair with it is of the class *)
(* of the round.                                                            *)
Due(c) == {d \in known[c] : (match_id[d] + match_id[c]) % magic_number = z % magic_number}

(* A linked car declines a car with a lower rate than its partner, and a    *)
(* car that has a link.                                                     *)
Declines_AnyRate(c, d) == role[d] = 2
Declines_LinkedToo(c, d) == data_rate[c][d] < data_rate[c][choose_car[c]]
Declines(c, d) == data_rate[c][d] < data_rate[c][choose_car[c]] \/ role[d] = 2

ComnetPicks(c) ==
    IF Due(c) = {} THEN {None}
    ELSE IF role[c] = 2 THEN {IF Declines(c, d) THEN None ELSE d : d \in Due(c)}
    ELSE Due(c)

Picks(c) == IF Protocol = "random" THEN RandomPicks(c) ELSE ComnetPicks(c)

(* The car chosen hears of it if it knows the car that chose it.            *)
Heard(choice, d) == {c \in known[d] : choice[c] = d}

Choose ==
    /\ pc = "choose"
    /\ choice_car' \in {f \in [Cars -> Cars \cup {None}] : \A c \in Cars : f[c] \in Picks(c)}
    /\ choose_neigh' = [d \in Cars |-> choose_neigh[d] \cup Heard(choice_car', d)]
    /\ pc' = "decide"
    /\ UNCHANGED <<lists, role, choose_car, z, todo>>

-----------------------------------------------------------------------------
(* A car that was chosen by the car it chose links to it.                   *)

Agreed_Chosen(c) == choose_neigh[c] # {} /\ choice_car[c] # None
Agreed(c) == choice_car[c] # None /\ choice_car[c] \in choose_neigh[c]

(* The partner after the pass, and where the round goes on.                 *)
NewPartner_Always(c, agreed) == choice_car[c]
NewPartner(c, agreed) == IF agreed THEN choice_car[c] ELSE choose_car[c]

NextRound_OneMore == IF z < SELECT_TIME THEN "choose" ELSE "end"
NextRound_OneLess == IF z + 2 < SELECT_TIME THEN "choose" ELSE "end"
NextRound == IF z + 1 < SELECT_TIME THEN "choose" ELSE "end"

(* random_Match does not clear choice_car, and a linked car does not decide. *)
DecideRandom ==
    /\ pc = "decide" /\ Protocol = "random"
    /\ LET new == {c \in Cars : Agreed(c) /\ role[c] # 2}
       IN /\ role' = [c \in Cars |-> IF c \in new THEN 2 ELSE role[c]]
          /\ choose_car' = [c \in Cars |-> NewPartner(c, c \in new)]
    /\ choose_neigh' = [c \in Cars |-> {}]
    /\ pc' = NextRound /\ z' = z + 1
    /\ UNCHANGED <<lists, choice_car, todo>>

DecideComnet ==
    /\ pc = "decide" /\ Protocol = "comnet"
    /\ role' = [c \in Cars |-> IF Agreed(c) THEN 2 ELSE role[c]]
    /\ choose_car' = [c \in Cars |-> NewPartner(c, Agreed(c))]
    /\ choice_car' = Nobody
    /\ choose_neigh' = [c \in Cars |-> {}]
    /\ pc' = "break" /\ todo' = Cars
    /\ UNCHANGED <<lists, z>>

-----------------------------------------------------------------------------
(* COMNET_Match: a car leaves its link if its partner has another one.  The *)
(* partner's partner is read through choose_car_Item with no test for NULL: *)
(* the program ends there if one is NULL.                                   *)

ThroughNull(c) == role[c] = 2 /\ None \in {choose_car[c], choose_car[choose_car[c]]}

Left_Never(c) == role[c] # 2
Left(c) == role[c] # 2 \/ choose_car[choose_car[c]] # c

BreakOld(c) ==
    /\ pc = "break" /\ c \in todo /\ ~ThroughNull(c)
    /\ role' = IF Left(c) THEN [role EXCEPT ![c] = 0] ELSE role
    /\ choose_car' = IF Left(c) THEN [choose_car EXCEPT ![c] = None] ELSE choose_car
    /\ todo' = todo \ {c}
    /\ IF todo' = {} THEN pc' = NextRound /\ z' = z + 1 ELSE pc' = pc /\ z' = z
    /\ UNCHANGED <<lists, choice_car, choose_neigh>>

Next ==
    \/ Choose
    \/ DecideRandom
    \/ DecideComnet
    \/ \E c \in Cars : BreakOld(c)

Spec == Init /\ [][Next]_vars

-----------------------------------------------------------------------------
(* Properties.                                                              *)

TypeOK ==
    /\ known \in Graphs /\ data_rate \in RateTables
    /\ match_id \in [Cars -> MatchIds]
    /\ role \in [Cars -> {0, 2}]
    /\ choose_car \in [Cars -> Cars \cup {None}]
    /\ choice_car \in [Cars -> Cars \cup {None}]
    /\ choose_neigh \in [Cars -> SUBSET Cars]
    /\ z \in 0 .. SELECT_TIME
    /\ pc \in {"choose", "decide", "break", "end"}
    /\ todo \subseteq Cars

(* The links as both ends see them: a car that still points to a partner    *)
(* that has linked to another one has no link.                              *)
Link == [c \in Cars |->
            IF choose_car[c] # None /\ choose_car[choose_car[c]] = c THEN choose_car[c] ELSE None]

LinkedCars == {c \in Cars : Link[c] # None}

(* At the end of every round, whatever the order of the pass that breaks    *)
(* links (lines 1345-1367), the partner of each car of role 2 has it as its *)
(* own: the count of role 2, halved, is the number of pairs.                *)
RoundSymmetric ==
    pc \in {"choose", "decide", "end"} =>
        \A c \in Cars : IF role[c] = 2 THEN Link[c] # None ELSE choose_car[c] = None

(* The pass never reads the partner of a partner through NULL (line 1357).  *)
NoNullRead == pc = "break" => \A c \in todo : ~ThroughNull(c)

(* Two cars are linked only if each has discovered the other, although     *)
(* discovery may be one-sided; so the search for the record of the partner *)
(* (lines 1266-1272, and in data_exchange_phase) always finds it.          *)
PartnerKnown ==
    \A c \in Cars : choose_car[c] # None =>
        choose_car[c] \in known[c] /\ c \in known[choose_car[c]]

(* A car that changes its partner does not lose rate (line 1293).          *)
RateNeverDrops ==
    [][\A c \in Cars : Link[c] # None /\ Link'[c] # None =>
          data_rate[c][Link[c]] <= data_rate[c][Link'[c]]]_vars

(* A round never leaves fewer cars with a link: a car that loses its       *)
(* partner loses it to a car that had none.                                *)
LinksNeverFewer == [][Cardinality(LinkedCars) <= Cardinality(LinkedCars')]_vars

(* Where both ends of a link have one rate, the total rate never drops.    *)
(* The code computes a rate per record, and need not give them one: with   *)
(* two rates a car may take more from the partner it leaves than it brings. *)
(* SumOver adds up the rates of the cars that have a link.                 *)
SumOver[S \in SUBSET Cars] ==
    IF S = {} THEN 0
    ELSE LET c == CHOOSE x \in S : TRUE
         IN SumOver[S \ {c}] + (IF Link[c] = None THEN 0 ELSE data_rate[c][Link[c]])
Throughput == SumOver[Cars]
ThroughputNeverDrops == [][Throughput <= Throughput']_vars

(* Two cars that know only each other are linked at the end, if the rounds *)
(* go through all the classes of pairs.                                    *)
IsolatedPairLinks ==
    pc = "end" /\ (Protocol = "comnet" => SELECT_TIME >= magic_number) =>
        \A a, b \in Cars : known[a] = {b} /\ known[b] = {a} => choose_car[a] = b

(* random_Match never takes a link apart: a linked car neither chooses nor *)
(* decides.                                                                *)
LinksStay == [][\A c \in LinkedCars : Link'[c] = Link[c]]_vars

(* Both functions do what Matching promises, each round at the step in     *)
(* which the cars decide.                                                  *)
M == INSTANCE Matching WITH partner <- Link
MatchingHolds == M!Spec
==============================================================================

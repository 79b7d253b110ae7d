---------------------------- MODULE BeaconInterval ----------------------------
(***************************************************************************)
(* The main loop of the mmWave simulator (src/simulation/mmwave/mmwave.c)  *)
(* around the link selection of LinkMatch.  Every BEACON_NUM beacon        *)
(* intervals the cars of the trace are read, each car lists its            *)
(* neighbours, discovers some of them, and random_Match links the cars in  *)
(* pairs; in this interval and the ones up to the next such frame a linked *)
(* car sends to its partner until it has no data left for it.  How much is *)
(* left for a neighbour is carried from frame to frame in history_neigh,   *)
(* which is cleared every RESET intervals.                                 *)
(*                                                                         *)
(* A record of a neighbour names the list Item of the neighbour, and       *)
(* generate_car frees that Item whenever the car is read again.  The       *)
(* memory may be handed back for the new Item of the same car, and then    *)
(* the record still leads to it (itemKept), or not, and then a lookup in   *)
(* history_neigh may give any number.                                      *)
(***************************************************************************)
EXTENDS Integers, FiniteSets, Functions

CONSTANTS
    Cars, None, SELECT_TIME, Graphs,   \* as in LinkMatch
    RateTables,         \* rates the positions of the cars may give
    Lookups,            \* what a record read through a lost Item may show
    BEACON_NUM,         \* intervals in a frame (4)
    RESET,              \* intervals between two resets of history_neigh (200)
    DATA_TIME,          \* data a car has for a new neighbour
    comm_time,          \* time for data in the first interval of a frame
    BEACON_INTERVAL,    \* and in the others
    PacketNums          \* values packet_num may take

ASSUME BeaconAssumption ==
    /\ None \notin Cars /\ Graphs \subseteq [Cars -> SUBSET Cars]
    /\ SELECT_TIME \in Nat \ {0}
    /\ RateTables \subseteq [Cars -> [Cars -> Nat]] /\ Lookups \subseteq [Cars -> [Cars -> PacketNums]]
    /\ BEACON_NUM \in Nat \ {0, 1}
    /\ RESET \in Nat \ {0} /\ RESET % BEACON_NUM = 0
    /\ PacketNums \subseteq Int /\ DATA_TIME \in PacketNums /\ DATA_TIME > 0
    /\ comm_time \in Nat \ {0} /\ BEACON_INTERVAL \in Nat \ {0}
    \* What is left of a value after one interval, at any rate, is a value.
    /\ \A p \in PacketNums, rates \in RateTables : \A c, d \in Cars :
        p > 0 => {p - rates[c][d] * comm_time, p - rates[c][d] * BEACON_INTERVAL} \subseteq PacketNums

VARIABLES
    known, role, choose_car, choice_car, choose_neigh, z,
    pc, todo,       \* as in LinkMatch; pc is also the part of the main loop
    bi_num,         \* modulo RESET
    cars,           \* the cars of the region
    neighbours,     \* for each car, packet_num of the record of each neighbour
    history_neigh,  \* the same, of the records kept between frames
    itemKept        \* the freed Item of a car is the one it gets next

link == <<known, role, choose_car, choice_car, choose_neigh, z>>
vars == <<link, pc, todo, bi_num, cars, neighbours, history_neigh, itemKept>>

NoRecords == [c \in Cars |-> [d \in {} |-> 0]]
Nobody == [c \in Cars |-> None]
Unlinked == [c \in Cars |-> 0]
Unknown == [c \in Cars |-> {}]

(* random_Match reads neither rates nor match_id.                           *)
Match == INSTANCE LinkMatch WITH
            Protocol <- "random", magic_number <- 1,
            MatchIds <- {0}, match_id <- [c \in Cars |-> 0],
            RateTables <- {[c \in Cars |-> [d \in Cars |-> 0]]},
            data_rate <- [c \in Cars |-> [d \in Cars |-> 0]]

Lists(table, c) == DOMAIN table[c]

Init ==
    /\ pc = "generate" /\ todo = {} /\ bi_num = 0
    /\ cars = {} /\ neighbours = NoRecords /\ history_neigh = NoRecords
    /\ itemKept \in BOOLEAN
    /\ known = Unknown /\ role = Unlinked /\ choose_neigh = Unknown
    /\ choose_car = Nobody /\ choice_car = Nobody /\ z = 0

-----------------------------------------------------------------------------
(* init_simulation and generate_car.  A car that the trace no longer has    *)
(* leaves, with its record in the history of each car of its own history;   *)
(* a new one enters only at a reset.                                        *)

AtReset == bi_num = 0

\* Defect: a car that leaves stays in the histories.
Kept_All(c, gone) == Lists(history_neigh, c)
Kept(c, gone) == {d \in Lists(history_neigh, c) : ~(d \in gone /\ c \in Lists(history_neigh, d))}

GenerateCar ==
    /\ pc = "generate"
    /\ \E trace \in SUBSET Cars :
         LET gone == cars \ trace
         IN /\ cars' = IF AtReset THEN trace ELSE cars \cap trace
            /\ history_neigh' =
                 [c \in Cars |-> IF AtReset \/ c \notin cars' THEN NoRecords[c]
                                 ELSE Restrict(history_neigh[c], Kept(c, gone))]
    /\ neighbours' = NoRecords
    /\ role' = Unlinked /\ known' = Unknown /\ choose_neigh' = Unknown
    /\ pc' = "list"
    /\ UNCHANGED <<choose_car, choice_car, z, todo, bi_num, itemKept>>

-----------------------------------------------------------------------------
(* handle_neighbour: the cars seen nearest in each direction, whatever the  *)
(* positions are; then a pass that drops a neighbour that does not list     *)
(* the car; then the neighbours to which everything has been sent.          *)

Carried(c, d) ==
    IF AtReset \/ d \notin Lists(history_neigh, c) THEN DATA_TIME ELSE history_neigh[c][d]

ListNeighbours ==
    /\ pc = "list"
    /\ \E g \in Graphs :
         /\ \A c \in Cars : g[c] \subseteq (IF c \in cars THEN cars ELSE {})
         /\ IF itemKept
            THEN neighbours' = [c \in Cars |-> [d \in g[c] |-> Carried(c, d)]]
            ELSE \E shown \in Lookups :
                   neighbours' = [c \in Cars |-> [d \in g[c] |-> shown[c][d]]]
    /\ todo' = cars
    /\ pc' = IF cars = {} THEN "filter" ELSE "validate"
    /\ UNCHANGED <<link, bi_num, cars, history_neigh, itemKept>>

\* Defect: the pass is skipped.
Mutual_Any(c) == Lists(neighbours, c)
Mutual(c) == {d \in Lists(neighbours, c) : c \in Lists(neighbours, d)}

ValidateNeighbours(c) ==
    /\ pc = "validate" /\ c \in todo
    /\ neighbours' = [neighbours EXCEPT ![c] = Restrict(@, Mutual(c))]
    /\ todo' = todo \ {c}
    /\ pc' = IF todo' = {} THEN "filter" ELSE pc
    /\ UNCHANGED <<link, bi_num, cars, history_neigh, itemKept>>

\* Defect: a neighbour is kept when exactly nothing is left for it.
Unfinished_OrZero(c) == {d \in Lists(neighbours, c) : neighbours[c][d] >= 0}
Unfinished(c) == {d \in Lists(neighbours, c) : neighbours[c][d] > 0}

(* The end of the function.  Its calculate_rate, and the one of             *)
(* update_trans_rate, are in data_exchange_phase, which reads the rates.    *)
FilterNeighbours ==
    /\ pc = "filter"
    /\ neighbours' = [c \in Cars |-> Restrict(neighbours[c], Unfinished(c))]
    /\ pc' = "discover"
    /\ UNCHANGED <<link, todo, bi_num, cars, history_neigh, itemKept>>

-----------------------------------------------------------------------------
(* Random_Neighbour_Discovery adds any of its neighbours to the list of     *)
(* those a car knows: roles and beams are drawn.  With it the first pass of *)
(* random_Match, whose rounds are those of LinkMatch.                       *)

Discover ==
    /\ pc = "discover"
    /\ known' \in {k \in Graphs : \A c \in Cars : k[c] \subseteq Lists(neighbours, c)}
    /\ role' = Unlinked /\ choose_car' = Nobody /\ choice_car' = Nobody
    /\ choose_neigh' = Unknown /\ z' = 0
    /\ pc' = "choose"
    /\ UNCHANGED <<todo, bi_num, cars, neighbours, history_neigh, itemKept>>

random_Match ==
    /\ Match!Choose \/ Match!DecideRandom
    /\ UNCHANGED <<bi_num, cars, neighbours, history_neigh, itemKept>>

-----------------------------------------------------------------------------
(* data_exchange_phase: each end of a link sends on its own record, and     *)
(* leaves the link when it has nothing left, whatever the other end has.    *)
(* The record is searched for in known_neigh by the id of the partner with  *)
(* no test for the end of the list: the program ends there if it is absent. *)

Sending == {c \in Cars : role[c] = 2}
RecordAbsent(c) == choose_car[c] \notin known[c]

LeftAfter(c, data_rate, time) ==
    neighbours[c][choose_car[c]] - data_rate[c][choose_car[c]] * time

\* Defect: a car that is done keeps its role.
RoleAfter_Kept(done) == role
RoleAfter(done) == [c \in Cars |-> IF c \in done THEN 0 ELSE role[c]]

data_exchange_phase(time) ==
    \E data_rate \in RateTables :
        LET left == [c \in Sending |-> LeftAfter(c, data_rate, time)]
            done == {c \in Sending : left[c] <= 0}
        IN /\ neighbours' = [c \in Cars |->
                IF c \in Sending THEN [neighbours[c] EXCEPT ![choose_car[c]] = left[c]]
                ELSE neighbours[c]]
           /\ role' = RoleAfter(done)
           /\ choose_car' = [c \in Cars |-> IF c \in done THEN None ELSE choose_car[c]]
           /\ known' = [c \in Cars |-> known[c] \ (IF c \in done THEN {choose_car[c]} ELSE {})]

NextInterval ==
    /\ bi_num' = (bi_num + 1) % RESET
    /\ pc' = IF bi_num' % BEACON_NUM = 0 THEN "generate" ELSE "interval"

(* The rest of final_bi_protocol_random.  Nothing reads choice_car again    *)
(* before it is set: it is cleared here.                                    *)
FirstInterval ==
    /\ pc = "end" /\ \A c \in Sending : ~RecordAbsent(c)
    /\ data_exchange_phase(comm_time)
    /\ choice_car' = Nobody
    /\ NextInterval
    /\ UNCHANGED <<choose_neigh, z, todo, cars, history_neigh, itemKept>>

(* update_vehicle_info: what is left goes to the history, where a neighbour *)
(* that is met for the first time is added.                                 *)
\* Defect: a record that is already there is not updated.
Updated_AddOnly(c) ==
    [d \in Lists(history_neigh, c) \cup Lists(neighbours', c) |->
        IF d \in Lists(history_neigh, c) THEN history_neigh[c][d] ELSE neighbours'[c][d]]
Updated(c) ==
    [d \in Lists(history_neigh, c) \cup Lists(neighbours', c) |->
        IF d \in Lists(neighbours', c) THEN neighbours'[c][d] ELSE history_neigh[c][d]]

(* update_trans_rate and data_exchange_phase.  Without the Items nothing    *)
(* that is read depends on the history, which is left empty.                *)
LaterInterval ==
    /\ pc = "interval" /\ \A c \in Sending : ~RecordAbsent(c)
    /\ data_exchange_phase(BEACON_INTERVAL)
    /\ history_neigh' = IF itemKept /\ bi_num % BEACON_NUM = BEACON_NUM - 1
                        THEN [c \in Cars |-> Updated(c)] ELSE history_neigh
    /\ NextInterval
    /\ UNCHANGED <<choice_car, choose_neigh, z, todo, cars, itemKept>>

Next ==
    \/ GenerateCar
    \/ ListNeighbours
    \/ \E c \in Cars : ValidateNeighbours(c)
    \/ FilterNeighbours
    \/ Discover
    \/ random_Match
    \/ FirstInterval
    \/ LaterInterval

Spec == Init /\ [][Next]_vars

-----------------------------------------------------------------------------
(* Properties.                                                              *)

Tables == [Cars -> UNION {[S -> PacketNums] : S \in SUBSET Cars}]

(* Every variable keeps its type.  No packet_num leaves PacketNums, which    *)
(* need only hold what one interval makes of a positive value: nobody sends *)
(* from a record with nothing left, in any interval of any frame.           *)
TypeOK ==
    /\ pc \in {"choose", "decide", "end"} => Match!TypeOK
    /\ pc \in {"generate", "list", "validate", "filter", "discover", "choose",
               "decide", "end", "interval"}
    /\ bi_num \in 0 .. RESET - 1 /\ cars \subseteq Cars /\ todo \subseteq cars
    /\ neighbours \in Tables /\ history_neigh \in Tables
    /\ role \in [Cars -> {0, 2}] /\ choose_car \in [Cars -> Cars \cup {None}]
    /\ known \in [Cars -> SUBSET Cars] /\ itemKept \in BOOLEAN

(* The search of data_exchange_phase (lines 1580-1586) finds the record of  *)
(* the partner, in every interval of the frame, also after one end of the   *)
(* link is done and has dropped its own record.                             *)
RecordFound ==
    pc \in {"end", "interval"} =>
        \A c \in Sending : ~RecordAbsent(c) /\ choose_car[c] \in Lists(neighbours, c)

(* What c has left to send to d, as the next frame will see it.             *)
LeftFor(c, d) ==
    IF d \in Lists(neighbours, c) THEN neighbours[c][d]
    ELSE IF d \in Lists(history_neigh, c) THEN history_neigh[c][d]
    ELSE DATA_TIME

(* Data that was sent stays sent: between two resets no car has ever more   *)
(* left for another one, over frames in which they were neighbours or not.  *)
DataOnlyFalls ==
    [][itemKept /\ ~(pc = "generate" /\ AtReset) =>
         \A c, d \in cars : {c, d} \subseteq cars' => LeftFor(c, d)' <= LeftFor(c, d)]_vars

(* No history has a record of a car that has left, whose Item is freed:     *)
(* generate_car clears them through the history of the car that leaves,     *)
(* which is enough because the two histories always list each other.        *)
NoDanglingRecord ==
    itemKept => \A c \in Cars : Lists(history_neigh, c) \subseteq cars

(* A pair of which one end has sent everything is not linked in a later     *)
(* frame, also if the other end has data left.                              *)
FinishedNotLinked ==
    pc \in {"choose", "decide", "end"} =>
        \A c \in Cars : choose_car[c] # None =>
            LeftFor(c, choose_car[c]) > 0 /\ LeftFor(choose_car[c], c) > 0
===============================================================================

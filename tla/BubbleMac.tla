------------------------------ MODULE BubbleMac ------------------------------
(***************************************************************************)
(* The Bubble MAC slot simulator (src/simulation/bubble_old): vehicles on  *)
(* a straight road share the slots of a frame.  The main loop visits every *)
(* slot; every UpLocSlot slots it reads the next position file, at the     *)
(* start of every frame it runs bubble_mac_protocol and clearPackets, and  *)
(* in every slot it runs handle_transmitter and then handle_receiver.      *)
(*                                                                         *)
(* A vehicle is its id.  All functions over vehicles have the domain       *)
(* present: a vehicle outside it has no struct.  When a vehicle is freed,  *)
(* every pointer to it that survives becomes Freed, and what is read       *)
(* through such a pointer is an arbitrary value.                           *)
(***************************************************************************)
EXTENDS Integers, Sequences, FiniteSets, SequencesExt

CONSTANTS
    Cars,           \* ids the position files may contain
    Freed,          \* a pointer to a vehicle that has been freed
    None,           \* NULL, and NOT_OCCUPIED in a slot table
    SlotPerFrame,   \* slots of a frame (200)
    HEAD_SLOT,      \* slot of a platoon's head (1)
    TAIL_SLOT,      \* slot of a platoon's tail (199)
    UpLocSlot,      \* slots between two position updates (10)
    nFrameSta,      \* frames between two admissions of vehicles (10)
    NumSlots,       \* slots the main loop runs (4000)
    Places,         \* positions along the road
    CellSize,       \* length of a cell of the region's mesh
    Dir,            \* Dir[c] = 1 or -1: sign of dir_x; dir_y is 0 on this road
    SafeDists,      \* values of safeDistance(v, NULL), which depends on the speed
    Garbage,        \* distances computed from a freed vehicle
    FreshVehicles   \* values of the fields malloc leaves uninitialised

ASSUME ConstantsOK ==
    /\ IsFiniteSet(Cars)
    /\ Freed \notin Cars /\ None \notin Cars
    /\ SlotPerFrame \in Nat /\ SlotPerFrame > 2
    /\ HEAD_SLOT \in 0 .. SlotPerFrame - 1
    /\ TAIL_SLOT \in 0 .. SlotPerFrame - 1
    /\ UpLocSlot \in Nat \ {0}
    /\ nFrameSta \in Nat \ {0}
    /\ NumSlots \in Nat \ {0}
    /\ Places \subseteq Nat
    /\ CellSize \in Nat \ {0}
    /\ Dir \in [Cars -> {-1, 1}]
    /\ SafeDists \subseteq Nat
    /\ Garbage \subseteq Nat

(* car_role; "other" is any value no case of the switch names.             *)
Role == {"single", "head", "tail", "mid", "other"}

(* slot_condition: 0 no slot, 1 applying for one, 2 slot confirmed; 3 is   *)
(* any value the code does not test for.                                   *)
Condition == 0 .. 3

Vehicle == [role : Role, cond : Condition, occ : Nat, radius : Nat, flag : BOOLEAN]

ASSUME FreshOK == FreshVehicles \subseteq Vehicle

Packet == [slot : Nat, src : Cars \cup {Freed}]

VARIABLES
    slot,           \* the global slot counter: it counts on across frames
    pc,             \* the part of the loop body that runs next; "done" after the
                    \* last slot, or after a write outside a table, of which
                    \* nothing further is claimed
    sent,           \* transmitters handle_transmitter has visited in this slot
    present,        \* vehicles on the lists of the mesh's cells
    pos, safe,      \* position; safeDistance(v, NULL)
    role, slot_condition, slot_occupied, commRadius, radius_flag,
    packets,        \* the list of packets, as duallist links it
    nItems,         \* the count in the same Duallist, which can disagree
    slot_oneHop,    \* id last heard in each slot
    frontV, rearV,  \* nearest vehicle heard from the front, from the rear
    cnt_pkt, cnt_received, cnt_coli,
    wild            \* a table was written outside its bounds

table  == <<present, pos, safe>>
mac    == <<role, slot_condition, slot_occupied, commRadius, radius_flag>>
rx     == <<packets, nItems, slot_oneHop, frontV, rearV>>
counts == <<cnt_pkt, cnt_received, cnt_coli>>
vars   == <<slot, pc, sent, table, mac, rx, counts, wild>>

NoVehicle == [c \in {} |-> 0]

Init ==
    /\ slot = 0 /\ pc = "update" /\ sent = {}
    /\ present = {} /\ pos = NoVehicle /\ safe = NoVehicle
    /\ role = NoVehicle /\ slot_condition = NoVehicle /\ slot_occupied = NoVehicle
    /\ commRadius = NoVehicle /\ radius_flag = NoVehicle
    /\ packets = NoVehicle /\ nItems = NoVehicle /\ slot_oneHop = NoVehicle
    /\ frontV = NoVehicle /\ rearV = NoVehicle
    /\ cnt_pkt = 0 /\ cnt_received = 0 /\ cnt_coli = 0
    /\ wild = FALSE

-----------------------------------------------------------------------------
(* Geometry of the road.                                                   *)

Max2(a, b) == IF a > b THEN a ELSE b

(* distance_between_vehicle, vehicleDistance *)
Distance(a, b) == IF pos[a] > pos[b] THEN pos[a] - pos[b] ELSE pos[b] - pos[a]

(* curInFront: with dir_y = 0 only the difference along the road counts.   *)
InFront(cur, tar) == (pos[cur] - pos[tar]) * Dir[cur] > 0

(* handle_neighbours: the other vehicles of the same or an adjacent cell.  *)
Cell(c) == pos[c] \div CellSize
Neighbours(a) == {b \in present \ {a} : Cell(b) - Cell(a) \in -1 .. 1}

(* rand() % (SlotPerFrame - 2) + 1 *)
RandomSlots == 1 .. SlotPerFrame - 2

-----------------------------------------------------------------------------
(* One iteration of the main loop.                                         *)

PhaseAt_LastSlotTwice(s) ==
    IF s > NumSlots THEN "done"
    ELSE IF s % UpLocSlot = 0 THEN "update"
    ELSE IF s % SlotPerFrame = 0 THEN "protocol"
    ELSE "slot"
PhaseAt(s) ==
    IF s = NumSlots THEN "done"
    ELSE IF s % UpLocSlot = 0 THEN "update"
    ELSE IF s % SlotPerFrame = 0 THEN "protocol"
    ELSE "slot"

(* The list of a surviving vehicle after the vehicles of gone are freed.   *)
Forget(list, gone) ==
    [i \in 1 .. Len(list) |->
        IF list[i].src \in gone THEN [list[i] EXCEPT !.src = Freed] ELSE list[i]]

Dangle(ptr, gone) == IF ptr \in gone THEN Freed ELSE ptr

(* New vehicles are admitted only every nFrameSta frames.                  *)
Admitted(recorded) ==
    IF slot % (SlotPerFrame * nFrameSta) = 0 THEN recorded \ present ELSE {}

(* The vehicles now on the lists: those of added are new, those of gone    *)
(* freed, and packets, frontV and rearV may still point to these.          *)
Load(now, added, gone) ==
    /\ present' = now
    /\ pos' \in [now -> Places]
    /\ safe' \in [now -> SafeDists]
    /\ \E fresh \in [added -> FreshVehicles] :
         /\ role' = [c \in now |-> IF c \in added THEN fresh[c].role ELSE role[c]]
         /\ slot_condition' =
              [c \in now |-> IF c \in added THEN fresh[c].cond ELSE slot_condition[c]]
         /\ slot_occupied' =
              [c \in now |-> IF c \in added THEN fresh[c].occ ELSE slot_occupied[c]]
         /\ commRadius' = [c \in now |-> IF c \in added THEN fresh[c].radius ELSE commRadius[c]]
         /\ radius_flag' = [c \in now |-> IF c \in added THEN fresh[c].flag ELSE radius_flag[c]]
    /\ packets' = [c \in now |-> IF c \in added THEN << >> ELSE Forget(packets[c], gone)]
    /\ nItems' = [c \in now |-> IF c \in added THEN 0 ELSE nItems[c]]
    /\ slot_oneHop' = [c \in now |-> IF c \in added THEN [s \in 0 .. SlotPerFrame - 1 |-> None]
                                                    ELSE slot_oneHop[c]]
    /\ frontV' = [c \in now |-> IF c \in added THEN None ELSE Dangle(frontV[c], gone)]
    /\ rearV' = [c \in now |-> IF c \in added THEN None ELSE Dangle(rearV[c], gone)]

(***************************************************************************)
(* init_simulation, update_cars and handle_neighbours.  recorded is the    *)
(* set of ids in the position file.  Vehicles already present move; one    *)
(* with no record is freed.  The neighbour lists are rebuilt, so they are  *)
(* a function of pos.                                                      *)
(***************************************************************************)
UpdateCars ==
    /\ pc = "update"
    /\ \E recorded \in SUBSET Cars :
         Load((present \cap recorded) \cup Admitted(recorded),
              Admitted(recorded), present \ recorded)
    /\ pc' = IF slot % SlotPerFrame = 0 THEN "protocol" ELSE "slot"
    /\ UNCHANGED <<slot, sent, counts, wild>>

-----------------------------------------------------------------------------
(* bubble_mac_protocol and clearPackets, at the start of a frame.          *)

(* A single vehicle without a slot, or one whose list of packets is empty, *)
(* draws a slot at random.                                                 *)
Redraws == {c \in present : /\ role[c] = "single"
                            /\ \/ slot_condition[c] = 0
                               \/ slot_condition[c] = 1 /\ packets[c] = << >>}

(* A single vehicle with packets joins the sender of the first one.        *)
Mergers == {c \in present : /\ role[c] = "single"
                            /\ slot_condition[c] = 1
                            /\ packets[c] # << >>}

(* The tests of "packets.head = NULL" in the branches of these roles are   *)
(* assignments: no branch is taken and the list is lost, its count is not. *)
InPlatoon == {c \in present : role[c] \in {"head", "tail", "mid"}}

(* Vehicles whose step may read a freed vehicle.                           *)
Unsure == {c \in Mergers : Head(packets[c]).src = Freed}
          \cup {c \in InPlatoon : Freed \in {frontV[c], rearV[c]}}

MergeRole(ahead) == IF ahead THEN "head" ELSE "tail"
MergeSlot_Swapped(ahead) == IF ahead THEN TAIL_SLOT ELSE HEAD_SLOT
MergeSlot(ahead) == IF ahead THEN HEAD_SLOT ELSE TAIL_SLOT
MergeRadius(c, ahead, dis) == IF ahead THEN Max2(safe[c], dis) ELSE dis

(* The second pass, for a vehicle whose radius_flag is not set, given its  *)
(* distances to frontV and rearV.                                          *)
RoleRadius(c, front, rear) ==
    CASE role[c] \in {"single", "head"} -> safe[c]
      [] role[c] = "tail" /\ frontV[c] # None -> front
      [] role[c] = "mid" /\ None \notin {frontV[c], rearV[c]} -> Max2(front, rear)
      [] OTHER -> commRadius[c]

(* duallist_destroy counts down one for each item it can still reach.      *)
CountAfterClear_Uncounted(c) == nItems[c]
CountAfterClear(c) == IF c \in InPlatoon THEN nItems[c] ELSE nItems[c] - Len(packets[c])

FrameStart ==
    /\ pc = "protocol"
    /\ \E rnd \in [Redraws -> RandomSlots],
          guess \in [Unsure -> [front : BOOLEAN, dis : Garbage]] :
         LET Far(c, ptr) == IF ptr = Freed THEN guess[c].dis ELSE Distance(c, ptr)
             Sender(c)   == Head(packets[c]).src
             Ahead(c)    == IF Sender(c) = Freed THEN guess[c].front
                                                 ELSE InFront(c, Sender(c))
         IN /\ role' = [c \in present |-> IF c \in Mergers THEN MergeRole(Ahead(c)) ELSE role[c]]
            /\ slot_occupied' = [c \in present |->
                    IF c \in Redraws THEN rnd[c]
                    ELSE IF c \in Mergers THEN MergeSlot(Ahead(c)) ELSE slot_occupied[c]]
            /\ commRadius' = [c \in present |->
                    IF c \in Mergers THEN MergeRadius(c, Ahead(c), Far(c, Sender(c)))
                    ELSE IF radius_flag[c] THEN commRadius[c]
                    ELSE RoleRadius(c, Far(c, frontV[c]), Far(c, rearV[c]))]
    /\ slot_condition' = [c \in present |-> IF c \in Redraws THEN 1 ELSE slot_condition[c]]
    /\ radius_flag' = [c \in present |-> FALSE]
    /\ nItems' = [c \in present |-> CountAfterClear(c)]
    /\ packets' = [c \in present |-> << >>]
    /\ frontV' = [c \in present |-> None]
    /\ rearV' = [c \in present |-> None]
    /\ pc' = "slot"
    /\ UNCHANGED <<slot, sent, table, slot_oneHop, counts, wild>>

-----------------------------------------------------------------------------
(* handle_transmitter and handle_receiver, in every slot.                  *)

(* slot counts on across frames: slot_occupied is compared with it as is.  *)
Transmitters_InFrame == {c \in present : slot_occupied[c] = slot % SlotPerFrame}
Transmitters == {c \in present : slot_occupied[c] = slot}

InRange(a) == {b \in Neighbours(a) : Distance(a, b) <= commRadius[a]}

(* One transmitter of handle_transmitter, in any order of the mesh's lists: *)
(* a packet for each neighbour in range, unless that one transmits too.    *)
Transmit(a) ==
    LET blocked == {b \in InRange(a) : slot_occupied[b] = slot_occupied[a]}
        reached == InRange(a) \ blocked
    IN /\ pc = "slot" /\ a \in Transmitters \ sent
       /\ packets' = [b \in present |->
              IF b \in reached THEN Append(packets[b], [slot |-> slot, src |-> a])
                               ELSE packets[b]]
       /\ nItems' = [b \in present |-> IF b \in reached THEN nItems[b] + 1 ELSE nItems[b]]
       /\ cnt_pkt' = cnt_pkt + Cardinality(reached)
       /\ cnt_coli' = cnt_coli + Cardinality(blocked)
       /\ sent' = sent \cup {a}
       /\ UNCHANGED <<slot, pc, table, mac, slot_oneHop, frontV, rearV, cnt_received, wild>>

(* The vehicles handle_receiver does not skip.                             *)
Listeners == {c \in present : slot_occupied[c] # slot /\ nItems[c] # 0}

(* The indices of the packets of this slot in the list of c.               *)
Now(c) == {i \in 1 .. Len(packets[c]) : packets[c][i].slot = slot}

Silent == {c \in Listeners : Now(c) = {}}
Received_Any == {c \in Listeners : Now(c) # {}}
Received == {c \in Listeners : Cardinality(Now(c)) = 1}
Collided == {c \in Listeners : Cardinality(Now(c)) > 1}

(* duallist_pick_tail: the last packet of the list is the one received.    *)
PickedPlace_First(c) == 1
PickedPlace(c) == Len(packets[c])
PickedPacket(c) == packets[c][PickedPlace(c)]
PickTail_Peek(c) == packets[c]
PickTail(c) == RemoveAt(packets[c], PickedPlace(c))

(* The entry of slot_oneHop that a vehicle writes which hears nothing, or   *)
(* one packet.  The index comes from the counter, or from that packet.     *)
EntryOf(c) == IF c \in Silent THEN slot ELSE PickedPacket(c).slot

(* The packets of a collision that are logged: senders with condition 1, 2. *)
Logged(c) == {i \in Now(c) : slot_condition[packets[c][i].src] \in {1, 2}}

(* insertFrontRear on one of the two lists: the nearest vehicle stays.     *)
Nearest(c, old, new, guess) ==
    CASE old = None  -> new
      [] old = Freed -> IF guess THEN new ELSE old
      [] OTHER -> IF Distance(c, old) > Distance(c, new) THEN new ELSE old

(* IsFront returns nothing when dir_x or dir_y is 0, as on this road: any  *)
(* answer.  Which distance a freed vehicle gives is any answer too.        *)
Receive ==
    /\ pc = "slot" /\ Transmitters \subseteq sent
    /\ slot_oneHop' = [c \in present |->
           IF c \in Silent \cup Received /\ EntryOf(c) < SlotPerFrame
           THEN [slot_oneHop[c] EXCEPT ![EntryOf(c)] =
                    IF c \in Silent THEN None ELSE PickedPacket(c).src]
           ELSE slot_oneHop[c]]
    /\ wild' = (wild \/ \E c \in Silent \cup Received : EntryOf(c) >= SlotPerFrame)
    /\ packets' = [c \in present |-> IF c \in Received THEN PickTail(c) ELSE packets[c]]
    /\ nItems' = [c \in present |-> IF c \in Received THEN nItems[c] - 1 ELSE nItems[c]]
    /\ \E ahead, nearer \in [Received -> BOOLEAN] :
         /\ frontV' = [c \in present |->
                IF c \in Received /\ ahead[c]
                THEN Nearest(c, frontV[c], PickedPacket(c).src, nearer[c]) ELSE frontV[c]]
         /\ rearV' = [c \in present |->
                IF c \in Received /\ ~ahead[c]
                THEN Nearest(c, rearV[c], PickedPacket(c).src, nearer[c]) ELSE rearV[c]]
    /\ cnt_received' = cnt_received + Cardinality(Received)
    /\ cnt_coli' = cnt_coli + Cardinality(UNION {Logged(c) \X {c} : c \in Collided})
    /\ slot' = slot + 1
    /\ pc' = IF wild' THEN "done" ELSE PhaseAt(slot + 1)
    /\ sent' = {}
    /\ UNCHANGED <<table, mac, cnt_pkt>>

Next ==
    \/ UpdateCars
    \/ FrameStart
    \/ \E a \in present : Transmit(a)
    \/ Receive

Spec == Init /\ [][Next]_vars

-----------------------------------------------------------------------------
(* Properties.                                                             *)

(* Every vehicle on the lists has all its fields, with values the code can *)
(* store in them; a pointer leads to a vehicle or to a freed one.          *)
TypeOK ==
    /\ slot \in 0 .. NumSlots
    /\ pc \in {"update", "protocol", "slot", "done"}
    /\ present \subseteq Cars /\ sent \subseteq present
    /\ pos \in [present -> Places] /\ safe \in [present -> SafeDists]
    /\ role \in [present -> Role] /\ slot_condition \in [present -> Condition]
    /\ slot_occupied \in [present -> Nat] /\ commRadius \in [present -> Nat]
    /\ radius_flag \in [present -> BOOLEAN]
    /\ packets \in [present -> Seq(Packet)] /\ nItems \in [present -> Nat]
    /\ slot_oneHop \in [present -> [0 .. SlotPerFrame - 1 -> Cars \cup {None}]]
    /\ frontV \in [present -> Cars \cup {None, Freed}]
    /\ rearV \in [present -> Cars \cup {None, Freed}]
    /\ cnt_pkt \in Nat /\ cnt_received \in Nat /\ cnt_coli \in Nat
    /\ wild \in BOOLEAN

(* A packet that is still on a list after its slot is over was one of      *)
(* several in that slot: handle_receiver takes a packet that came alone    *)
(* off the list (line 450), so bubble_mac_protocol sees collisions only.   *)
UndeliveredCollided ==
    \A c \in present : \A i \in 1 .. Len(packets[c]) :
        packets[c][i].slot < slot =>
            \E j \in 1 .. Len(packets[c]) : j # i /\ packets[c][j].slot = packets[c][i].slot

(* A single vehicle becomes a head or a tail only if two packets collided  *)
(* at it in the last frame: what it received never makes it merge.         *)
MergeOnlyAfterCollision ==
    [][\A c \in present \cap present' :
          role[c] = "single" /\ role'[c] # "single" =>
             \E i, j \in 1 .. Len(packets[c]) :
                i # j /\ packets[c][i].slot = packets[c][j].slot]_vars

(* A packet is counted once: as received, or while it is on a list.        *)
Pending == UNION {{c} \X (1 .. Len(packets[c])) : c \in present}
ReceptionAccounting == cnt_received + Cardinality(Pending) <= cnt_pkt

(* If malloc returns zeroed memory, a platoon is a set of heads on         *)
(* HEAD_SLOT and tails on TAIL_SLOT whose application is never confirmed:  *)
(* no vehicle reaches slot_condition 2, or becomes a mid.                  *)
PlatoonSlots ==
    \A c \in present :
        /\ role[c] \in {"single", "head", "tail"} /\ slot_condition[c] < 2
        /\ role[c] = "head" => slot_occupied[c] = HEAD_SLOT /\ slot_condition[c] = 1
        /\ role[c] = "tail" => slot_occupied[c] = TAIL_SLOT /\ slot_condition[c] = 1

(* If malloc returns zeroed memory, nothing is sent, received or collides  *)
(* after the first frame: slot_occupied stays below SlotPerFrame, slot     *)
(* does not (line 372).                                                    *)
SilentAfterFirstFrame == [][slot >= SlotPerFrame => UNCHANGED counts]_vars

(* If malloc returns zeroed memory, handle_receiver never indexes          *)
(* slot_oneHop with a slot of a later frame (lines 446 and 452).           *)
NoWildWrite == ~wild

(* If malloc returns zeroed memory, a Duallist counts what it links, in    *)
(* spite of the list heads lost at lines 850, 879 and 907.                 *)
CountMatchesList == \A c \in present : nItems[c] = Len(packets[c])

(* slot_oneHop tells the truth, whatever malloc returned.  A slot with a   *)
(* vehicle in it is one in which a single packet came, and that packet was *)
(* taken: none of that slot is on the list, so no slot whose packets have  *)
(* collided has a vehicle (lines 450-452).  And in the first frame the     *)
(* vehicle, while it is there, occupies that slot.                         *)
OneHopTruthful ==
    \A c \in present : \A s \in 0 .. SlotPerFrame - 1 :
        slot_oneHop[c][s] # None =>
            /\ \A i \in 1 .. Len(packets[c]) : packets[c][i].slot # s
            /\ slot < SlotPerFrame /\ slot_oneHop[c][s] \in present =>
                    slot_occupied[slot_oneHop[c][s]] = s

-----------------------------------------------------------------------------
(* What comments of the code say, and the code does not do.                *)

(* "slot/SlotPerFrame is the number of the frame": so a vehicle owns one   *)
(* slot of every frame, and transmits when that slot of a frame comes.     *)
CarTransmitsInItsSlot ==
    [][slot' # slot =>
          \A c \in present : slot_occupied[c] = slot % SlotPerFrame => c \in sent]_vars

(* "Nobody answered, the single car draws a new slot": a vehicle that      *)
(* applied for a slot and heard somebody in the frame keeps it.            *)
RedrawOnlyIfUnanswered ==
    [][\A c \in present \cap present' :
          /\ role[c] = "single" /\ slot_condition[c] = 1
          /\ {frontV[c], rearV[c]} # {None}
          /\ slot_occupied'[c] # slot_occupied[c]
          => role'[c] # "single"]_vars

(* degrade, "back to a single car", for a head that heard nobody.          *)
LonelyHeadDegrades ==
    [][\A c \in present \cap present' :
          pc = "protocol" /\ role[c] = "head" /\ packets[c] = << >> => role'[c] = "single"]_vars

(* "Vehicles that disappeared are cleared away at every updateLoc": no     *)
(* vehicle then merges with the sender of a packet (line 822) that is gone. *)
NoStaleSender == pc = "protocol" => \A c \in Mergers : Head(packets[c]).src # Freed
==============================================================================

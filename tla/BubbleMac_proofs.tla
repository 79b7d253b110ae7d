-------------------------- MODULE BubbleMac_proofs --------------------------
(***************************************************************************)
(* Proofs about BubbleMac, for every set of vehicles, frame length, road   *)
(* and number of slots.                                                    *)
(***************************************************************************)
EXTENDS BubbleMac, SequenceTheorems, FiniteSetTheorems, TLAPS

-----------------------------------------------------------------------------
(* Lemmas about the lists of packets.                                      *)

(* Forgetting freed senders changes neither the length nor the slots.      *)
LEMMA ForgetProperties ==
    ASSUME NEW list \in Seq(Packet), NEW gone
    PROVE  /\ Forget(list, gone) \in Seq(Packet)
           /\ Len(Forget(list, gone)) = Len(list)
           /\ \A i \in 1 .. Len(list) :
                /\ Forget(list, gone)[i].slot = list[i].slot
                /\ Forget(list, gone)[i].src =
                      IF list[i].src \in gone THEN Freed ELSE list[i].src
<1> DEFINE f == Forget(list, gone)
<1>1. Len(list) \in Nat /\ list \in [1 .. Len(list) -> Packet]
  BY LenProperties
<1>2. \A i \in 1 .. Len(list) :
         /\ f[i] \in Packet
         /\ f[i].slot = list[i].slot
         /\ f[i].src = IF list[i].src \in gone THEN Freed ELSE list[i].src
  BY <1>1 DEF Forget, Packet
<1>3. f \in [1 .. Len(list) -> Packet]
  BY <1>1, <1>2 DEF Forget
<1>4. f \in Seq(Packet)
  BY <1>1, <1>3, SeqDef
<1>5. DOMAIN f = 1 .. Len(f) /\ Len(f) \in Nat
  BY <1>4, LenProperties
<1>6. Len(f) = Len(list)
  BY <1>1, <1>3, <1>5
<1> QED
  BY <1>2, <1>4, <1>6

(* All but the last element of a sequence.                                 *)
LEMMA FrontProperties ==
    ASSUME NEW S, NEW s \in Seq(S), Len(s) > 0
    PROVE  /\ SubSeq(s, 1, Len(s) - 1) \in Seq(S)
           /\ Len(SubSeq(s, 1, Len(s) - 1)) = Len(s) - 1
           /\ \A i \in 1 .. Len(s) - 1 : SubSeq(s, 1, Len(s) - 1)[i] = s[i]
           /\ s[Len(s)] \in S
<1>1. Len(s) \in Nat
  BY LenProperties
<1>2. \A i \in 1 .. Len(s) : s[i] \in S
  BY <1>1, ElementOfSeq
<1> DEFINE n == Len(s) - 1
<1>3. /\ SubSeq(s, 1, n) \in Seq(S)
      /\ Len(SubSeq(s, 1, n)) = IF 1 <= n THEN n - 1 + 1 ELSE 0
      /\ \A i \in 1 .. n - 1 + 1 : SubSeq(s, 1, n)[i] = s[1 + i - 1]
  <2>1. n \in Int /\ \A i \in 1 .. n : s[i] \in S
    BY <1>1, <1>2
  <2> HIDE DEF n
  <2> QED
    BY <2>1, SubSeqProperties
<1>4. n \in Nat /\ n - 1 + 1 = n
  BY <1>1
<1>5. Len(SubSeq(s, 1, n)) = n
  BY <1>3, <1>4
<1>6. \A i \in 1 .. n : SubSeq(s, 1, n)[i] = s[i]
  <2> HIDE DEF n
  <2> TAKE i \in 1 .. n
  <2>1. 1 + i - 1 = i
    BY <1>4
  <2> QED
    BY <1>3, <1>4, <2>1
<1> QED
  BY <1>1, <1>2, <1>3, <1>5, <1>6

-----------------------------------------------------------------------------
(* The inductive invariant behind TypeOK.                                  *)

(* A pointer that is kept leads to a vehicle that exists, or is marked as  *)
(* leading to a freed one: so every distance the model takes is of two     *)
(* vehicles that exist.                                                    *)
PointersValid ==
    \A c \in present :
        /\ frontV[c] \in present \cup {None, Freed}
        /\ rearV[c] \in present \cup {None, Freed}
        /\ \A i \in 1 .. Len(packets[c]) : packets[c][i].src \in present \cup {Freed}

(* The count of a Duallist may exceed what it links, never fall below it.  *)
ListBelowCount == \A c \in present : Len(packets[c]) <= nItems[c]

LoopState ==
    /\ pc # "done" => slot < NumSlots
    /\ pc # "slot" => sent = {}

IInv == TypeOK /\ PointersValid /\ ListBelowCount /\ LoopState

LEMMA DistanceInNat ==
    ASSUME TypeOK, NEW a \in present, NEW b \in present
    PROVE  Distance(a, b) \in Nat
<1>1. pos[a] \in Nat /\ pos[b] \in Nat
  BY ConstantsOK DEF TypeOK
<1> QED
  BY <1>1 DEF Distance

LEMMA InitIInv == Init => IInv
<1> SUFFICES ASSUME Init PROVE IInv
  OBVIOUS
<1>1. \A S : NoVehicle \in [present -> S]
  BY DEF NoVehicle, Init
<1>2. /\ pos \in [present -> Places] /\ safe \in [present -> SafeDists]
      /\ role \in [present -> Role] /\ slot_condition \in [present -> Condition]
      /\ slot_occupied \in [present -> Nat] /\ commRadius \in [present -> Nat]
      /\ radius_flag \in [present -> BOOLEAN]
      /\ packets \in [present -> Seq(Packet)] /\ nItems \in [present -> Nat]
      /\ slot_oneHop \in [present -> [0 .. SlotPerFrame - 1 -> Cars \cup {None}]]
      /\ frontV \in [present -> Cars \cup {None, Freed}]
      /\ rearV \in [present -> Cars \cup {None, Freed}]
  <2>1. /\ pos = NoVehicle /\ safe = NoVehicle /\ role = NoVehicle
        /\ slot_condition = NoVehicle /\ slot_occupied = NoVehicle
        /\ commRadius = NoVehicle /\ radius_flag = NoVehicle /\ packets = NoVehicle
        /\ nItems = NoVehicle /\ slot_oneHop = NoVehicle
        /\ frontV = NoVehicle /\ rearV = NoVehicle
    BY DEF Init
  <2> QED
    BY <1>1, <2>1, Zenon
<1>3. /\ slot \in 0 .. NumSlots /\ slot < NumSlots
      /\ pc = "update" /\ present = {} /\ sent = {}
      /\ cnt_pkt \in Nat /\ cnt_received \in Nat /\ cnt_coli \in Nat
      /\ wild \in BOOLEAN
  <2>1. wild \in BOOLEAN /\ pc = "update" /\ present = {} /\ sent = {}
    BY Zenon DEF Init
  <2>2. slot = 0 /\ cnt_pkt = 0 /\ cnt_received = 0 /\ cnt_coli = 0
    BY Zenon DEF Init
  <2> QED
    BY <2>1, <2>2, ConstantsOK
<1>4. TypeOK
  BY <1>2, <1>3 DEF TypeOK
<1>5. PointersValid /\ ListBelowCount /\ LoopState
  BY <1>3 DEF PointersValid, ListBelowCount, LoopState
<1> QED
  BY <1>4, <1>5 DEF IInv

LEMMA UpdateCarsIInv == IInv /\ UpdateCars => IInv'
<1> SUFFICES ASSUME IInv, UpdateCars PROVE IInv'
  OBVIOUS
<1> USE ConstantsOK, FreshOK
<1>1. PICK recorded \in SUBSET Cars :
         Load((present \cap recorded) \cup Admitted(recorded),
              Admitted(recorded), present \ recorded)
  BY DEF UpdateCars
<1> DEFINE added == Admitted(recorded)
           now   == (present \cap recorded) \cup added
           gone  == present \ recorded
<1>2. /\ added \subseteq recorded /\ added \cap present = {}
      /\ now \subseteq Cars
      /\ \A c \in now \ added : c \in present
      /\ present \subseteq now \cup gone
  BY DEF Admitted, IInv, TypeOK
<1>3. Load(now, added, gone)
  BY <1>1
<1> HIDE DEF added, now, gone
<1>4. PICK fresh \in [added -> FreshVehicles] :
         /\ role' = [c \in now |-> IF c \in added THEN fresh[c].role ELSE role[c]]
         /\ slot_condition' =
              [c \in now |-> IF c \in added THEN fresh[c].cond ELSE slot_condition[c]]
         /\ slot_occupied' =
              [c \in now |-> IF c \in added THEN fresh[c].occ ELSE slot_occupied[c]]
         /\ commRadius' = [c \in now |-> IF c \in added THEN fresh[c].radius ELSE commRadius[c]]
         /\ radius_flag' = [c \in now |-> IF c \in added THEN fresh[c].flag ELSE radius_flag[c]]
  BY <1>3 DEF Load
<1>5. \A c \in added : fresh[c] \in Vehicle
  BY <1>4
<1>6. /\ role' \in [now -> Role] /\ slot_condition' \in [now -> Condition]
      /\ slot_occupied' \in [now -> Nat] /\ commRadius' \in [now -> Nat]
      /\ radius_flag' \in [now -> BOOLEAN]
  BY <1>2, <1>4, <1>5 DEF IInv, TypeOK, Vehicle
<1>7. /\ packets' \in [now -> Seq(Packet)]
      /\ \A c \in now : Len(packets'[c]) = IF c \in added THEN 0 ELSE Len(packets[c])
      /\ \A c \in now : \A i \in 1 .. Len(packets'[c]) :
            packets'[c][i].src \in now \cup {Freed}
  <2>1. packets' = [c \in now |-> IF c \in added THEN << >> ELSE Forget(packets[c], gone)]
    BY <1>3 DEF Load
  <2>2. ASSUME NEW c \in now
        PROVE  /\ packets'[c] \in Seq(Packet)
               /\ Len(packets'[c]) = IF c \in added THEN 0 ELSE Len(packets[c])
               /\ \A i \in 1 .. Len(packets'[c]) : packets'[c][i].src \in now \cup {Freed}
    <3>1. CASE c \in added
      <4>1. packets'[c] = << >>
        BY <2>1, <3>1
      <4> QED
        BY <3>1, <4>1, EmptySeq
    <3>2. CASE c \notin added
      <4>1. packets'[c] = Forget(packets[c], gone)
        BY <2>1, <3>2
      <4>2. c \in present /\ packets[c] \in Seq(Packet)
        BY <1>2, <3>2 DEF IInv, TypeOK
      <4>3. \A i \in 1 .. Len(packets[c]) : packets[c][i].src \in present \cup {Freed}
        BY <4>2 DEF IInv, PointersValid
      <4> QED
        BY <1>2, <3>2, <4>1, <4>2, <4>3, ForgetProperties
    <3> QED
      BY <3>1, <3>2
  <2> QED
    BY <2>1, <2>2
<1>8. /\ nItems' \in [now -> Nat]
      /\ \A c \in now : Len(packets'[c]) <= nItems'[c]
  BY <1>2, <1>3, <1>7 DEF Load, IInv, TypeOK, ListBelowCount
<1>9. slot_oneHop' \in [now -> [0 .. SlotPerFrame - 1 -> Cars \cup {None}]]
  BY <1>2, <1>3 DEF Load, IInv, TypeOK
<1>10. \A c \in now : /\ frontV'[c] \in now \cup {None, Freed}
                       /\ rearV'[c] \in now \cup {None, Freed}
  BY <1>2, <1>3 DEF Load, Dangle, IInv, PointersValid
<1>11. /\ frontV' \in [now -> Cars \cup {None, Freed}]
       /\ rearV' \in [now -> Cars \cup {None, Freed}]
  BY <1>2, <1>3, <1>10 DEF Load
<1>12. present' = now /\ pos' \in [now -> Places] /\ safe' \in [now -> SafeDists]
  BY <1>3 DEF Load
<1>13. pc = "update" /\ pc' \in {"protocol", "slot"} /\ sent = {}
       /\ UNCHANGED <<slot, sent, cnt_pkt, cnt_received, cnt_coli, wild>>
  BY DEF UpdateCars, counts, IInv, LoopState
<1>14. TypeOK'
  BY <1>2, <1>6, <1>7, <1>8, <1>9, <1>11, <1>12, <1>13 DEF IInv, TypeOK
<1>15. PointersValid' /\ ListBelowCount' /\ LoopState'
  BY <1>7, <1>8, <1>10, <1>12, <1>13
  DEF PointersValid, ListBelowCount, LoopState, IInv
<1> QED
  BY <1>14, <1>15 DEF IInv

(* The radius a vehicle may compute at the start of a frame.               *)
LEMMA RadiusInNat ==
    ASSUME TypeOK, NEW c \in present, NEW front, NEW rear,
           frontV[c] # None => front \in Nat, rearV[c] # None => rear \in Nat
    PROVE  RoleRadius(c, front, rear) \in Nat
<1>1. safe[c] \in Nat /\ commRadius[c] \in Nat
  BY ConstantsOK DEF TypeOK
<1>2. \A a, b \in Nat : Max2(a, b) \in Nat
  BY DEF Max2
<1>3. CASE role[c] \in {"single", "head"}
  BY <1>1, <1>3 DEF RoleRadius
<1>4. CASE role[c] = "tail" /\ frontV[c] # None
  BY <1>4 DEF RoleRadius
<1>5. CASE role[c] = "mid" /\ None \notin {frontV[c], rearV[c]}
  BY <1>2, <1>5 DEF RoleRadius
<1>6. CASE /\ role[c] \notin {"single", "head"}
           /\ ~(role[c] = "tail" /\ frontV[c] # None)
           /\ ~(role[c] = "mid" /\ None \notin {frontV[c], rearV[c]})
  BY <1>1, <1>6, Zenon DEF RoleRadius
<1> QED
  BY <1>3, <1>4, <1>5, <1>6

LEMMA FrameStartIInv == IInv /\ FrameStart => IInv'
<1> SUFFICES ASSUME IInv, FrameStart PROVE IInv'
  OBVIOUS
<1> USE ConstantsOK
<1>1. PICK rnd \in [Redraws -> RandomSlots],
           guess \in [Unsure -> [front : BOOLEAN, dis : Garbage]] :
         LET Far(c, ptr) == IF ptr = Freed THEN guess[c].dis ELSE Distance(c, ptr)
             Sender(c)   == Head(packets[c]).src
             Ahead(c)    == IF Sender(c) = Freed THEN guess[c].front
                                                 ELSE InFront(c, Sender(c))
         IN /\ role' = [c \in present |-> IF c \in Mergers THEN MergeRole(Ahead(c)) ELSE role[c]]
            /\ slot_occupied' = [c \in present |->
                    IF c \in Redraws THEN rnd[c]
                    ELSE IF c \in Mergers THEN MergeSlot(Ahead(c)) ELSE slot_occupied[c]]
            /\ commRadius' = [c \in present |->
                    IF c \in Mergers THEN MergeRadius(c, Ahead(c), Far(c, Sender(c)))
                    ELSE IF radius_flag[c] THEN commRadius[c]
                    ELSE RoleRadius(c, Far(c, frontV[c]), Far(c, rearV[c]))]
  BY DEF FrameStart
<1> DEFINE Far(c, ptr) == IF ptr = Freed THEN guess[c].dis ELSE Distance(c, ptr)
           Sender(c)   == Head(packets[c]).src
           Ahead(c)    == IF Sender(c) = Freed THEN guess[c].front
                                               ELSE InFront(c, Sender(c))
<1>2. /\ role' = [c \in present |-> IF c \in Mergers THEN MergeRole(Ahead(c)) ELSE role[c]]
      /\ slot_occupied' = [c \in present |->
              IF c \in Redraws THEN rnd[c]
              ELSE IF c \in Mergers THEN MergeSlot(Ahead(c)) ELSE slot_occupied[c]]
      /\ commRadius' = [c \in present |->
              IF c \in Mergers THEN MergeRadius(c, Ahead(c), Far(c, Sender(c)))
              ELSE IF radius_flag[c] THEN commRadius[c]
              ELSE RoleRadius(c, Far(c, frontV[c]), Far(c, rearV[c]))]
  BY <1>1
<1>3. /\ slot_condition' = [c \in present |-> IF c \in Redraws THEN 1 ELSE slot_condition[c]]
      /\ radius_flag' = [c \in present |-> FALSE]
      /\ nItems' = [c \in present |-> CountAfterClear(c)]
      /\ packets' = [c \in present |-> << >>]
      /\ frontV' = [c \in present |-> None]
      /\ rearV' = [c \in present |-> None]
      /\ pc = "protocol" /\ pc' = "slot"
      /\ UNCHANGED <<slot, sent, present, pos, safe, slot_oneHop, cnt_pkt, cnt_received,
                     cnt_coli, wild>>
  BY DEF FrameStart, table, counts
<1>4. role' \in [present -> Role] /\ slot_condition' \in [present -> Condition]
  BY <1>2, <1>3 DEF IInv, TypeOK, MergeRole, Role, Condition
<1>5. slot_occupied' \in [present -> Nat]
  <2>1. \A c \in Redraws : rnd[c] \in Nat
    BY DEF RandomSlots
  <2>2. \A ahead : MergeSlot(ahead) \in Nat
    BY DEF MergeSlot
  <2> QED
    BY <1>2, <2>1, <2>2 DEF IInv, TypeOK
<1>6. commRadius' \in [present -> Nat]
  <2> SUFFICES ASSUME NEW c \in present
               PROVE  commRadius'[c] \in Nat
    BY <1>2
  <2>1. commRadius'[c] = IF c \in Mergers THEN MergeRadius(c, Ahead(c), Far(c, Sender(c)))
              ELSE IF radius_flag[c] THEN commRadius[c]
              ELSE RoleRadius(c, Far(c, frontV[c]), Far(c, rearV[c]))
    BY <1>2
  <2>2. commRadius[c] \in Nat
    BY DEF IInv, TypeOK
  <2>3. CASE c \in Mergers
    <3>1. Sender(c) \in present \cup {Freed}
      <4>1. packets[c] \in Seq(Packet) /\ packets[c] # << >>
        BY <2>3 DEF IInv, TypeOK, Mergers
      <4>2. Len(packets[c]) \in Nat \ {0}
        BY <4>1, EmptySeq
      <4>3. Head(packets[c]) = packets[c][1]
        BY <4>1, <4>2
      <4> QED
        BY <4>2, <4>3 DEF IInv, PointersValid
    <3>2. Sender(c) = Freed => guess[c].dis \in Nat /\ guess[c].front \in BOOLEAN
      BY <2>3 DEF Unsure
    <3>3. Far(c, Sender(c)) \in Nat /\ Ahead(c) \in BOOLEAN
      <4>1. CASE Sender(c) = Freed
        BY <3>2, <4>1
      <4>2. CASE Sender(c) # Freed
        <5>1. Sender(c) \in present
          BY <3>1, <4>2
        <5>2. Distance(c, Sender(c)) \in Nat
          BY <5>1, DistanceInNat DEF IInv
        <5> QED
          BY <4>2, <5>2 DEF InFront
      <4> QED
        BY <4>1, <4>2
    <3>4. safe[c] \in Nat
      BY DEF IInv, TypeOK
    <3> HIDE DEF Far, Ahead, Sender
    <3> QED
      BY <2>1, <2>3, <3>3, <3>4 DEF MergeRadius, Max2
  <2>4. CASE c \notin Mergers /\ ~radius_flag[c]
    <3>1. CASE role[c] \in {"tail", "mid"}
      <4>1. c \in InPlatoon
        BY <3>1 DEF InPlatoon
      <4>2. Freed \in {frontV[c], rearV[c]} => guess[c].dis \in Nat
        BY <4>1 DEF Unsure
      <4>3. /\ frontV[c] # None => Far(c, frontV[c]) \in Nat
            /\ rearV[c] # None => Far(c, rearV[c]) \in Nat
        BY <4>2, DistanceInNat DEF IInv, PointersValid
      <4> HIDE DEF Far
      <4>4. RoleRadius(c, Far(c, frontV[c]), Far(c, rearV[c])) \in Nat
        BY <4>3, RadiusInNat DEF IInv
      <4> QED
        BY <2>1, <2>4, <4>4
    <3>2. CASE role[c] \in {"single", "head"}
      <4>1. safe[c] \in Nat
        BY DEF IInv, TypeOK
      <4> HIDE DEF Far
      <4> QED
        BY <2>1, <2>4, <3>2, <4>1 DEF RoleRadius
    <3>3. CASE role[c] = "other"
      <4> HIDE DEF Far
      <4>1. RoleRadius(c, Far(c, frontV[c]), Far(c, rearV[c])) = commRadius[c]
        BY <3>3 DEF RoleRadius
      <4> QED
        BY <2>1, <2>2, <2>4, <4>1
    <3> QED
      BY <3>1, <3>2, <3>3 DEF IInv, TypeOK, Role
  <2> QED
    BY <2>1, <2>2, <2>3, <2>4
<1>7. /\ packets' \in [present -> Seq(Packet)]
      /\ \A c \in present : Len(packets'[c]) = 0
  BY <1>3, EmptySeq
<1>8. nItems' \in [present -> Nat]
  <2>1. \A c \in present : Len(packets[c]) \in Nat
    BY LenProperties DEF IInv, TypeOK
  <2>2. \A c \in present : CountAfterClear(c) \in Nat
    BY <2>1 DEF CountAfterClear, IInv, TypeOK, ListBelowCount
  <2> QED
    BY <1>3, <2>2
<1>9. TypeOK'
  BY <1>3, <1>4, <1>5, <1>6, <1>7, <1>8 DEF IInv, TypeOK
<1>10. PointersValid' /\ ListBelowCount' /\ LoopState'
  BY <1>3, <1>7, <1>8 DEF PointersValid, ListBelowCount, LoopState, IInv
<1> QED
  BY <1>9, <1>10 DEF IInv

LEMMA InRangeFinite ==
    ASSUME IInv, NEW a \in present, NEW S \in SUBSET InRange(a)
    PROVE  Cardinality(S) \in Nat
<1>1. S \subseteq Cars
  BY DEF InRange, Neighbours, IInv, TypeOK
<1> QED
  BY <1>1, ConstantsOK, FS_Subset, FS_CardinalityType

LEMMA TransmitIInv == ASSUME IInv, NEW a \in present, Transmit(a) PROVE IInv'
<1> DEFINE blocked == {b \in InRange(a) : slot_occupied[b] = slot_occupied[a]}
           reached == InRange(a) \ blocked
<1>1. /\ pc = "slot" /\ a \in Transmitters \ sent
      /\ packets' = [b \in present |->
             IF b \in reached THEN Append(packets[b], [slot |-> slot, src |-> a])
                              ELSE packets[b]]
      /\ nItems' = [b \in present |-> IF b \in reached THEN nItems[b] + 1 ELSE nItems[b]]
      /\ cnt_pkt' = cnt_pkt + Cardinality(reached)
      /\ cnt_coli' = cnt_coli + Cardinality(blocked)
      /\ sent' = sent \cup {a}
      /\ UNCHANGED <<slot, pc, present, pos, safe, role, slot_condition, slot_occupied,
                     commRadius, radius_flag, slot_oneHop, frontV, rearV, cnt_received, wild>>
  BY DEF Transmit, table, mac
<1>2. Cardinality(reached) \in Nat /\ Cardinality(blocked) \in Nat
  BY InRangeFinite
<1> HIDE DEF reached, blocked
<1>3. [slot |-> slot, src |-> a] \in Packet
  BY DEF IInv, TypeOK, Packet
<1>4. ASSUME NEW b \in present
      PROVE  /\ packets'[b] \in Seq(Packet)
             /\ Len(packets'[b]) = IF b \in reached THEN Len(packets[b]) + 1 ELSE Len(packets[b])
             /\ \A i \in 1 .. Len(packets'[b]) : packets'[b][i].src \in present \cup {Freed}
  <2>1. packets[b] \in Seq(Packet) /\ Len(packets[b]) \in Nat
    BY LenProperties DEF IInv, TypeOK
  <2>2. \A i \in 1 .. Len(packets[b]) : packets[b][i].src \in present \cup {Freed}
    BY DEF IInv, PointersValid
  <2>3. CASE b \in reached
    <3> DEFINE new == Append(packets[b], [slot |-> slot, src |-> a])
    <3>1. packets'[b] = new
      BY <1>1, <2>3
    <3>2. /\ new \in Seq(Packet) /\ Len(new) = Len(packets[b]) + 1
          /\ \A i \in 1 .. Len(packets[b]) : new[i] = packets[b][i]
          /\ new[Len(packets[b]) + 1] = [slot |-> slot, src |-> a]
      BY <1>3, <2>1, AppendProperties
    <3> HIDE DEF new
    <3>3. \A i \in 1 .. Len(new) : new[i].src \in present \cup {Freed}
      BY <2>1, <2>2, <3>2
    <3> QED
      BY <2>3, <3>1, <3>2, <3>3
  <2>4. CASE b \notin reached
    BY <1>1, <2>1, <2>2, <2>4
  <2> QED
    BY <2>3, <2>4
<1>5. /\ nItems' \in [present -> Nat]
      /\ \A b \in present : Len(packets'[b]) <= nItems'[b]
  <2>1. \A b \in present : Len(packets[b]) \in Nat
    BY LenProperties DEF IInv, TypeOK
  <2> QED
    BY <1>1, <1>4, <2>1 DEF IInv, TypeOK, ListBelowCount
<1>6. packets' \in [present -> Seq(Packet)]
  BY <1>1, <1>4
<1>7. TypeOK'
  BY <1>1, <1>2, <1>5, <1>6 DEF IInv, TypeOK
<1>8. PointersValid' /\ ListBelowCount' /\ LoopState'
  BY <1>1, <1>4, <1>5 DEF IInv, PointersValid, ListBelowCount, LoopState
<1> QED
  BY <1>7, <1>8 DEF IInv

-----------------------------------------------------------------------------
(* What the lists of packets look like.                                    *)

(* A list is in the order of the slots, none of them in the future.        *)
SlotOrder ==
    \A c \in present : \A i \in 1 .. Len(packets[c]) :
        /\ packets[c][i].slot <= slot
        /\ \A j \in i .. Len(packets[c]) : packets[c][i].slot <= packets[c][j].slot

(* Outside a slot's transmissions, or at a vehicle that transmits itself,  *)
(* no packet is of the current slot.                                       *)
EarlierPackets ==
    \A c \in present : pc # "slot" \/ slot_occupied[c] = slot =>
        \A i \in 1 .. Len(packets[c]) : packets[c][i].slot < slot

(* The sender of a packet of the current slot still exists.                *)
FreedEarlier ==
    \A c \in present : \A i \in 1 .. Len(packets[c]) :
        packets[c][i].src = Freed => packets[c][i].slot < slot

ListInv == SlotOrder /\ EarlierPackets /\ FreedEarlier /\ UndeliveredCollided

(* A vehicle that received has one packet of this slot: the last one.      *)
LEMMA ReceivedLast ==
    ASSUME IInv, ListInv, NEW c \in Received
    PROVE  /\ c \in present
           /\ packets[c] \in Seq(Packet) /\ Len(packets[c]) \in Nat \ {0}
           /\ Now(c) = {Len(packets[c])}
           /\ PickedPacket(c).slot = slot
           /\ PickedPacket(c).src \in present
<1>1. c \in present /\ Cardinality(Now(c)) = 1
  BY DEF Received, Listeners
<1>2. packets[c] \in Seq(Packet) /\ Len(packets[c]) \in Nat
  BY <1>1, LenProperties DEF IInv, TypeOK
<1>3. IsFiniteSet(Now(c))
  <2>1. Now(c) \in SUBSET (1 .. Len(packets[c]))
    BY DEF Now
  <2>2. IsFiniteSet(1 .. Len(packets[c]))
    BY <1>2, FS_Interval
  <2> QED
    BY <2>1, <2>2, FS_Subset
<1>4. PICK k : Now(c) = {k}
  BY <1>1, <1>3, FS_Singleton
<1>5. k \in 1 .. Len(packets[c]) /\ packets[c][k].slot = slot
  BY <1>4 DEF Now
<1> DEFINE n == Len(packets[c])
<1>6. n \in 1 .. n /\ n \in k .. n
  BY <1>2, <1>5
<1>7. packets[c][n].slot = slot
  <2>1. packets[c][n].slot <= slot /\ slot <= packets[c][n].slot
    BY <1>1, <1>5, <1>6 DEF ListInv, SlotOrder
  <2>2. packets[c][n] \in Packet
    BY <1>2, <1>6, ElementOfSeq
  <2>3. packets[c][n].slot \in Nat /\ slot \in Nat
    BY <2>2, ConstantsOK DEF Packet, IInv, TypeOK
  <2> QED
    BY <2>1, <2>3
<1>8. n \in Now(c)
  BY <1>6, <1>7 DEF Now
<1>9. packets[c][n].src \in present
  <2>1. packets[c][n].src \in present \cup {Freed}
    BY <1>1, <1>6 DEF IInv, PointersValid
  <2>2. packets[c][n].src # Freed
    <3>1. slot \in Nat /\ ~(slot < slot)
      BY ConstantsOK DEF IInv, TypeOK
    <3> QED
      BY <1>1, <1>6, <1>7, <3>1 DEF ListInv, FreedEarlier
  <2> QED
    BY <2>1, <2>2
<1> QED
  BY <1>1, <1>2, <1>4, <1>6, <1>7, <1>8, <1>9 DEF PickedPacket, PickedPlace

(* The packet taken off the list is its last one.                          *)
LEMMA PickTailFront ==
    ASSUME IInv, ListInv, NEW c \in Received
    PROVE  PickTail(c) = SubSeq(packets[c], 1, Len(packets[c]) - 1)
<1> DEFINE n == Len(packets[c])
           front == SubSeq(packets[c], 1, n - 1)
<1>1. packets[c] \in Seq(Packet) /\ n \in Nat \ {0}
  BY ReceivedLast
<1>2. front \in Seq(Packet)
  BY <1>1, FrontProperties
<1>3. SubSeq(packets[c], n + 1, n) = << >>
  BY <1>1, SubSeqEmpty
<1>4. PickTail(c) = front \o SubSeq(packets[c], n + 1, n)
  BY DEF PickTail, PickedPlace, RemoveAt
<1> HIDE DEF front, n
<1>5. front \o << >> = front
  BY <1>2, ConcatEmptySeq
<1> QED
  BY <1>3, <1>4, <1>5 DEF front, n

(* A vehicle writes the entry of the current slot: the counter is the slot *)
(* of the packet that it has taken.                                        *)
LEMMA EntryOfSlot ==
    ASSUME IInv, ListInv, NEW c \in Silent \cup Received
    PROVE  EntryOf(c) = slot
BY ReceivedLast DEF EntryOf

(* So handle_receiver writes the entry of the current slot at every vehicle. *)
LEMMA ReceiveWrites ==
    ASSUME IInv, ListInv, Receive
    PROVE  /\ slot_oneHop' = [c \in present |->
                  IF slot >= SlotPerFrame THEN slot_oneHop[c]
                  ELSE [slot_oneHop[c] EXCEPT ![slot] =
                          IF c \in Silent THEN None
                          ELSE IF c \in Received THEN PickedPacket(c).src ELSE @]]
           /\ wild' = (wild \/ (slot >= SlotPerFrame /\ Silent \cup Received # {}))
<1>1. /\ slot_oneHop' = [c \in present |->
             IF c \in Silent \cup Received /\ EntryOf(c) < SlotPerFrame
             THEN [slot_oneHop[c] EXCEPT ![EntryOf(c)] =
                      IF c \in Silent THEN None ELSE PickedPacket(c).src]
             ELSE slot_oneHop[c]]
      /\ wild' = (wild \/ \E c \in Silent \cup Received : EntryOf(c) >= SlotPerFrame)
  BY DEF Receive, table
<1>2. slot \in Nat /\ SlotPerFrame \in Nat
  BY ConstantsOK DEF IInv, TypeOK
<1>3. ASSUME NEW c \in present
      PROVE  slot_oneHop'[c] = IF slot >= SlotPerFrame THEN slot_oneHop[c]
                               ELSE [slot_oneHop[c] EXCEPT ![slot] =
                                       IF c \in Silent THEN None
                                       ELSE IF c \in Received THEN PickedPacket(c).src ELSE @]
  <2>1. slot_oneHop[c] \in [0 .. SlotPerFrame - 1 -> Cars \cup {None}]
    BY DEF IInv, TypeOK
  <2>2. CASE c \in Silent \cup Received
    BY <1>1, <1>2, <2>2, EntryOfSlot
  <2>3. CASE c \notin Silent \cup Received
    <3>1. slot_oneHop'[c] = slot_oneHop[c]
      BY <1>1, <2>3
    <3>2. slot_oneHop[c] = [slot_oneHop[c] EXCEPT ![slot] = slot_oneHop[c][slot]]
      BY <2>1
    <3> QED
      BY <2>3, <3>1, <3>2
  <2> QED
    BY <2>2, <2>3
<1>4. (\E c \in Silent \cup Received : EntryOf(c) >= SlotPerFrame)
         <=> slot >= SlotPerFrame /\ Silent \cup Received # {}
  BY EntryOfSlot
<1> QED
  BY <1>1, <1>3, <1>4

(* The packets handle_receiver logs in one slot are finitely many.         *)
LEMMA LoggedFinite ==
    ASSUME IInv
    PROVE  Cardinality(UNION {Logged(c) \X {c} : c \in Collided}) \in Nat
<1> DEFINE f == [c \in Collided |-> Logged(c) \X {c}]
           T == {Logged(c) \X {c} : c \in Collided}
<1>1. IsFiniteSet(Collided)
  <2>1. Collided \in SUBSET Cars
    BY DEF Collided, Listeners, IInv, TypeOK
  <2> QED
    BY <2>1, ConstantsOK, FS_Subset
<1>2. IsFiniteSet(T)
  <2>1. f \in [Collided -> T]
    OBVIOUS
  <2>2. \A t \in T : \E c \in Collided : f[c] = t
    OBVIOUS
  <2>3. f \in Surjection(Collided, T)
    BY <2>1, <2>2 DEF Surjection
  <2> HIDE DEF f, T
  <2> QED
    BY <1>1, <2>3, FS_Surjection
<1>3. \A t \in T : IsFiniteSet(t)
  <2> SUFFICES ASSUME NEW c \in Collided PROVE IsFiniteSet(Logged(c) \X {c})
    OBVIOUS
  <2>1. Len(packets[c]) \in Nat
    BY LenProperties DEF Collided, Listeners, IInv, TypeOK
  <2>2. Logged(c) \in SUBSET (1 .. Len(packets[c]))
    BY DEF Logged, Now
  <2>3. IsFiniteSet(1 .. Len(packets[c]))
    BY <2>1, FS_Interval
  <2>4. IsFiniteSet(Logged(c)) /\ IsFiniteSet({c})
    BY <2>2, <2>3, FS_Subset, FS_Singleton
  <2> QED
    BY <2>4, FS_Product
<1>4. IsFiniteSet(UNION T)
  <2> HIDE DEF T
  <2> QED
    BY <1>2, <1>3, FS_UNION
<1> QED
  BY <1>4, FS_CardinalityType

LEMMA ReceiveIInv == IInv /\ ListInv /\ Receive => IInv'
<1> SUFFICES ASSUME IInv, ListInv, Receive PROVE IInv'
  OBVIOUS
<1> USE ConstantsOK
<1>1. /\ pc = "slot"
      /\ slot_oneHop' = [c \in present |->
             IF slot >= SlotPerFrame THEN slot_oneHop[c]
             ELSE [slot_oneHop[c] EXCEPT ![slot] =
                     IF c \in Silent THEN None
                     ELSE IF c \in Received THEN PickedPacket(c).src ELSE @]]
      /\ wild' = (wild \/ (slot >= SlotPerFrame /\ Silent \cup Received # {}))
      /\ packets' = [c \in present |-> IF c \in Received THEN PickTail(c) ELSE packets[c]]
      /\ nItems' = [c \in present |-> IF c \in Received THEN nItems[c] - 1 ELSE nItems[c]]
      /\ cnt_received' = cnt_received + Cardinality(Received)
      /\ cnt_coli' = cnt_coli + Cardinality(UNION {Logged(c) \X {c} : c \in Collided})
      /\ slot' = slot + 1
      /\ pc' = IF wild' THEN "done" ELSE PhaseAt(slot + 1)
      /\ sent' = {}
      /\ UNCHANGED <<present, pos, safe, role, slot_condition, slot_occupied,
                     commRadius, radius_flag, cnt_pkt>>
  BY ReceiveWrites DEF Receive, table, mac
<1>2. PICK ahead \in [Received -> BOOLEAN], nearer \in [Received -> BOOLEAN] :
         /\ frontV' = [c \in present |->
                IF c \in Received /\ ahead[c]
                THEN Nearest(c, frontV[c], PickedPacket(c).src, nearer[c]) ELSE frontV[c]]
         /\ rearV' = [c \in present |->
                IF c \in Received /\ ~ahead[c]
                THEN Nearest(c, rearV[c], PickedPacket(c).src, nearer[c]) ELSE rearV[c]]
  BY DEF Receive
<1>3. slot \in 0 .. NumSlots - 1 /\ slot' \in 0 .. NumSlots
  BY <1>1 DEF IInv, TypeOK, LoopState
<1>4. /\ pc' \in {"update", "protocol", "slot", "done"}
      /\ pc' # "done" => slot' < NumSlots
  <2>1. slot + 1 \in 0 .. NumSlots
    BY <1>1, <1>3
  <2>2. PhaseAt(slot + 1) \in {"update", "protocol", "slot", "done"}
        /\ (PhaseAt(slot + 1) # "done" => slot + 1 # NumSlots)
    BY DEF PhaseAt
  <2>3. slot' = slot + 1 /\ (pc' = "done" \/ pc' = PhaseAt(slot + 1))
    BY <1>1, Zenon
  <2> QED
    BY <2>1, <2>2, <2>3
<1>5. Cardinality(Received) \in Nat
  <2>1. Received \in SUBSET Cars
    BY DEF Received, Listeners, IInv, TypeOK
  <2> QED
    BY <2>1, FS_Subset, FS_CardinalityType
<1>6. cnt_received' \in Nat /\ cnt_coli' \in Nat /\ cnt_pkt' \in Nat
  <2>1. /\ cnt_received' = cnt_received + Cardinality(Received)
        /\ cnt_coli' = cnt_coli + Cardinality(UNION {Logged(c) \X {c} : c \in Collided})
        /\ cnt_pkt' = cnt_pkt
        /\ cnt_received \in Nat /\ cnt_coli \in Nat /\ cnt_pkt \in Nat
    BY <1>1, Zenon DEF IInv, TypeOK
  <2>2. Cardinality(UNION {Logged(c) \X {c} : c \in Collided}) \in Nat
    BY LoggedFinite, Zenon
  <2> QED
    BY <1>5, <2>1, <2>2
<1>7. ASSUME NEW c \in present
      PROVE  /\ packets'[c] \in Seq(Packet)
             /\ nItems'[c] \in Nat
             /\ Len(packets'[c]) <= nItems'[c]
             /\ \A i \in 1 .. Len(packets'[c]) : packets'[c][i].src \in present \cup {Freed}
  <2>1. /\ packets[c] \in Seq(Packet) /\ Len(packets[c]) \in Nat
        /\ nItems[c] \in Nat /\ Len(packets[c]) <= nItems[c]
        /\ \A i \in 1 .. Len(packets[c]) : packets[c][i].src \in present \cup {Freed}
    BY LenProperties DEF IInv, TypeOK, ListBelowCount, PointersValid
  <2>2. CASE c \in Received
    <3>1. Len(packets[c]) \in Nat \ {0}
      BY <2>2, ReceivedLast
    <3>2. /\ PickTail(c) \in Seq(Packet)
          /\ Len(PickTail(c)) = Len(packets[c]) - 1
          /\ \A i \in 1 .. Len(packets[c]) - 1 : PickTail(c)[i] = packets[c][i]
      <4>1. PickTail(c) = SubSeq(packets[c], 1, Len(packets[c]) - 1)
        BY <2>2, PickTailFront
      <4> QED
        BY <2>1, <3>1, <4>1, FrontProperties
    <3>3. packets'[c] = PickTail(c) /\ nItems'[c] = nItems[c] - 1
      BY <1>1, <2>2
    <3>4. /\ packets'[c] \in Seq(Packet)
          /\ Len(packets'[c]) = Len(packets[c]) - 1
      BY <3>2, <3>3, Zenon
    <3>5. nItems'[c] \in Nat /\ Len(packets'[c]) <= nItems'[c]
      <4>1. /\ nItems'[c] = nItems[c] - 1
            /\ Len(packets'[c]) = Len(packets[c]) - 1
        BY <3>3, <3>4, Zenon
      <4> QED
        BY <2>1, <3>1, <4>1
    <3>6. ASSUME NEW i \in 1 .. Len(packets'[c])
          PROVE  packets'[c][i].src \in present \cup {Freed}
      <4>1. i \in 1 .. Len(packets[c]) - 1 /\ i \in 1 .. Len(packets[c])
        BY <3>1, <3>4
      <4>2. packets'[c][i] = packets[c][i]
        BY <3>2, <3>3, <4>1, Zenon
      <4> QED
        BY <2>1, <4>1, <4>2, Zenon
    <3> QED
      BY <3>4, <3>5, <3>6
  <2>3. CASE c \notin Received
    <3>1. packets'[c] = packets[c] /\ nItems'[c] = nItems[c]
      BY <1>1, <2>3
    <3> QED
      BY <2>1, <3>1
  <2> QED
    BY <2>2, <2>3
<1>8. packets' \in [present -> Seq(Packet)] /\ nItems' \in [present -> Nat]
  BY <1>1, <1>7
<1>9. ASSUME NEW c \in present
      PROVE  /\ frontV'[c] \in present \cup {None, Freed}
             /\ rearV'[c] \in present \cup {None, Freed}
             /\ slot_oneHop'[c] \in [0 .. SlotPerFrame - 1 -> Cars \cup {None}]
  <2>1. /\ frontV[c] \in present \cup {None, Freed}
        /\ rearV[c] \in present \cup {None, Freed}
        /\ slot_oneHop[c] \in [0 .. SlotPerFrame - 1 -> Cars \cup {None}]
    BY DEF IInv, TypeOK, PointersValid
  <2>2. c \in Received => PickedPacket(c).src \in present
    BY ReceivedLast
  <2>3. \A old, new, guess : Nearest(c, old, new, guess) \in {old, new}
    BY DEF Nearest
  <2>4. /\ frontV'[c] = IF c \in Received /\ ahead[c]
                        THEN Nearest(c, frontV[c], PickedPacket(c).src, nearer[c]) ELSE frontV[c]
        /\ rearV'[c] = IF c \in Received /\ ~ahead[c]
                       THEN Nearest(c, rearV[c], PickedPacket(c).src, nearer[c]) ELSE rearV[c]
    BY <1>2
  <2>5. slot_oneHop'[c] \in [0 .. SlotPerFrame - 1 -> Cars \cup {None}]
    <3>1. present \subseteq Cars
      BY DEF IInv, TypeOK
    <3> QED
      BY <1>1, <2>1, <2>2, <3>1
  <2> QED
    BY <2>1, <2>2, <2>3, <2>4, <2>5
<1>10. /\ frontV' \in [present -> Cars \cup {None, Freed}]
       /\ rearV' \in [present -> Cars \cup {None, Freed}]
       /\ slot_oneHop' \in [present -> [0 .. SlotPerFrame - 1 -> Cars \cup {None}]]
  BY <1>1, <1>2, <1>9 DEF IInv, TypeOK
<1>11. wild' \in BOOLEAN
  BY <1>1, Zenon DEF IInv, TypeOK
<1>12. TypeOK'
  BY <1>1, <1>3, <1>4, <1>6, <1>8, <1>10, <1>11 DEF IInv, TypeOK
<1>13. PointersValid' /\ ListBelowCount' /\ LoopState'
  BY <1>1, <1>4, <1>7, <1>9 DEF PointersValid, ListBelowCount, LoopState
<1> QED
  BY <1>12, <1>13 DEF IInv

LEMMA PacketSlots ==
    ASSUME IInv, NEW c \in present
    PROVE  /\ Len(packets[c]) \in Nat
           /\ \A i \in 1 .. Len(packets[c]) : packets[c][i].slot \in Nat
           /\ slot \in Nat
<1>1. packets[c] \in Seq(Packet)
  BY DEF IInv, TypeOK
<1>2. \A i \in 1 .. Len(packets[c]) : packets[c][i] \in Packet
  BY <1>1, ElementOfSeq
<1> QED
  BY <1>1, <1>2, LenProperties, ConstantsOK DEF Packet, IInv, TypeOK

(* An update of the vehicles keeps a list's length and every slot in it.   *)
LEMMA UpdateCarsPackets ==
    ASSUME IInv, UpdateCars, NEW c \in present'
    PROVE  \/ packets'[c] = << >>
           \/ /\ c \in present /\ Len(packets'[c]) = Len(packets[c])
              /\ \A i \in 1 .. Len(packets[c]) : packets'[c][i].slot = packets[c][i].slot
<1>1. PICK recorded \in SUBSET Cars :
         Load((present \cap recorded) \cup Admitted(recorded),
              Admitted(recorded), present \ recorded)
  BY DEF UpdateCars
<1>2. packets'[c] = IF c \in Admitted(recorded) THEN << >>
                    ELSE Forget(packets[c], present \ recorded)
  BY <1>1 DEF Load
<1>3. CASE c \in Admitted(recorded)
  BY <1>2, <1>3
<1>4. CASE c \notin Admitted(recorded)
  <2>1. c \in present
    BY <1>1, <1>4 DEF Load
  <2>2. packets[c] \in Seq(Packet)
    BY <2>1 DEF IInv, TypeOK
  <2> QED
    BY <1>2, <1>4, <2>1, <2>2, ForgetProperties
<1> QED
  BY <1>3, <1>4

(* An update of the vehicles is between two slots.                         *)
LEMMA UpdateCarsListInv == IInv /\ ListInv /\ UpdateCars => ListInv'
<1> SUFFICES ASSUME IInv, ListInv, UpdateCars PROVE ListInv'
  OBVIOUS
<1>2. pc = "update" /\ slot' = slot
  BY DEF UpdateCars
<1>3. ASSUME NEW c \in present'
      PROVE  \/ packets'[c] = << >>
             \/ /\ c \in present /\ Len(packets'[c]) = Len(packets[c])
                /\ \A i \in 1 .. Len(packets[c]) : packets'[c][i].slot = packets[c][i].slot
  BY UpdateCarsPackets
<1>4. ASSUME NEW c \in present', NEW i \in 1 .. Len(packets'[c])
      PROVE  /\ packets'[c][i].slot < slot
             /\ \A j \in i .. Len(packets'[c]) : packets'[c][i].slot <= packets'[c][j].slot
             /\ \E j \in 1 .. Len(packets'[c]) :
                   j # i /\ packets'[c][j].slot = packets'[c][i].slot
  <2>1. /\ c \in present /\ Len(packets'[c]) = Len(packets[c])
        /\ \A k \in 1 .. Len(packets[c]) : packets'[c][k].slot = packets[c][k].slot
    BY <1>3, EmptySeq
  <2>2. /\ i \in 1 .. Len(packets[c]) /\ Len(packets[c]) \in Nat
        /\ \A j \in i .. Len(packets[c]) : j \in 1 .. Len(packets[c])
    BY <2>1, PacketSlots
  <2>3. packets[c][i].slot < slot
    BY <1>2, <2>1, <2>2 DEF ListInv, EarlierPackets
  <2>4. \A j \in i .. Len(packets[c]) : packets[c][i].slot <= packets[c][j].slot
    BY <2>1, <2>2 DEF ListInv, SlotOrder
  <2>5. \E j \in 1 .. Len(packets[c]) : j # i /\ packets[c][j].slot = packets[c][i].slot
    BY <2>1, <2>2, <2>3 DEF ListInv, UndeliveredCollided
  <2> QED
    BY <2>1, <2>2, <2>3, <2>4, <2>5
<1>5. \A c \in present' : \A i \in 1 .. Len(packets'[c]) : packets'[c][i].slot \in Nat
  BY <1>3, PacketSlots, EmptySeq
<1>6. SlotOrder'
  <2>1. slot \in Nat
    BY ConstantsOK DEF IInv, TypeOK
  <2> QED
    BY <1>2, <1>4, <1>5, <2>1 DEF SlotOrder
<1>7. EarlierPackets' /\ FreedEarlier' /\ UndeliveredCollided'
  BY <1>2, <1>4 DEF EarlierPackets, FreedEarlier, UndeliveredCollided
<1> QED
  BY <1>6, <1>7 DEF ListInv

LEMMA FrameStartListInv == FrameStart => ListInv'
<1> SUFFICES ASSUME FrameStart PROVE ListInv'
  OBVIOUS
<1>1. packets' = [c \in present |-> << >>] /\ present' = present
  BY DEF FrameStart, table
<1>2. \A c \in present' : Len(packets'[c]) = 0
  BY <1>1, EmptySeq
<1> QED
  BY <1>2 DEF ListInv, SlotOrder, EarlierPackets, FreedEarlier, UndeliveredCollided

(* A transmission appends one packet of the current slot, to vehicles that *)
(* do not transmit themselves.                                             *)
LEMMA TransmitListInv ==
    ASSUME IInv, ListInv, NEW a \in present, Transmit(a) PROVE ListInv'
<1> DEFINE reached == InRange(a) \ {b \in InRange(a) : slot_occupied[b] = slot_occupied[a]}
           new == [slot |-> slot, src |-> a]
<1>1. /\ pc = "slot" /\ slot_occupied[a] = slot
      /\ packets' = [b \in present |-> IF b \in reached THEN Append(packets[b], new)
                                                         ELSE packets[b]]
      /\ slot' = slot /\ pc' = pc /\ present' = present /\ slot_occupied' = slot_occupied
  BY DEF Transmit, Transmitters, table, mac
<1>2. ASSUME NEW c \in present
      PROVE  \/ packets'[c] = packets[c]
             \/ /\ slot_occupied[c] # slot
                /\ Len(packets'[c]) = Len(packets[c]) + 1
                /\ \A i \in 1 .. Len(packets[c]) : packets'[c][i] = packets[c][i]
                /\ packets'[c][Len(packets[c]) + 1] = new
  <2>1. CASE c \in reached
    <3>1. packets[c] \in Seq(Packet) /\ new \in Packet
      <4>1. packets[c] \in Seq(Packet)
        BY DEF IInv, TypeOK
      <4>2. slot \in Nat /\ a \in Cars
        BY ConstantsOK DEF IInv, TypeOK
      <4> QED
        BY <4>1, <4>2 DEF Packet
    <3>2. packets'[c] = Append(packets[c], new)
      BY <1>1, <2>1
    <3>3. slot_occupied[c] # slot
      BY <1>1, <2>1
    <3> HIDE DEF new
    <3>4. /\ Len(Append(packets[c], new)) = Len(packets[c]) + 1
          /\ \A i \in 1 .. Len(packets[c]) : Append(packets[c], new)[i] = packets[c][i]
          /\ Append(packets[c], new)[Len(packets[c]) + 1] = new
      BY <3>1, AppendProperties
    <3> QED
      BY <3>2, <3>3, <3>4
  <2>2. CASE c \notin reached
    BY <1>1, <2>2
  <2> QED
    BY <2>1, <2>2
<1>3. new.slot = slot /\ new.src = a /\ a # Freed
  BY ConstantsOK DEF IInv, TypeOK
<1> HIDE DEF reached, new
<1>4. ASSUME NEW c \in present
      PROVE  /\ \A i \in 1 .. Len(packets'[c]) :
                   /\ packets'[c][i].slot <= slot
                   /\ \A j \in i .. Len(packets'[c]) : packets'[c][i].slot <= packets'[c][j].slot
             /\ slot_occupied[c] = slot =>
                   \A i \in 1 .. Len(packets'[c]) : packets'[c][i].slot < slot
             /\ \A i \in 1 .. Len(packets'[c]) :
                   packets'[c][i].src = Freed => packets'[c][i].slot < slot
             /\ \A i \in 1 .. Len(packets'[c]) : packets'[c][i].slot < slot =>
                   \E j \in 1 .. Len(packets'[c]) :
                      j # i /\ packets'[c][j].slot = packets'[c][i].slot
  <2>1. /\ Len(packets[c]) \in Nat /\ slot \in Nat
        /\ \A i \in 1 .. Len(packets[c]) : packets[c][i].slot \in Nat
    BY PacketSlots
  <2>2. \A i \in 1 .. Len(packets[c]) :
           /\ packets[c][i].slot <= slot
           /\ \A j \in i .. Len(packets[c]) : packets[c][i].slot <= packets[c][j].slot
    BY DEF ListInv, SlotOrder
  <2>3. slot_occupied[c] = slot =>
           \A i \in 1 .. Len(packets[c]) : packets[c][i].slot < slot
    BY DEF ListInv, EarlierPackets
  <2>4. \A i \in 1 .. Len(packets[c]) : packets[c][i].src = Freed => packets[c][i].slot < slot
    BY DEF ListInv, FreedEarlier
  <2>5. \A i \in 1 .. Len(packets[c]) : packets[c][i].slot < slot =>
           \E j \in 1 .. Len(packets[c]) : j # i /\ packets[c][j].slot = packets[c][i].slot
    BY DEF ListInv, UndeliveredCollided
  <2>6. CASE packets'[c] = packets[c]
    BY <2>2, <2>3, <2>4, <2>5, <2>6
  <2>7. CASE /\ slot_occupied[c] # slot
             /\ Len(packets'[c]) = Len(packets[c]) + 1
             /\ \A i \in 1 .. Len(packets[c]) : packets'[c][i] = packets[c][i]
             /\ packets'[c][Len(packets[c]) + 1] = new
    <3>1. \A i \in 1 .. Len(packets'[c]) :
             /\ packets'[c][i].slot <= slot
             /\ \A j \in i .. Len(packets'[c]) : packets'[c][i].slot <= packets'[c][j].slot
      <4>1. ASSUME NEW i \in 1 .. Len(packets'[c])
            PROVE  \/ i \in 1 .. Len(packets[c]) /\ packets'[c][i] = packets[c][i]
                   \/ i = Len(packets[c]) + 1 /\ packets'[c][i] = new
        BY <2>1, <2>7
      <4>2. ASSUME NEW i \in 1 .. Len(packets'[c])
            PROVE  packets'[c][i].slot <= slot
        BY <1>3, <2>1, <2>2, <4>1
      <4>3. ASSUME NEW i \in 1 .. Len(packets'[c]), NEW j \in i .. Len(packets'[c])
            PROVE  packets'[c][i].slot <= packets'[c][j].slot
        <5>1. j \in 1 .. Len(packets'[c]) /\ i <= j
          BY <2>1, <2>7
        <5>2. CASE j = Len(packets[c]) + 1
          BY <1>3, <2>7, <4>2, <5>2
        <5>3. CASE j \in 1 .. Len(packets[c])
          <6>1. i \in 1 .. Len(packets[c]) /\ j \in i .. Len(packets[c])
            BY <2>1, <5>1, <5>3
          <6> QED
            BY <2>2, <2>7, <5>3, <6>1
        <5> QED
          BY <2>1, <2>7, <5>1, <5>2, <5>3
      <4> QED
        BY <4>2, <4>3
    <3>2. \A i \in 1 .. Len(packets'[c]) :
             packets'[c][i].src = Freed => packets'[c][i].slot < slot
      BY <1>3, <2>1, <2>4, <2>7
    <3>3. ASSUME NEW i \in 1 .. Len(packets'[c]), packets'[c][i].slot < slot
          PROVE  \E j \in 1 .. Len(packets'[c]) :
                    j # i /\ packets'[c][j].slot = packets'[c][i].slot
      <4>1. i \in 1 .. Len(packets[c])
        BY <1>3, <2>1, <2>7, <3>3
      <4>2. PICK j \in 1 .. Len(packets[c]) : j # i /\ packets[c][j].slot = packets[c][i].slot
        BY <2>5, <2>7, <3>3, <4>1
      <4>3. j \in 1 .. Len(packets'[c])
        BY <2>1, <2>7
      <4> QED
        BY <2>7, <4>1, <4>2, <4>3
    <3> QED
      BY <2>7, <3>1, <3>2, <3>3
  <2> QED
    BY <1>2, <2>6, <2>7
<1>5. SlotOrder'
  BY <1>1, <1>4 DEF SlotOrder
<1>6. EarlierPackets'
  BY <1>1, <1>4 DEF EarlierPackets
<1>7. FreedEarlier'
  BY <1>1, <1>4 DEF FreedEarlier
<1>8. UndeliveredCollided'
  <2>1. \A c \in present : \A i \in 1 .. Len(packets'[c]) : packets'[c][i].slot < slot =>
           \E j \in 1 .. Len(packets'[c]) : j # i /\ packets'[c][j].slot = packets'[c][i].slot
    BY <1>4
  <2> QED
    BY <1>1, <2>1 DEF UndeliveredCollided
<1> QED
  BY <1>5, <1>6, <1>7, <1>8 DEF ListInv

(* A reception takes the one packet of the slot off the list, and leaves a *)
(* collision's packets, of which there are at least two.                   *)
LEMMA ReceiveListInv == IInv /\ ListInv /\ Receive => ListInv'
<1> SUFFICES ASSUME IInv, ListInv, Receive PROVE ListInv'
  OBVIOUS
<1>1. /\ packets' = [c \in present |-> IF c \in Received THEN PickTail(c) ELSE packets[c]]
      /\ slot' = slot + 1 /\ present' = present
      /\ pc = "slot" /\ Transmitters \subseteq sent
  BY DEF Receive, table
<1>2. ASSUME NEW c \in present
      PROVE  /\ Len(packets'[c]) \in Nat /\ Len(packets'[c]) <= Len(packets[c])
             /\ \A i \in 1 .. Len(packets'[c]) : packets'[c][i] = packets[c][i]
  <2>1. packets[c] \in Seq(Packet) /\ Len(packets[c]) \in Nat
    BY PacketSlots DEF IInv, TypeOK
  <2>2. CASE c \in Received
    <3>1. Len(packets[c]) > 0
      BY <2>2, ReceivedLast
    <3>2. packets'[c] = SubSeq(packets[c], 1, Len(packets[c]) - 1)
      BY <1>1, <2>2, PickTailFront
    <3> QED
      BY <2>1, <3>1, <3>2, FrontProperties
  <2>3. CASE c \notin Received
    BY <1>1, <2>1, <2>3
  <2> QED
    BY <2>2, <2>3
<1>3. ASSUME NEW c \in present, NEW i \in 1 .. Len(packets'[c])
      PROVE  \E j \in 1 .. Len(packets'[c]) : j # i /\ packets'[c][j].slot = packets'[c][i].slot
  <2>1. /\ Len(packets[c]) \in Nat /\ slot \in Nat
        /\ \A k \in 1 .. Len(packets[c]) : packets[c][k].slot \in Nat
    BY PacketSlots
  <2>2. i \in 1 .. Len(packets[c]) /\ packets'[c][i] = packets[c][i]
    BY <1>2, <2>1
  <2>3. CASE c \in Received
    <3>1. /\ Now(c) = {Len(packets[c])} /\ PickedPacket(c).slot = slot
          /\ Len(packets'[c]) = Len(packets[c]) - 1
      <4>1. packets'[c] = SubSeq(packets[c], 1, Len(packets[c]) - 1)
        BY <1>1, <2>3, PickTailFront
      <4>2. Len(packets[c]) > 0 /\ packets[c] \in Seq(Packet)
        BY <2>3, ReceivedLast
      <4> QED
        BY <2>3, <4>1, <4>2, ReceivedLast, FrontProperties
    <3>2. packets[c][i].slot < slot
      <4>1. i # Len(packets[c])
        BY <1>2, <2>1, <3>1
      <4>2. packets[c][i].slot # slot
        BY <2>2, <3>1, <4>1 DEF Now
      <4>3. packets[c][i].slot <= slot
        BY <2>2 DEF ListInv, SlotOrder
      <4> QED
        BY <2>1, <2>2, <4>2, <4>3
    <3>3. PICK j \in 1 .. Len(packets[c]) : j # i /\ packets[c][j].slot = packets[c][i].slot
      BY <2>2, <3>2 DEF ListInv, UndeliveredCollided
    <3>4. j # Len(packets[c])
      BY <2>1, <3>1, <3>2, <3>3 DEF PickedPacket, PickedPlace
    <3>5. j \in 1 .. Len(packets'[c])
      BY <2>1, <3>1, <3>4
    <3> QED
      BY <1>2, <2>2, <3>3, <3>5
  <2>4. CASE c \notin Received
    <3>1. packets'[c] = packets[c]
      BY <1>1, <2>4
    <3>2. CASE packets[c][i].slot < slot
      BY <2>2, <3>1, <3>2 DEF ListInv, UndeliveredCollided
    <3>3. CASE ~(packets[c][i].slot < slot)
      <4>1. packets[c][i].slot = slot
        <5>1. packets[c][i].slot <= slot
          BY <2>2 DEF ListInv, SlotOrder
        <5> QED
          BY <2>1, <2>2, <3>3, <5>1
      <4>2. i \in Now(c)
        BY <2>2, <4>1 DEF Now
      <4>3. c \in Listeners
        <5>1. slot_occupied[c] # slot
          BY <1>1, <2>2, <3>3 DEF ListInv, EarlierPackets
        <5>2. nItems[c] # 0
          <6>1. Len(packets[c]) <= nItems[c] /\ nItems[c] \in Nat
            BY DEF IInv, ListBelowCount, TypeOK
          <6> QED
            BY <2>1, <2>2, <6>1
        <5> QED
          BY <5>1, <5>2 DEF Listeners
      <4>4. Cardinality(Now(c)) # 1
        BY <2>4, <4>3 DEF Received
      <4>5. Now(c) # {i}
        BY <4>4, FS_Singleton
      <4>6. PICK j \in Now(c) : j # i
        BY <4>2, <4>5
      <4>7. j \in 1 .. Len(packets[c]) /\ packets[c][j].slot = slot
        BY <4>6 DEF Now
      <4> QED
        BY <3>1, <4>1, <4>6, <4>7
    <3> QED
      BY <3>2, <3>3
  <2> QED
    BY <2>3, <2>4
<1>4. ASSUME NEW c \in present, NEW i \in 1 .. Len(packets'[c])
      PROVE  /\ packets'[c][i].slot < slot'
             /\ packets'[c][i].slot <= slot'
             /\ \A j \in i .. Len(packets'[c]) : packets'[c][i].slot <= packets'[c][j].slot
  <2>1. /\ Len(packets[c]) \in Nat /\ slot \in Nat
        /\ \A k \in 1 .. Len(packets[c]) : packets[c][k].slot \in Nat
    BY PacketSlots
  <2>2. i \in 1 .. Len(packets[c]) /\ packets'[c][i] = packets[c][i]
    BY <1>2, <2>1
  <2>3. packets[c][i].slot <= slot
    BY <2>2 DEF ListInv, SlotOrder
  <2>4. ASSUME NEW j \in i .. Len(packets'[c])
        PROVE  packets'[c][i].slot <= packets'[c][j].slot
    <3>1. j \in 1 .. Len(packets'[c]) /\ j \in i .. Len(packets[c])
      BY <1>2, <2>1, <2>2
    <3>2. packets[c][i].slot <= packets[c][j].slot
      BY <2>2, <3>1 DEF ListInv, SlotOrder
    <3> QED
      BY <1>2, <2>2, <3>1, <3>2
  <2> QED
    BY <1>1, <2>1, <2>2, <2>3, <2>4
<1>5. SlotOrder'
  BY <1>1, <1>4 DEF SlotOrder
<1>6. EarlierPackets'
  BY <1>1, <1>4 DEF EarlierPackets
<1>7. FreedEarlier'
  BY <1>1, <1>4 DEF FreedEarlier
<1>8. UndeliveredCollided'
  BY <1>1, <1>3 DEF UndeliveredCollided
<1> QED
  BY <1>5, <1>6, <1>7, <1>8 DEF ListInv

-----------------------------------------------------------------------------
(* Theorems that hold whatever malloc leaves in a new vehicle.             *)

LEMMA InitListInv == Init => ListInv
BY DEF Init, ListInv, SlotOrder, EarlierPackets, FreedEarlier, UndeliveredCollided

LEMMA StutterInv == IInv /\ ListInv /\ UNCHANGED vars => IInv' /\ ListInv'
<1> SUFFICES ASSUME IInv, ListInv, UNCHANGED vars PROVE IInv' /\ ListInv'
  OBVIOUS
<1>1. /\ slot' = slot /\ pc' = pc /\ sent' = sent /\ present' = present /\ pos' = pos
      /\ safe' = safe /\ role' = role /\ slot_condition' = slot_condition
      /\ slot_occupied' = slot_occupied /\ commRadius' = commRadius
      /\ radius_flag' = radius_flag /\ packets' = packets /\ nItems' = nItems
      /\ slot_oneHop' = slot_oneHop /\ frontV' = frontV /\ rearV' = rearV
      /\ cnt_pkt' = cnt_pkt /\ cnt_received' = cnt_received /\ cnt_coli' = cnt_coli
      /\ wild' = wild
  BY DEF vars, table, mac, rx, counts
<1>2. TypeOK'
  BY <1>1 DEF IInv, TypeOK
<1>3. PointersValid' /\ ListBelowCount' /\ LoopState'
  BY <1>1 DEF IInv, PointersValid, ListBelowCount, LoopState
<1>4. ListInv'
  BY <1>1 DEF ListInv, SlotOrder, EarlierPackets, FreedEarlier, UndeliveredCollided
<1> QED
  BY <1>2, <1>3, <1>4 DEF IInv

LEMMA NextInv == IInv /\ ListInv /\ [Next]_vars => IInv' /\ ListInv'
<1> SUFFICES ASSUME IInv, ListInv, [Next]_vars PROVE IInv' /\ ListInv'
  OBVIOUS
<1>1. CASE UpdateCars
  BY <1>1, UpdateCarsIInv, UpdateCarsListInv
<1>2. CASE FrameStart
  BY <1>2, FrameStartIInv, FrameStartListInv
<1>3. ASSUME NEW a \in present, Transmit(a)
      PROVE  IInv' /\ ListInv'
  BY <1>3, TransmitIInv, TransmitListInv
<1>4. CASE Receive
  BY <1>4, ReceiveIInv, ReceiveListInv
<1>5. CASE UNCHANGED vars
  BY <1>5, StutterInv
<1> QED
  BY <1>1, <1>2, <1>3, <1>4, <1>5 DEF Next

LEMMA Invariance == Spec => [](IInv /\ ListInv)
<1>1. Init => IInv /\ ListInv
  BY InitIInv, InitListInv
<1>2. (IInv /\ ListInv) /\ [Next]_vars => (IInv /\ ListInv)'
  BY NextInv
<1> QED
  BY <1>1, <1>2, PTL DEF Spec

(* Every field of every vehicle always has a value of its type.            *)
THEOREM TypeCorrect == Spec => []TypeOK
<1>1. IInv /\ ListInv => TypeOK
  BY DEF IInv
<1> QED
  BY <1>1, Invariance, PTL

(* The protocol finds on a list only packets that collided.                *)
THEOREM OnlyCollisionsKept == Spec => []UndeliveredCollided
<1>1. IInv /\ ListInv => UndeliveredCollided
  BY DEF ListInv
<1> QED
  BY <1>1, Invariance, PTL

(* A single vehicle merges into a platoon only after a collision.          *)
THEOREM MergersCollided == Spec => MergeOnlyAfterCollision
<1> DEFINE Collision(c) == \E i, j \in 1 .. Len(packets[c]) :
                              i # j /\ packets[c][i].slot = packets[c][j].slot
           Merged == \A c \in present \cap present' :
                        role[c] = "single" /\ role'[c] # "single" => Collision(c)
<1>1. IInv /\ ListInv /\ [Next]_vars => [Merged]_vars
  <2> SUFFICES ASSUME IInv, ListInv, Next,
                      NEW c \in present \cap present', role[c] = "single", role'[c] # "single"
               PROVE  Collision(c)
    OBVIOUS
  <2>1. CASE UpdateCars
    <3>1. PICK recorded \in SUBSET Cars :
             Load((present \cap recorded) \cup Admitted(recorded),
                  Admitted(recorded), present \ recorded)
      BY <2>1 DEF UpdateCars
    <3>2. c \notin Admitted(recorded)
      BY DEF Admitted
    <3>3. role'[c] = role[c]
      BY <3>1, <3>2 DEF Load
    <3> QED
      BY <3>3
  <2>2. CASE FrameStart
    <3>1. c \in Mergers
      BY <2>2 DEF FrameStart
    <3>2. pc = "protocol"
      BY <2>2 DEF FrameStart
    <3>3. packets[c] \in Seq(Packet) /\ packets[c] # << >>
      BY <3>1 DEF Mergers, IInv, TypeOK
    <3>4. 1 \in 1 .. Len(packets[c])
      BY <3>3, EmptySeq
    <3>5. packets[c][1].slot < slot
      BY <3>2, <3>4 DEF ListInv, EarlierPackets
    <3>6. \E j \in 1 .. Len(packets[c]) : j # 1 /\ packets[c][j].slot = packets[c][1].slot
      BY <3>4, <3>5 DEF ListInv, UndeliveredCollided
    <3> QED
      BY <3>4, <3>6
  <2>3. CASE (\E a \in present : Transmit(a)) \/ Receive
    BY <2>3 DEF Transmit, Receive, mac
  <2> QED
    BY <2>1, <2>2, <2>3 DEF Next
<1>2. Spec => [][Merged]_vars
  <2> HIDE DEF Merged
  <2> QED
    BY <1>1, Invariance, PTL DEF Spec
<1> QED
  BY <1>2 DEF MergeOnlyAfterCollision

-----------------------------------------------------------------------------
(* What is counted and what is on the lists.                               *)

(* A set of vehicles, each with one place of its list, has their number.   *)
LEMMA OnePlaceEach ==
    ASSUME NEW S, IsFiniteSet(S), NEW f, NEW T, T = {<<c, f[c]>> : c \in S}
    PROVE  IsFiniteSet(T) /\ Cardinality(T) = Cardinality(S)
<1> DEFINE g == [c \in S |-> <<c, f[c]>>]
<1>1. g \in [S -> T] /\ \A t \in T : \E c \in S : g[c] = t
  OBVIOUS
<1>2. ASSUME NEW b \in S, NEW c \in S, g[b] = g[c] PROVE b = c
  BY <1>2
<1>3. g \in Bijection(S, T)
  BY <1>1, <1>2 DEF Bijection, Injection, Surjection, IsInjective
<1> HIDE DEF g
<1>4. ExistsBijection(S, T)
  BY <1>3 DEF ExistsBijection
<1> QED
  BY <1>4, FS_Bijection

LEMMA PendingMember ==
    \A c, i : <<c, i>> \in Pending <=> c \in present /\ i \in 1 .. Len(packets[c])
BY DEF Pending

LEMMA PendingPairs == \A t \in Pending : t = <<t[1], t[2]>>
BY DEF Pending

(* cnt_pkt grows by the packets a transmission puts on lists; what a       *)
(* reception adds to cnt_received it takes off the lists.                  *)
AccountInv == IsFiniteSet(Pending) /\ ReceptionAccounting

LEMMA FewerPending ==
    ASSUME AccountInv, TypeOK, Pending' \subseteq Pending,
           cnt_pkt' = cnt_pkt, cnt_received' = cnt_received
    PROVE  AccountInv'
<1>1. /\ IsFiniteSet(Pending') /\ Cardinality(Pending') <= Cardinality(Pending)
      /\ Cardinality(Pending') \in Nat /\ Cardinality(Pending) \in Nat
  BY FS_Subset, FS_CardinalityType DEF AccountInv
<1> HIDE DEF Pending
<1>2. cnt_received + Cardinality(Pending') <= cnt_pkt
  BY <1>1 DEF AccountInv, ReceptionAccounting, TypeOK
<1> QED
  BY <1>1, <1>2 DEF AccountInv, ReceptionAccounting

LEMMA UpdateCarsAccount == ASSUME IInv, AccountInv, UpdateCars PROVE AccountInv'
<1>1. Pending' \subseteq Pending
  <2> SUFFICES ASSUME NEW c \in present', NEW i \in 1 .. Len(packets'[c])
               PROVE  <<c, i>> \in Pending
    BY DEF Pending
  <2>1. c \in present /\ Len(packets'[c]) = Len(packets[c])
    BY UpdateCarsPackets, EmptySeq
  <2> QED
    BY <2>1, PendingMember
<1>2. cnt_pkt' = cnt_pkt /\ cnt_received' = cnt_received
  BY DEF UpdateCars, counts
<1> QED
  BY <1>1, <1>2, FewerPending DEF IInv

LEMMA FrameStartAccount == ASSUME IInv, AccountInv, FrameStart PROVE AccountInv'
<1>1. /\ packets' = [c \in present |-> << >>] /\ present' = present
      /\ cnt_pkt' = cnt_pkt /\ cnt_received' = cnt_received
  BY DEF FrameStart, table, counts
<1>2. \A c \in present' : 1 .. Len(packets'[c]) = {}
  BY <1>1, EmptySeq
<1>3. Pending' \subseteq Pending
  BY <1>2 DEF Pending
<1> QED
  BY <1>1, <1>3, FewerPending DEF IInv

LEMMA TransmitAccount ==
    ASSUME IInv, AccountInv, NEW a \in present, Transmit(a) PROVE AccountInv'
<1> DEFINE blocked == {b \in InRange(a) : slot_occupied[b] = slot_occupied[a]}
           reached == InRange(a) \ blocked
           next == [b \in present |-> Len(packets[b]) + 1]
           New == {<<b, next[b]>> : b \in reached}
<1>1. /\ packets' = [b \in present |->
             IF b \in reached THEN Append(packets[b], [slot |-> slot, src |-> a])
                              ELSE packets[b]]
      /\ cnt_pkt' = cnt_pkt + Cardinality(reached)
      /\ present' = present /\ cnt_received' = cnt_received
  BY DEF Transmit, table
<1>2. /\ IsFiniteSet(reached) /\ Cardinality(reached) \in Nat
      /\ reached \subseteq present
  <2>1. reached \subseteq present /\ reached \in SUBSET Cars
    BY DEF InRange, Neighbours, IInv, TypeOK
  <2> HIDE DEF reached
  <2> QED
    BY <2>1, ConstantsOK, FS_Subset, FS_CardinalityType
<1> HIDE DEF blocked, reached
<1>3. IsFiniteSet(New) /\ Cardinality(New) = Cardinality(reached)
  <2> HIDE DEF next
  <2> QED
    BY <1>2, OnePlaceEach
<1>4. [slot |-> slot, src |-> a] \in Packet
  BY ConstantsOK DEF IInv, TypeOK, Packet
<1>5. ASSUME NEW b \in present
      PROVE  /\ Len(packets[b]) \in Nat
             /\ Len(packets'[b]) = IF b \in reached THEN Len(packets[b]) + 1
                                                    ELSE Len(packets[b])
  <2>1. packets[b] \in Seq(Packet) /\ Len(packets[b]) \in Nat
    BY LenProperties DEF IInv, TypeOK
  <2> QED
    BY <1>1, <1>4, <2>1, AppendProperties
<1>6. Pending' \subseteq Pending \cup New
  <2> SUFFICES ASSUME NEW b \in present, NEW i \in 1 .. Len(packets'[b])
               PROVE  <<b, i>> \in Pending \cup New
    BY <1>1 DEF Pending
  <2>1. \/ i \in 1 .. Len(packets[b])
        \/ b \in reached /\ i = Len(packets[b]) + 1
    BY <1>5
  <2>2. CASE i \in 1 .. Len(packets[b])
    BY <2>2, PendingMember
  <2>3. CASE b \in reached /\ i = Len(packets[b]) + 1
    BY <2>3
  <2> QED
    BY <2>1, <2>2, <2>3
<1> HIDE DEF New
<1>7. IsFiniteSet(Pending) /\ IsFiniteSet(Pending \cup New) /\ IsFiniteSet(Pending')
      /\ IsFiniteSet(Pending \cap New)
  BY <1>3, <1>6, FS_Union, FS_Subset DEF AccountInv
<1>8. /\ Cardinality(Pending') <= Cardinality(Pending \cup New)
      /\ Cardinality(Pending \cup New) =
            Cardinality(Pending) + Cardinality(New) - Cardinality(Pending \cap New)
      /\ Cardinality(Pending) \in Nat /\ Cardinality(New) \in Nat
      /\ Cardinality(Pending \cap New) \in Nat /\ Cardinality(Pending') \in Nat
  BY <1>3, <1>6, <1>7, FS_Union, FS_Subset, FS_CardinalityType
<1> HIDE DEF Pending
<1>9. cnt_received' + Cardinality(Pending') <= cnt_pkt'
  <2>1. cnt_received + Cardinality(Pending) <= cnt_pkt
    BY DEF AccountInv, ReceptionAccounting
  <2>2. cnt_received \in Nat /\ cnt_pkt \in Nat
    BY DEF IInv, TypeOK
  <2> QED
    BY <1>1, <1>2, <1>3, <1>8, <2>1, <2>2
<1> QED
  BY <1>7, <1>9 DEF AccountInv, ReceptionAccounting

LEMMA ReceiveAccount ==
    ASSUME IInv, ListInv, AccountInv, Receive PROVE AccountInv'
<1> DEFINE last == [c \in present |-> Len(packets[c])]
           Taken == {<<c, last[c]>> : c \in Received}
<1>1. /\ packets' = [c \in present |-> IF c \in Received THEN PickTail(c) ELSE packets[c]]
      /\ cnt_received' = cnt_received + Cardinality(Received)
      /\ present' = present /\ cnt_pkt' = cnt_pkt
  BY DEF Receive, table
<1>2. IsFiniteSet(Received) /\ Cardinality(Received) \in Nat /\ Received \subseteq present
  <2>1. Received \in SUBSET Cars /\ Received \subseteq present
    BY DEF Received, Listeners, IInv, TypeOK
  <2> QED
    BY <2>1, ConstantsOK, FS_Subset, FS_CardinalityType
<1>3. IsFiniteSet(Taken) /\ Cardinality(Taken) = Cardinality(Received)
  <2> HIDE DEF last
  <2> QED
    BY <1>2, OnePlaceEach
<1>4. ASSUME NEW c \in Received
      PROVE  /\ Len(packets[c]) \in Nat \ {0}
             /\ Len(packets'[c]) = Len(packets[c]) - 1
  <2>1. packets[c] \in Seq(Packet) /\ Len(packets[c]) \in Nat \ {0}
    BY ReceivedLast
  <2>2. packets'[c] = SubSeq(packets[c], 1, Len(packets[c]) - 1)
    BY <1>1, <1>2, PickTailFront
  <2>3. Len(SubSeq(packets[c], 1, Len(packets[c]) - 1)) = Len(packets[c]) - 1
    BY <2>1, FrontProperties
  <2> QED
    BY <2>1, <2>2, <2>3
<1>5. Taken \subseteq Pending
  <2>1. \A c \in Received : <<c, Len(packets[c])>> \in Pending
    <3> TAKE c \in Received
    <3>1. Len(packets[c]) \in 1 .. Len(packets[c])
      BY <1>4
    <3> QED
      BY <1>2, <3>1, PendingMember
  <2>2. \A c \in Received : last[c] = Len(packets[c])
    BY <1>2
  <2> HIDE DEF last, Pending
  <2> QED
    BY <2>1, <2>2
<1>6. Pending' \subseteq Pending \ Taken
  <2> SUFFICES ASSUME NEW c \in present, NEW i \in 1 .. Len(packets'[c])
               PROVE  <<c, i>> \in Pending /\ <<c, i>> \notin Taken
    BY <1>1 DEF Pending
  <2>1. CASE c \in Received
    <3>1. i \in 1 .. Len(packets[c]) /\ i # Len(packets[c])
      BY <1>4, <2>1
    <3> QED
      BY <3>1, PendingMember
  <2>2. CASE c \notin Received
    <3>1. packets'[c] = packets[c]
      BY <1>1, <2>2
    <3> QED
      BY <2>2, <3>1, PendingMember
  <2> QED
    BY <2>1, <2>2
<1> HIDE DEF Taken
<1>7. /\ IsFiniteSet(Pending) /\ IsFiniteSet(Pending \ Taken) /\ IsFiniteSet(Pending')
      /\ Pending \cap Taken = Taken
  BY <1>5, <1>6, FS_Difference, FS_Subset DEF AccountInv
<1>8. /\ Cardinality(Pending') <= Cardinality(Pending \ Taken)
      /\ Cardinality(Pending \ Taken) = Cardinality(Pending) - Cardinality(Taken)
      /\ Cardinality(Pending) \in Nat /\ Cardinality(Pending') \in Nat
      /\ Cardinality(Pending \ Taken) \in Nat
  BY <1>6, <1>7, FS_Difference, FS_Subset, FS_CardinalityType
<1> HIDE DEF Pending
<1>9. cnt_received' + Cardinality(Pending') <= cnt_pkt'
  <2>1. cnt_received + Cardinality(Pending) <= cnt_pkt
    BY DEF AccountInv, ReceptionAccounting
  <2>2. cnt_received \in Nat /\ cnt_pkt \in Nat
    BY DEF IInv, TypeOK
  <2> QED
    BY <1>1, <1>2, <1>3, <1>8, <2>1, <2>2
<1> QED
  BY <1>7, <1>9 DEF AccountInv, ReceptionAccounting

LEMMA InitAccount == Init => AccountInv
<1> SUFFICES ASSUME Init PROVE AccountInv
  OBVIOUS
<1>1. present = {} /\ cnt_pkt = 0 /\ cnt_received = 0
  BY Zenon DEF Init
<1>2. Pending = {}
  BY <1>1 DEF Pending
<1> HIDE DEF Pending
<1> QED
  BY <1>1, <1>2, FS_EmptySet DEF AccountInv, ReceptionAccounting

(* No packet is counted as received and still on a list, or twice.         *)
THEOREM AccountHolds == Spec => []ReceptionAccounting
<1>1. Init => AccountInv
  BY InitAccount
<1>2. (IInv /\ ListInv) /\ AccountInv /\ [Next]_vars => AccountInv'
  <2> SUFFICES ASSUME IInv, ListInv, AccountInv, [Next]_vars PROVE AccountInv'
    OBVIOUS
  <2>1. CASE UNCHANGED vars
    <3>1. /\ present' = present /\ packets' = packets
          /\ cnt_pkt' = cnt_pkt /\ cnt_received' = cnt_received
      BY <2>1 DEF vars, table, rx, counts
    <3>2. Pending' = Pending
      BY <3>1 DEF Pending
    <3> QED
      BY <3>1, <3>2, FewerPending DEF IInv
  <2>2. ASSUME NEW a \in present, Transmit(a) PROVE AccountInv'
    BY <2>2, TransmitAccount
  <2> QED
    BY <2>1, <2>2, UpdateCarsAccount, FrameStartAccount, ReceiveAccount DEF Next
<1>3. AccountInv => ReceptionAccounting
  BY DEF AccountInv
<1> QED
  BY <1>1, <1>2, <1>3, Invariance, PTL DEF Spec

-----------------------------------------------------------------------------
(* What a vehicle has heard in the first frame.                            *)

LEMMA FrameModulus ==
    /\ SlotPerFrame % SlotPerFrame = 0
    /\ \A s \in 1 .. SlotPerFrame - 1 : s % SlotPerFrame # 0
<1>1. SlotPerFrame \in Nat /\ SlotPerFrame > 2
  BY ConstantsOK
<1>2. \A s \in 1 .. SlotPerFrame - 1 : s % SlotPerFrame = s
  BY <1>1
<1>3. SlotPerFrame % SlotPerFrame = 0
  BY <1>1
<1> QED
  BY <1>1, <1>2, <1>3

(* Between the slots 0 and SlotPerFrame no vehicle is admitted.            *)
LEMMA NobodyAdmitted ==
    ASSUME slot \in 1 .. SlotPerFrame - 1, NEW recorded
    PROVE  Admitted(recorded) = {}
<1> DEFINE n == SlotPerFrame * nFrameSta
<1>1. SlotPerFrame \in Nat /\ nFrameSta \in Nat \ {0} /\ slot \in Nat
  BY ConstantsOK
<1>2. n \in Nat /\ n >= SlotPerFrame
  BY <1>1
<1> HIDE DEF n
<1>3. slot % n # 0
  <2>1. slot \in 0 .. n - 1 /\ n > 0
    BY <1>1, <1>2
  <2>2. slot % n = slot
    BY <1>1, <1>2, <2>1
  <2> QED
    BY <2>2
<1> QED
  BY <1>3 DEF Admitted, n

(* Nothing is recorded for a slot that has not come yet.                   *)
Unheard == \A c \in present : \A s \in 0 .. SlotPerFrame - 1 :
               s >= slot => slot_oneHop[c][s] = None

(* The two parts of OneHopTruthful.                                        *)
HeardAlone ==
    \A c \in present : \A s \in 0 .. SlotPerFrame - 1 : slot_oneHop[c][s] # None =>
        \A i \in 1 .. Len(packets[c]) : packets[c][i].slot # s

HeardOwner ==
    slot < SlotPerFrame =>
        \A c \in present : \A s \in 0 .. SlotPerFrame - 1 :
            slot_oneHop[c][s] \in present => slot_occupied[slot_oneHop[c][s]] = s

(* The slots are drawn once, before anything is heard; and who is heard in *)
(* a slot occupies it.                                                     *)
HeardInv ==
    /\ pc = "protocol" => slot = 0 \/ slot >= SlotPerFrame
    /\ \A c \in present : \A i \in 1 .. Len(packets[c]) :
          packets[c][i].slot = slot => slot_occupied[packets[c][i].src] = slot
    /\ Unheard /\ HeardAlone /\ HeardOwner

LEMMA InitHeard == Init => HeardInv
<1> SUFFICES ASSUME Init PROVE HeardInv
  OBVIOUS
<1>1. present = {} /\ pc = "update"
  BY Zenon DEF Init
<1> QED
  BY <1>1 DEF HeardInv, Unheard, HeardAlone, HeardOwner

(* No packet of the current slot is on a list before the slot has begun.   *)
LEMMA NotYetSent ==
    ASSUME IInv, ListInv, pc # "slot"
    PROVE  \A c \in present : \A i \in 1 .. Len(packets[c]) : packets[c][i].slot # slot
<1> SUFFICES ASSUME NEW c \in present, NEW i \in 1 .. Len(packets[c])
             PROVE  packets[c][i].slot # slot
  OBVIOUS
<1>1. packets[c][i].slot < slot
  BY DEF ListInv, EarlierPackets
<1> QED
  BY <1>1, PacketSlots

LEMMA UpdateCarsHeard == ASSUME IInv, ListInv, HeardInv, UpdateCars PROVE HeardInv'
<1>1. PICK recorded \in SUBSET Cars :
         Load((present \cap recorded) \cup Admitted(recorded),
              Admitted(recorded), present \ recorded)
  BY DEF UpdateCars
<1>2. /\ pc = "update" /\ slot' = slot
      /\ pc' = IF slot % SlotPerFrame = 0 THEN "protocol" ELSE "slot"
  BY DEF UpdateCars
<1>3. slot \in Nat /\ SlotPerFrame \in Nat /\ SlotPerFrame > 2
  BY ConstantsOK DEF IInv, TypeOK
<1>4. pc' = "protocol" => slot = 0 \/ slot >= SlotPerFrame
  BY <1>2, <1>3, FrameModulus
<1>5. ASSUME NEW c \in present'
      PROVE  \/ /\ c \in Admitted(recorded)
                /\ \A s \in 0 .. SlotPerFrame - 1 : slot_oneHop'[c][s] = None
             \/ /\ c \notin Admitted(recorded) /\ c \in present
                /\ slot_oneHop'[c] = slot_oneHop[c] /\ slot_occupied'[c] = slot_occupied[c]
  BY <1>1 DEF Load
<1>6. Unheard'
  BY <1>2, <1>5 DEF HeardInv, Unheard
<1>7. present' \subseteq Cars
  BY <1>1 DEF Load, Admitted
<1>8. HeardOwner'
  <2>1. CASE slot = 0
    <3>1. \A c \in present' : \A s \in 0 .. SlotPerFrame - 1 : slot_oneHop'[c][s] \notin present'
      BY <1>2, <1>6, <1>7, <2>1, ConstantsOK DEF Unheard
    <3> QED
      BY <3>1 DEF HeardOwner
  <2>2. CASE slot \in 1 .. SlotPerFrame - 1
    <3>1. Admitted(recorded) = {}
      BY <2>2, NobodyAdmitted
    <3> QED
      BY <1>2, <1>5, <3>1 DEF HeardInv, HeardOwner
  <2>3. CASE slot >= SlotPerFrame
    BY <1>2, <1>3, <2>3 DEF HeardOwner
  <2> QED
    BY <1>3, <2>1, <2>2, <2>3
<1>10. HeardAlone'
  <2> SUFFICES ASSUME NEW c \in present', NEW s \in 0 .. SlotPerFrame - 1,
                      slot_oneHop'[c][s] # None, NEW i \in 1 .. Len(packets'[c])
               PROVE  packets'[c][i].slot # s
    BY DEF HeardAlone
  <2>1. c \in present /\ slot_oneHop'[c] = slot_oneHop[c]
    BY <1>5
  <2>2. i \in 1 .. Len(packets[c]) /\ packets'[c][i].slot = packets[c][i].slot
    BY UpdateCarsPackets, EmptySeq
  <2> QED
    BY <2>1, <2>2 DEF HeardInv, HeardAlone
<1>9. \A c \in present' : \A i \in 1 .. Len(packets'[c]) : packets'[c][i].slot # slot
  <2> SUFFICES ASSUME NEW c \in present', NEW i \in 1 .. Len(packets'[c])
               PROVE  packets'[c][i].slot # slot
    OBVIOUS
  <2>1. /\ c \in present /\ i \in 1 .. Len(packets[c])
        /\ packets'[c][i].slot = packets[c][i].slot
    BY UpdateCarsPackets, EmptySeq
  <2> QED
    BY <1>2, <2>1, NotYetSent
<1> QED
  BY <1>2, <1>4, <1>6, <1>8, <1>9, <1>10 DEF HeardInv

LEMMA FrameStartHeard == ASSUME IInv, HeardInv, FrameStart PROVE HeardInv'
<1>1. /\ packets' = [c \in present |-> << >>] /\ present' = present
      /\ pc = "protocol" /\ pc' = "slot" /\ slot' = slot /\ slot_oneHop' = slot_oneHop
  BY DEF FrameStart, table
<1>2. \A c \in present' : 1 .. Len(packets'[c]) = {}
  BY <1>1, EmptySeq
<1>3. slot \in Nat /\ SlotPerFrame \in Nat /\ present \subseteq Cars
  BY ConstantsOK DEF IInv, TypeOK
<1>4. HeardOwner'
  <2>1. CASE slot = 0
    <3>1. \A c \in present : \A s \in 0 .. SlotPerFrame - 1 : slot_oneHop[c][s] \notin present
      BY <1>1, <1>3, <2>1, ConstantsOK DEF HeardInv, Unheard
    <3> QED
      BY <1>1, <3>1 DEF HeardOwner
  <2>2. CASE slot >= SlotPerFrame
    BY <1>1, <1>3, <2>2 DEF HeardOwner
  <2> QED
    BY <1>1, <2>1, <2>2 DEF HeardInv
<1>5. Unheard' /\ HeardAlone'
  BY <1>1, <1>2 DEF HeardInv, Unheard, HeardAlone
<1> QED
  BY <1>1, <1>2, <1>4, <1>5 DEF HeardInv

LEMMA TransmitHeard ==
    ASSUME IInv, ListInv, HeardInv, NEW a \in present, Transmit(a) PROVE HeardInv'
<1> DEFINE reached == InRange(a) \ {b \in InRange(a) : slot_occupied[b] = slot_occupied[a]}
           new == [slot |-> slot, src |-> a]
<1>1. /\ pc = "slot" /\ slot_occupied[a] = slot
      /\ packets' = [b \in present |-> IF b \in reached THEN Append(packets[b], new)
                                                         ELSE packets[b]]
      /\ slot' = slot /\ pc' = pc /\ present' = present /\ slot_occupied' = slot_occupied
      /\ slot_oneHop' = slot_oneHop
  BY DEF Transmit, Transmitters, table, mac
<1>2. new \in Packet /\ new.src = a /\ new.slot = slot
  BY ConstantsOK DEF IInv, TypeOK, Packet
<1> HIDE DEF reached, new
<1>3. ASSUME NEW c \in present, NEW i \in 1 .. Len(packets'[c]), packets'[c][i].slot = slot
      PROVE  slot_occupied[packets'[c][i].src] = slot
  <2>1. packets[c] \in Seq(Packet) /\ Len(packets[c]) \in Nat
    BY LenProperties DEF IInv, TypeOK
  <2>2. CASE c \in reached /\ i = Len(packets[c]) + 1
    <3>1. packets'[c][i] = new
      BY <1>1, <1>2, <2>1, <2>2, AppendProperties
    <3> QED
      BY <1>1, <1>2, <3>1
  <2>3. CASE i \in 1 .. Len(packets[c])
    <3>1. packets'[c][i] = packets[c][i]
      BY <1>1, <1>2, <2>1, <2>3, AppendProperties
    <3> QED
      BY <1>3, <2>3, <3>1 DEF HeardInv
  <2>4. Len(packets'[c]) = Len(packets[c]) \/ c \in reached
    BY <1>1
  <2>5. c \in reached => Len(packets'[c]) = Len(packets[c]) + 1
    BY <1>1, <1>2, <2>1, AppendProperties
  <2> QED
    BY <2>1, <2>2, <2>3, <2>4, <2>5
<1>4. HeardOwner' /\ Unheard'
  BY <1>1 DEF HeardInv, HeardOwner, Unheard
<1>5. HeardAlone'
  <2> SUFFICES ASSUME NEW c \in present, NEW s \in 0 .. SlotPerFrame - 1,
                      slot_oneHop[c][s] # None, NEW i \in 1 .. Len(packets'[c])
               PROVE  packets'[c][i].slot # s
    BY <1>1 DEF HeardAlone
  <2>1. packets'[c][i] = new \/ (i \in 1 .. Len(packets[c]) /\ packets'[c][i] = packets[c][i])
    <3>1. packets[c] \in Seq(Packet) /\ Len(packets[c]) \in Nat
      BY LenProperties DEF IInv, TypeOK
    <3>2. CASE c \in reached
      <4>1. packets'[c] = Append(packets[c], new)
        BY <1>1, <3>2
      <4> QED
        BY <1>2, <3>1, <4>1, AppendProperties
    <3>3. CASE c \notin reached
      BY <1>1, <3>3
    <3> QED
      BY <3>2, <3>3
  <2>2. s # slot
    <3>1. ~(slot >= slot) => FALSE
      BY ConstantsOK DEF IInv, TypeOK
    <3> QED
      BY <3>1 DEF HeardInv, Unheard
  <2> QED
    BY <1>2, <2>1, <2>2 DEF HeardInv, HeardAlone
<1> QED
  BY <1>1, <1>3, <1>4, <1>5 DEF HeardInv

LEMMA ReceiveHeard == ASSUME IInv, ListInv, HeardInv, Receive PROVE HeardInv'
<1>1. /\ packets' = [c \in present |-> IF c \in Received THEN PickTail(c) ELSE packets[c]]
      /\ slot_oneHop' = [c \in present |->
             IF slot >= SlotPerFrame THEN slot_oneHop[c]
             ELSE [slot_oneHop[c] EXCEPT ![slot] =
                     IF c \in Silent THEN None
                     ELSE IF c \in Received THEN PickedPacket(c).src ELSE @]]
      /\ slot' = slot + 1
      /\ (pc' = "done" \/ pc' = PhaseAt(slot + 1))
      /\ UNCHANGED <<present, slot_occupied>>
  BY ReceiveWrites, Zenon DEF Receive, table, mac
<1>2. slot \in Nat /\ SlotPerFrame \in Nat /\ SlotPerFrame > 2 /\ present \subseteq Cars
  BY ConstantsOK DEF IInv, TypeOK
<1>3. pc' = "protocol" => slot' >= SlotPerFrame
  BY <1>1, <1>2, FrameModulus DEF PhaseAt
<1>4. ASSUME NEW c \in present, NEW i \in 1 .. Len(packets'[c])
      PROVE  /\ packets'[c][i].slot # slot'
             /\ i \in 1 .. Len(packets[c]) /\ packets'[c][i] = packets[c][i]
  <2>1. /\ packets[c] \in Seq(Packet) /\ Len(packets[c]) \in Nat
        /\ \A k \in 1 .. Len(packets[c]) : packets[c][k].slot \in Nat
    BY PacketSlots DEF IInv, TypeOK
  <2>2. i \in 1 .. Len(packets[c]) /\ packets'[c][i] = packets[c][i]
    <3>1. CASE c \in Received
      <4>1. Len(packets[c]) > 0
        BY <3>1, ReceivedLast
      <4>2. packets'[c] = SubSeq(packets[c], 1, Len(packets[c]) - 1)
        BY <1>1, <3>1, PickTailFront
      <4>3. /\ Len(packets'[c]) = Len(packets[c]) - 1
            /\ \A k \in 1 .. Len(packets[c]) - 1 : packets'[c][k] = packets[c][k]
        BY <2>1, <4>1, <4>2, FrontProperties
      <4> QED
        BY <2>1, <4>3
    <3>2. CASE c \notin Received
      BY <1>1, <3>2
    <3> QED
      BY <3>1, <3>2
  <2>3. packets[c][i].slot <= slot
    BY <2>2 DEF ListInv, SlotOrder
  <2> QED
    BY <1>1, <1>2, <2>1, <2>2, <2>3
<1>5. ASSUME NEW c \in Received
      PROVE  slot_occupied[PickedPacket(c).src] = slot
  <2>1. c \in present /\ Len(packets[c]) \in 1 .. Len(packets[c]) /\ PickedPacket(c).slot = slot
    BY ReceivedLast
  <2> QED
    BY <2>1 DEF HeardInv, PickedPacket, PickedPlace
<1>6. ASSUME NEW c \in present, NEW s \in 0 .. SlotPerFrame - 1
      PROVE  slot_oneHop'[c][s] = IF s # slot THEN slot_oneHop[c][s]
                                  ELSE IF c \in Silent THEN None
                                  ELSE IF c \in Received THEN PickedPacket(c).src
                                  ELSE slot_oneHop[c][s]
  <2>1. slot_oneHop[c] \in [0 .. SlotPerFrame - 1 -> Cars \cup {None}]
    BY DEF IInv, TypeOK
  <2> QED
    BY <1>1, <1>2, <2>1
<1>7. Unheard'
  <2> SUFFICES ASSUME NEW c \in present, NEW s \in 0 .. SlotPerFrame - 1, s >= slot + 1
               PROVE  slot_oneHop'[c][s] = None
    BY <1>1 DEF Unheard
  <2>1. s # slot /\ s >= slot
    BY <1>2
  <2> QED
    BY <1>6, <2>1 DEF HeardInv, Unheard
<1>8. HeardAlone'
  <2> SUFFICES ASSUME NEW c \in present, NEW s \in 0 .. SlotPerFrame - 1,
                      slot_oneHop'[c][s] # None, NEW i \in 1 .. Len(packets'[c]),
                      packets'[c][i].slot = s
               PROVE  FALSE
    BY <1>1 DEF HeardAlone
  <2>1. i \in 1 .. Len(packets[c]) /\ packets[c][i].slot = s
    BY <1>4
  <2>2. slot_oneHop[c][s] = None
    BY <2>1 DEF HeardInv, HeardAlone
  <2>3. s = slot /\ c \in Received
    BY <1>6, <2>2
  <2>4. i \in Now(c)
    BY <2>1, <2>3 DEF Now
  <2>5. i = Len(packets[c])
    BY <2>3, <2>4, ReceivedLast
  <2>6. Len(packets'[c]) = Len(packets[c]) - 1 /\ Len(packets[c]) \in Nat
    <3>1. packets'[c] = SubSeq(packets[c], 1, Len(packets[c]) - 1)
      BY <1>1, <2>3, PickTailFront
    <3>2. packets[c] \in Seq(Packet) /\ Len(packets[c]) \in Nat \ {0}
      BY <2>3, ReceivedLast
    <3> QED
      BY <3>1, <3>2, FrontProperties
  <2> QED
    BY <2>5, <2>6
<1>9. HeardOwner'
  <2> SUFFICES ASSUME slot' < SlotPerFrame, NEW c \in present, NEW s \in 0 .. SlotPerFrame - 1,
                      slot_oneHop'[c][s] \in present
               PROVE  slot_occupied[slot_oneHop'[c][s]] = s
    BY <1>1 DEF HeardOwner
  <2>1. slot < SlotPerFrame
    BY <1>1, <1>2
  <2>2. slot_oneHop[c][s] \in present => slot_occupied[slot_oneHop[c][s]] = s
    BY <2>1 DEF HeardInv, HeardOwner
  <2>3. None \notin present
    BY <1>2, ConstantsOK
  <2> QED
    BY <1>5, <1>6, <2>2, <2>3
<1> QED
  BY <1>1, <1>2, <1>3, <1>4, <1>7, <1>8, <1>9 DEF HeardInv

(* A slot with a vehicle in it is one in which a packet came alone and was *)
(* taken off the list; in the first frame that vehicle occupies the slot.  *)
THEOREM OneHopHolds == Spec => []OneHopTruthful
<1>1. Init => HeardInv
  BY InitHeard
<1>2. (IInv /\ ListInv) /\ HeardInv /\ [Next]_vars => HeardInv'
  <2> SUFFICES ASSUME IInv, ListInv, HeardInv, [Next]_vars PROVE HeardInv'
    OBVIOUS
  <2>1. CASE UNCHANGED vars
    <3>1. /\ slot' = slot /\ pc' = pc /\ present' = present /\ packets' = packets
          /\ slot_occupied' = slot_occupied /\ slot_oneHop' = slot_oneHop
      BY <2>1 DEF vars, table, mac, rx
    <3> QED
      BY <3>1 DEF HeardInv, Unheard, HeardAlone, HeardOwner
  <2>2. ASSUME NEW a \in present, Transmit(a) PROVE HeardInv'
    BY <2>2, TransmitHeard
  <2> QED
    BY <2>1, <2>2, UpdateCarsHeard, FrameStartHeard, ReceiveHeard DEF Next
<1>3. HeardInv => OneHopTruthful
  BY DEF HeardInv, HeardAlone, HeardOwner, OneHopTruthful
<1> QED
  BY <1>1, <1>2, <1>3, Invariance, PTL DEF Spec

-----------------------------------------------------------------------------
(* What holds if malloc returns zeroed memory: a new vehicle is a single   *)
(* one without a slot.                                                     *)

ZeroedHeap ==
    FreshVehicles \subseteq
        {[role |-> "single", cond |-> 0, occ |-> 0, radius |-> 0, flag |-> FALSE]}

FirstFrame == slot < SlotPerFrame \/ (slot = SlotPerFrame /\ pc \in {"update", "protocol"})
LaterFrame == slot > SlotPerFrame \/ (slot = SlotPerFrame /\ pc = "slot")

AllSingle == \A c \in present : role[c] = "single"
NoPackets == \A c \in present : packets[c] = << >>

(* No slot is ever drawn outside a frame; so whatever was sent was sent in *)
(* the first frame, when nobody had merged; the first merges come with the *)
(* second frame, when all lists are empty and stay so.                     *)
FrameInv ==
    /\ \A c \in present : slot_occupied[c] < SlotPerFrame
    /\ pc = "protocol" => slot = 0 \/ slot >= SlotPerFrame
    /\ slot = 0 /\ pc # "slot" => NoPackets
    /\ FirstFrame => AllSingle
    /\ LaterFrame => NoPackets
    /\ CountMatchesList /\ PlatoonSlots /\ NoWildWrite

LEMMA InitFrameInv == Init => FrameInv
<1> SUFFICES ASSUME Init PROVE FrameInv
  OBVIOUS
<1>1. slot = 0 /\ pc = "update" /\ present = {} /\ wild = FALSE
  BY Zenon DEF Init
<1> QED
  BY <1>1, ConstantsOK
  DEF FrameInv, NoPackets, AllSingle, FirstFrame, LaterFrame, CountMatchesList, PlatoonSlots,
      NoWildWrite

LEMMA UpdateCarsFrameInv ==
    ASSUME ZeroedHeap, IInv, FrameInv, UpdateCars PROVE FrameInv'
<1>1. PICK recorded \in SUBSET Cars :
         Load((present \cap recorded) \cup Admitted(recorded),
              Admitted(recorded), present \ recorded)
  BY DEF UpdateCars
<1>2. /\ pc = "update" /\ slot' = slot /\ wild' = wild
      /\ pc' = IF slot % SlotPerFrame = 0 THEN "protocol" ELSE "slot"
  BY DEF UpdateCars
<1>3. ASSUME NEW c \in present'
      PROVE  \/ /\ c \in present /\ role'[c] = role[c]
                /\ slot_condition'[c] = slot_condition[c]
                /\ slot_occupied'[c] = slot_occupied[c]
                /\ nItems'[c] = nItems[c] /\ packets'[c] \in Seq(Packet)
                /\ packets[c] \in Seq(Packet) /\ Len(packets'[c]) = Len(packets[c])
             \/ /\ role'[c] = "single" /\ slot_condition'[c] = 0 /\ slot_occupied'[c] = 0
                /\ nItems'[c] = 0 /\ packets'[c] = << >>
  <2>1. CASE c \in Admitted(recorded)
    <3>1. PICK fresh \in [Admitted(recorded) -> FreshVehicles] :
             /\ role'[c] = fresh[c].role /\ slot_condition'[c] = fresh[c].cond
             /\ slot_occupied'[c] = fresh[c].occ
      BY <1>1, <2>1 DEF Load
    <3>2. /\ fresh[c].role = "single" /\ fresh[c].cond = 0 /\ fresh[c].occ = 0
      BY <2>1 DEF ZeroedHeap
    <3>3. nItems'[c] = 0 /\ packets'[c] = << >>
      BY <1>1, <2>1 DEF Load
    <3> QED
      BY <3>1, <3>2, <3>3
  <2>2. CASE c \notin Admitted(recorded)
    <3>1. c \in present
      BY <1>1, <2>2 DEF Load
    <3>2. /\ role'[c] = role[c] /\ slot_condition'[c] = slot_condition[c]
          /\ slot_occupied'[c] = slot_occupied[c] /\ nItems'[c] = nItems[c]
          /\ packets'[c] = Forget(packets[c], present \ recorded)
      BY <1>1, <2>2 DEF Load
    <3>3. packets[c] \in Seq(Packet)
      BY <3>1 DEF IInv, TypeOK
    <3> QED
      BY <3>1, <3>2, <3>3, ForgetProperties
  <2> QED
    BY <2>1, <2>2
<1>4. slot \in Nat /\ SlotPerFrame \in Nat /\ SlotPerFrame > 2
  BY ConstantsOK DEF IInv, TypeOK
<1>5. \A c \in present' : slot_occupied'[c] < SlotPerFrame
  BY <1>3, <1>4 DEF FrameInv
<1>6. pc' = "protocol" => slot = 0 \/ slot >= SlotPerFrame
  BY <1>2, <1>4, FrameModulus
<1>7. NoPackets => NoPackets'
  BY <1>3, EmptySeq DEF NoPackets
<1>8. AllSingle => AllSingle'
  BY <1>3 DEF AllSingle
<1>9. /\ FirstFrame' => FirstFrame
      /\ LaterFrame' => LaterFrame
      /\ slot' = 0 /\ pc' # "slot" => slot = 0 /\ pc # "slot"
  BY <1>2, <1>4, FrameModulus DEF FirstFrame, LaterFrame
<1>10. CountMatchesList'
  BY <1>3, EmptySeq DEF FrameInv, CountMatchesList
<1>11. PlatoonSlots'
  BY <1>3 DEF FrameInv, PlatoonSlots
<1>12. NoWildWrite'
  BY <1>2, Zenon DEF FrameInv, NoWildWrite
<1> QED
  BY <1>2, <1>5, <1>6, <1>7, <1>8, <1>9, <1>10, <1>11, <1>12 DEF FrameInv

LEMMA FrameStartFrameInv ==
    ASSUME IInv, FrameInv, FrameStart PROVE FrameInv'
<1>1. /\ slot_condition' = [c \in present |-> IF c \in Redraws THEN 1 ELSE slot_condition[c]]
      /\ nItems' = [c \in present |-> CountAfterClear(c)]
      /\ packets' = [c \in present |-> << >>]
      /\ pc = "protocol" /\ pc' = "slot" /\ slot' = slot /\ present' = present /\ wild' = wild
  BY DEF FrameStart, table
<1>2. ASSUME NEW c \in present
      PROVE  /\ c \in Mergers => \/ role'[c] = "head" /\ slot_occupied'[c] = HEAD_SLOT
                                 \/ role'[c] = "tail" /\ slot_occupied'[c] = TAIL_SLOT
             /\ c \in Redraws => role'[c] = role[c] /\ slot_occupied'[c] \in RandomSlots
             /\ c \notin Mergers \cup Redraws =>
                    role'[c] = role[c] /\ slot_occupied'[c] = slot_occupied[c]
  <2>1. Mergers \cap Redraws = {}
    BY DEF Mergers, Redraws
  <2> QED
    BY <2>1 DEF FrameStart, MergeRole, MergeSlot
<1>3. /\ slot \in Nat /\ SlotPerFrame \in Nat /\ SlotPerFrame > 2
      /\ HEAD_SLOT < SlotPerFrame /\ TAIL_SLOT < SlotPerFrame
      /\ \A s \in RandomSlots : s < SlotPerFrame
  BY ConstantsOK DEF IInv, TypeOK, RandomSlots
<1>4. \A c \in present' : slot_occupied'[c] < SlotPerFrame
  BY <1>1, <1>2, <1>3 DEF FrameInv
<1>5. NoPackets'
  BY <1>1 DEF NoPackets
<1>6. FirstFrame' => AllSingle'
  <2> SUFFICES ASSUME FirstFrame' PROVE AllSingle'
    OBVIOUS
  <2>1. slot < SlotPerFrame
    BY <1>1 DEF FirstFrame
  <2>2. slot = 0
    BY <1>1, <1>3, <2>1 DEF FrameInv
  <2>3. NoPackets /\ AllSingle
    BY <1>1, <2>1, <2>2 DEF FrameInv, FirstFrame
  <2>4. Mergers = {}
    BY <2>3 DEF Mergers, NoPackets
  <2> QED
    BY <1>1, <1>2, <2>3, <2>4 DEF AllSingle
<1>7. CountMatchesList'
  <2> SUFFICES ASSUME NEW c \in present PROVE CountAfterClear(c) = 0
    BY <1>1, EmptySeq DEF CountMatchesList
  <2>1. nItems[c] = Len(packets[c]) /\ nItems[c] \in Nat
    BY DEF FrameInv, CountMatchesList, IInv, TypeOK
  <2>2. CASE c \in InPlatoon
    <3>1. ~AllSingle
      BY <2>2 DEF InPlatoon, AllSingle
    <3>2. slot > SlotPerFrame
      BY <1>1, <1>3, <3>1 DEF FrameInv, FirstFrame
    <3>3. packets[c] = << >>
      BY <3>2 DEF FrameInv, LaterFrame, NoPackets
    <3> QED
      BY <2>1, <2>2, <3>3, EmptySeq DEF CountAfterClear
  <2>3. CASE c \notin InPlatoon
    BY <2>1, <2>3 DEF CountAfterClear
  <2> QED
    BY <2>2, <2>3
<1>8. PlatoonSlots'
  <2> SUFFICES ASSUME NEW c \in present
               PROVE  /\ role'[c] \in {"single", "head", "tail"} /\ slot_condition'[c] < 2
                      /\ role'[c] = "head" =>
                            slot_occupied'[c] = HEAD_SLOT /\ slot_condition'[c] = 1
                      /\ role'[c] = "tail" =>
                            slot_occupied'[c] = TAIL_SLOT /\ slot_condition'[c] = 1
    BY <1>1 DEF PlatoonSlots
  <2>1. /\ role[c] \in {"single", "head", "tail"} /\ slot_condition[c] < 2
        /\ role[c] = "head" => slot_occupied[c] = HEAD_SLOT /\ slot_condition[c] = 1
        /\ role[c] = "tail" => slot_occupied[c] = TAIL_SLOT /\ slot_condition[c] = 1
    BY DEF FrameInv, PlatoonSlots
  <2>2. slot_condition'[c] = IF c \in Redraws THEN 1 ELSE slot_condition[c]
    BY <1>1
  <2>3. CASE c \in Mergers
    <3>1. slot_condition[c] = 1
      BY <2>3 DEF Mergers
    <3> QED
      BY <1>2, <2>2, <2>3, <3>1
  <2>4. CASE c \in Redraws
    <3>1. role[c] = "single"
      BY <2>4 DEF Redraws
    <3> QED
      BY <1>2, <2>2, <2>4, <3>1
  <2>5. CASE c \notin Mergers \cup Redraws
    BY <1>2, <2>1, <2>2, <2>5
  <2> QED
    BY <2>3, <2>4, <2>5
<1>9. NoWildWrite'
  BY <1>1, Zenon DEF FrameInv, NoWildWrite
<1> QED
  BY <1>1, <1>4, <1>5, <1>6, <1>7, <1>8, <1>9 DEF FrameInv

LEMMA TransmitFrameInv ==
    ASSUME IInv, FrameInv, NEW a \in present, Transmit(a)
    PROVE  FrameInv' /\ slot < SlotPerFrame
<1> DEFINE reached == InRange(a) \ {b \in InRange(a) : slot_occupied[b] = slot_occupied[a]}
           new == [slot |-> slot, src |-> a]
<1>1. /\ pc = "slot" /\ slot_occupied[a] = slot
      /\ packets' = [b \in present |-> IF b \in reached THEN Append(packets[b], new)
                                                         ELSE packets[b]]
      /\ nItems' = [b \in present |-> IF b \in reached THEN nItems[b] + 1 ELSE nItems[b]]
      /\ slot' = slot /\ pc' = pc /\ present' = present /\ slot_occupied' = slot_occupied
      /\ role' = role /\ slot_condition' = slot_condition /\ wild' = wild
  BY DEF Transmit, Transmitters, table, mac
<1>2. slot < SlotPerFrame
  BY <1>1 DEF FrameInv
<1>3. CountMatchesList'
  <2> SUFFICES ASSUME NEW c \in present PROVE nItems'[c] = Len(packets'[c])
    BY <1>1 DEF CountMatchesList
  <2>1. nItems[c] = Len(packets[c]) /\ packets[c] \in Seq(Packet)
    BY DEF FrameInv, CountMatchesList, IInv, TypeOK
  <2>2. new \in Packet
    <3>1. slot \in Nat /\ a \in Cars
      BY ConstantsOK DEF IInv, TypeOK
    <3> QED
      BY <3>1 DEF Packet
  <2> HIDE DEF new, reached
  <2>3. Len(Append(packets[c], new)) = Len(packets[c]) + 1
    BY <2>1, <2>2, AppendProperties
  <2> QED
    BY <1>1, <2>1, <2>3
<1>4. PlatoonSlots'
  BY <1>1 DEF FrameInv, PlatoonSlots
<1>5. /\ \A c \in present' : slot_occupied'[c] < SlotPerFrame
      /\ FirstFrame' => AllSingle'
      /\ ~LaterFrame'
  <2>1. slot \in Nat /\ SlotPerFrame \in Nat
    BY ConstantsOK DEF IInv, TypeOK
  <2> QED
    BY <1>1, <1>2, <2>1 DEF FrameInv, FirstFrame, LaterFrame, AllSingle
<1>6. NoWildWrite'
  BY <1>1, Zenon DEF FrameInv, NoWildWrite
<1> QED
  BY <1>1, <1>2, <1>3, <1>4, <1>5, <1>6 DEF FrameInv

(* After the first frame no list has a packet, so nobody listens.          *)
LEMMA NoListeners ==
    ASSUME IInv, FrameInv, pc = "slot", slot >= SlotPerFrame
    PROVE  NoPackets /\ Listeners = {}
<1>1. slot \in Nat /\ SlotPerFrame \in Nat
  BY ConstantsOK DEF IInv, TypeOK
<1>2. NoPackets
  BY <1>1 DEF FrameInv, LaterFrame
<1>3. \A c \in present : nItems[c] = 0
  BY <1>2, EmptySeq DEF NoPackets, FrameInv, CountMatchesList
<1> QED
  BY <1>2, <1>3 DEF Listeners

LEMMA ReceiveFrameInv ==
    ASSUME IInv, ListInv, FrameInv, Receive PROVE FrameInv'
<1>1. /\ pc = "slot"
      /\ packets' = [c \in present |-> IF c \in Received THEN PickTail(c) ELSE packets[c]]
      /\ nItems' = [c \in present |-> IF c \in Received THEN nItems[c] - 1 ELSE nItems[c]]
      /\ slot' = slot + 1
      /\ (pc' = "done" \/ pc' = PhaseAt(slot + 1))
      /\ UNCHANGED <<present, role, slot_condition, slot_occupied>>
  BY Zenon DEF Receive, table, mac
<1>2. wild' = (wild \/ (slot >= SlotPerFrame /\ Silent \cup Received # {}))
  BY ReceiveWrites
<1>3. slot \in Nat /\ SlotPerFrame \in Nat /\ SlotPerFrame > 2
  BY ConstantsOK DEF IInv, TypeOK
<1>4. slot >= SlotPerFrame => NoPackets /\ Silent = {} /\ Received = {}
  BY <1>1, NoListeners DEF Silent, Received
<1>5. pc' = "protocol" => slot' >= SlotPerFrame
  BY <1>1, <1>3, FrameModulus DEF PhaseAt
<1>6. slot' = SlotPerFrame => pc' # "slot"
  BY <1>1, <1>3, FrameModulus DEF PhaseAt
<1>7. FirstFrame' => AllSingle'
  BY <1>1, <1>3 DEF FirstFrame, AllSingle, FrameInv
<1>8. LaterFrame' => NoPackets'
  <2> SUFFICES ASSUME LaterFrame' PROVE NoPackets'
    OBVIOUS
  <2>1. slot >= SlotPerFrame
    BY <1>1, <1>3, <1>6 DEF LaterFrame
  <2> QED
    BY <1>1, <1>4, <2>1 DEF NoPackets
<1>9. CountMatchesList'
  <2> SUFFICES ASSUME NEW c \in present PROVE nItems'[c] = Len(packets'[c])
    BY <1>1 DEF CountMatchesList
  <2>1. nItems[c] = Len(packets[c])
    BY DEF FrameInv, CountMatchesList
  <2>2. CASE c \in Received
    <3>1. packets[c] \in Seq(Packet) /\ Len(packets[c]) > 0
      BY <2>2, ReceivedLast
    <3>2. Len(PickTail(c)) = Len(packets[c]) - 1
      BY <2>2, <3>1, PickTailFront, FrontProperties
    <3> QED
      BY <1>1, <2>1, <2>2, <3>2
  <2>3. CASE c \notin Received
    BY <1>1, <2>1, <2>3
  <2> QED
    BY <2>2, <2>3
<1>10. NoWildWrite'
  <2>1. slot >= SlotPerFrame => Silent \cup Received = {}
    BY <1>4
  <2> QED
    BY <1>2, <2>1, Zenon DEF FrameInv, NoWildWrite
<1>11. PlatoonSlots' /\ \A c \in present' : slot_occupied'[c] < SlotPerFrame
  BY <1>1 DEF FrameInv, PlatoonSlots
<1> QED
  BY <1>1, <1>3, <1>5, <1>7, <1>8, <1>9, <1>10, <1>11 DEF FrameInv

LEMMA FrameInvariance ==
    ASSUME ZeroedHeap PROVE Spec => []FrameInv
<1>1. Init => FrameInv
  BY InitFrameInv
<1>2. (IInv /\ ListInv) /\ FrameInv /\ [Next]_vars => FrameInv'
  <2> SUFFICES ASSUME IInv, ListInv, FrameInv, [Next]_vars PROVE FrameInv'
    OBVIOUS
  <2>1. CASE UNCHANGED vars
    <3>1. /\ slot' = slot /\ pc' = pc /\ present' = present /\ role' = role
          /\ slot_condition' = slot_condition /\ slot_occupied' = slot_occupied
          /\ packets' = packets /\ nItems' = nItems /\ wild' = wild
      BY <2>1 DEF vars, table, mac, rx
    <3> QED
      BY <3>1 DEF FrameInv, FirstFrame, LaterFrame, AllSingle, NoPackets, CountMatchesList,
                  PlatoonSlots, NoWildWrite
  <2>2. ASSUME NEW a \in present, Transmit(a) PROVE FrameInv'
    BY <2>2, TransmitFrameInv
  <2> QED
    BY <2>1, <2>2, UpdateCarsFrameInv, FrameStartFrameInv, ReceiveFrameInv DEF Next
<1> QED
  BY <1>1, <1>2, Invariance, PTL DEF Spec

(* Heads and tails keep the platoon's slots; no application is confirmed.  *)
THEOREM PlatoonSlotsHold == ASSUME ZeroedHeap PROVE Spec => []PlatoonSlots
<1>1. FrameInv => PlatoonSlots
  BY DEF FrameInv
<1> QED
  BY <1>1, FrameInvariance, PTL

(* slot_oneHop is only indexed with slots of the first frame.              *)
THEOREM NoWildWriteHolds == ASSUME ZeroedHeap PROVE Spec => []NoWildWrite
<1>1. FrameInv => NoWildWrite
  BY DEF FrameInv
<1> QED
  BY <1>1, FrameInvariance, PTL

(* The list heads that are lost are of lists that are empty.               *)
THEOREM CountsMatch == ASSUME ZeroedHeap PROVE Spec => []CountMatchesList
<1>1. FrameInv => CountMatchesList
  BY DEF FrameInv
<1> QED
  BY <1>1, FrameInvariance, PTL

(* The channel is used in the first frame only.                            *)
THEOREM SilenceHolds == ASSUME ZeroedHeap PROVE Spec => SilentAfterFirstFrame
<1> DEFINE Unused == slot >= SlotPerFrame => UNCHANGED counts
<1>1. (IInv /\ ListInv) /\ FrameInv /\ [Next]_vars => [Unused]_vars
  <2> SUFFICES ASSUME IInv, ListInv, FrameInv, Next, slot >= SlotPerFrame
               PROVE  UNCHANGED counts
    OBVIOUS
  <2>1. CASE UpdateCars \/ FrameStart
    BY <2>1 DEF UpdateCars, FrameStart
  <2>2. ASSUME NEW a \in present, Transmit(a) PROVE FALSE
    <3>1. slot < SlotPerFrame /\ slot \in Nat /\ SlotPerFrame \in Nat
      BY <2>2, TransmitFrameInv, ConstantsOK DEF IInv, TypeOK
    <3> QED
      BY <3>1
  <2>3. CASE Receive
    <3>1. Listeners = {}
      BY <2>3, NoListeners DEF Receive
    <3>2. Received = {} /\ Collided = {}
      BY <3>1 DEF Received, Collided
    <3>3. UNION {Logged(c) \X {c} : c \in Collided} = {}
      BY <3>2
    <3>4. /\ cnt_received' = cnt_received + Cardinality(Received)
          /\ cnt_coli' = cnt_coli + Cardinality(UNION {Logged(c) \X {c} : c \in Collided})
          /\ cnt_pkt' = cnt_pkt
      BY <2>3 DEF Receive
    <3>5. Cardinality(Received) = 0
          /\ Cardinality(UNION {Logged(c) \X {c} : c \in Collided}) = 0
      BY <3>2, <3>3, FS_EmptySet, Zenon
    <3>6. cnt_received \in Nat /\ cnt_coli \in Nat
      BY DEF IInv, TypeOK
    <3>7. cnt_received' = cnt_received /\ cnt_coli' = cnt_coli
      BY <3>4, <3>5, <3>6
    <3> QED
      BY <3>4, <3>7 DEF counts
  <2> QED
    BY <2>1, <2>2, <2>3 DEF Next
<1>2. Spec => [][Unused]_vars
  <2> HIDE DEF Unused
  <2> QED
    BY <1>1, Invariance, FrameInvariance, PTL DEF Spec
<1> QED
  BY <1>2 DEF SilentAfterFirstFrame
=============================================================================

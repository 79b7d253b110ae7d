-------------------------- MODULE EventOrder_proofs --------------------------
(***************************************************************************)
(* What EventOrder means: whoever implements it never leaves an event in   *)
(* the past and never turns the clock back.                                *)
(***************************************************************************)
EXTENDS EventOrder, TLAPS

(* No event is ever in the past of the clock of an EventOrder: a handler    *)
(* schedules at the present or later, and the earliest event goes first.    *)
THEOREM NothingLeftBehind == Spec => []NothingInThePast
<1>1. Init => NothingInThePast
  BY DEF Init, NothingInThePast
<1>2. NothingInThePast /\ [Next]_vars => NothingInThePast'
  <2> SUFFICES ASSUME NothingInThePast, [Next]_vars
               PROVE  NothingInThePast'
    OBVIOUS
  <2>1. CASE Schedule
    BY <2>1 DEF Schedule, NothingInThePast
  <2>2. CASE Consume
    BY <2>2 DEF Consume, NothingInThePast
  <2>3. CASE UNCHANGED vars
    BY <2>3 DEF vars, NothingInThePast
  <2> QED  BY <2>1, <2>2, <2>3 DEF Next
<1> QED  BY <1>1, <1>2, PTL DEF Spec

(* Therefore the clock, which takes the time of the event consumed, never   *)
(* runs backwards.                                                          *)
THEOREM ClockMonotone ==
  ASSUME Start \in Int, \A e \in Event : e.timestamp \in Int
  PROVE  Spec => ClockNeverGoesBack
<1> DEFINE ClockInt == clock \in Int /\ \A e \in pending : e.timestamp \in Int
<1>1. Init => ClockInt
  BY DEF Init
<1>2. ClockInt /\ [Next]_vars => ClockInt'
  BY DEF Next, Schedule, Consume, vars
<1>3. NothingInThePast /\ ClockInt /\ [Next]_vars => [clock' >= clock]_vars
  <2> SUFFICES ASSUME NothingInThePast, ClockInt, Next
               PROVE  clock' >= clock
    BY DEF vars
  <2>1. CASE Schedule
    BY <2>1 DEF Schedule
  <2>2. CASE Consume
    BY <2>2 DEF Consume, NothingInThePast
  <2> QED  BY <2>1, <2>2 DEF Next
<1> QED  BY <1>1, <1>2, <1>3, NothingLeftBehind, PTL DEF Spec, ClockNeverGoesBack
=============================================================================

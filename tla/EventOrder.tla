----------------------------- MODULE EventOrder -----------------------------
(***************************************************************************)
(* What a discrete event simulator promises of its event queue, whatever   *)
(* lists it keeps: an event may be scheduled now or later, never in the    *)
(* past, and the event consumed is always one with the smallest timestamp. *)
(***************************************************************************)
EXTENDS Integers

CONSTANTS
    Event,      \* the events
    Start       \* the time at which the simulation starts

VARIABLES
    pending,    \* the set of events that are scheduled
    clock       \* the simulated time

vars == <<pending, clock>>

Init ==
    /\ pending = {}
    /\ clock = Start

\* Any number of events, none of them earlier than the clock.
Schedule ==
    /\ pending \subseteq pending'
    /\ \A e \in pending' \ pending : e \in Event /\ e.timestamp >= clock
    /\ UNCHANGED clock

\* A pending event that no other pending event precedes.
Consume ==
    \E e \in pending :
        /\ \A f \in pending : e.timestamp =< f.timestamp
        /\ pending' = pending \ {e}
        /\ clock' = e.timestamp

Next == Schedule \/ Consume

Spec == Init /\ [][Next]_vars

-----------------------------------------------------------------------------
\* No event is left in the past: the clock never passes an event by.
NothingInThePast == \A e \in pending : e.timestamp >= clock

\* Simulated time never runs backwards.
ClockNeverGoesBack == [][clock' >= clock]_vars

=============================================================================

----------------------------- MODULE EventQueue -----------------------------
(***************************************************************************)
(* The event queue of the DTN simulator (simulator.c, event.c): one sorted *)
(* list of events per time slot, and the simulated clock.                  *)
(*                                                                         *)
(* simulator_init_func allocates one list more than it initialises: the    *)
(* slot of an experiment whose length is no multiple of slotSize is cut    *)
(* short, consume_an_event never looks at it, and its list head is         *)
(* whatever malloc returned.  The model takes the fresh, zeroed page: the  *)
(* list is empty at first and an event that lands there stays for ever.    *)
(***************************************************************************)
EXTENDS Duallist

CONSTANTS
    Event,          \* the events; each has a timestamp
    exprStartAt,    \* the first instant of the experiment
    exprEndAt,      \* the end of the experiment
    slotSize        \* the length of a slot

ASSUME SlotAssumption ==
    /\ exprStartAt \in Nat \ {0}    \* 0 in endAt means "not delivered"
    /\ exprEndAt \in Nat
    /\ exprStartAt =< exprEndAt
    /\ slotSize \in Nat \ {0}
    /\ \A e \in Event : e.timestamp \in Nat

VARIABLES
    eventSlots,     \* slot -> list of events
    clock           \* aSim->clock

SlotCount == (exprEndAt - exprStartAt) \div slotSize

ScannedSlots == 0 .. SlotCount - 1
AllocatedSlots == 0 .. SlotCount

QueueInit ==
    /\ eventSlots = [i \in AllocatedSlots |-> << >>]
    /\ clock = exprStartAt

whichslot(timestamp) == (timestamp - exprStartAt) \div slotSize

\* The events add_event finds a list for: it does not test the slot.
InRange(e) == e.timestamp >= exprStartAt /\ whichslot(e.timestamp) =< SlotCount

event_has_earlier_timestamp_than(e, f) == e.timestamp < f.timestamp

\* Defect: the event goes to the tail of its list.
WithEvent_AtTail(slots, e) ==
    [slots EXCEPT ![whichslot(e.timestamp)] = Append(@, e)]

\* add_event, on a value of eventSlots.
WithEvent(slots, e) ==
    [slots EXCEPT ![whichslot(e.timestamp)] =
        AddInSequenceFromTail(@, e, event_has_earlier_timestamp_than)]

\* Defect: the scan stops one slot early.
NonEmptySlots_Short == {i \in 0 .. SlotCount - 2 : eventSlots[i] # << >>}

NonEmptySlots == {i \in ScannedSlots : eventSlots[i] # << >>}

\* The slot whose head consume_an_event picks, and that head.
FirstSlot == CHOOSE i \in NonEmptySlots : \A j \in NonEmptySlots : i =< j

NextEvent == Head(eventSlots[FirstSlot])

\* consume_an_event up to its call of the handler.
PickEvent ==
    /\ NonEmptySlots # {}
    /\ eventSlots' = [eventSlots EXCEPT ![FirstSlot] = Tail(@)]
    /\ clock' = NextEvent.timestamp

\* The events of some slots; Pending are those consume_an_event will get to.
EventsIn(S) == UNION {Range(eventSlots[i]) : i \in S}
Pending == EventsIn(ScannedSlots)

-----------------------------------------------------------------------------
(***************************************************************************)
(* The queue on its own: a client adds any event that is not in it yet, at *)
(* or after the present, or consumes the next one.                         *)
(***************************************************************************)
AddEvent(e) ==
    /\ InRange(e)
    /\ e.timestamp >= clock
    /\ e \notin EventsIn(AllocatedSlots)
    /\ eventSlots' = WithEvent(eventSlots, e)
    /\ UNCHANGED clock

QueueNext == PickEvent \/ \E e \in Event : AddEvent(e)

QueueSpec == QueueInit /\ [][QueueNext]_<<eventSlots, clock>>

\* What the queue promises: EventOrder, with the scanned slots as its events.
Order == INSTANCE EventOrder WITH pending <- Pending, Start <- exprStartAt

\* Events leave the queue in the order of their timestamps, whichever slots
\* and lists add_event put them in.
ConsumedInOrder == Order!Spec

=============================================================================

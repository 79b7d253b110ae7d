# Verification of BubbleMAC in TLA+

This directory holds TLA+ models of the simulators in this repository, the TLC
configurations that check them on small instances, and proofs of their main
properties for all instances. All paths below are relative to the root of the
repository.

## 1. The system

The repository is a set of single-threaded C simulators of vehicular networks
that share a library of lists, hash tables, geometry and road maps. Nothing is
persisted between steps and nothing runs in parallel. What makes the code hard
is of another kind: state is spread over lists of vehicles that come and go and
point to each other, event handlers run in an order that a queue decides,
protocols run as passes over a mesh of cells in which a
later vehicle sees what an earlier one wrote, and what a protocol is supposed to
do in a frame depends on what several vehicles did in the frame before.

| Component | State | Operations | Interaction |
|---|---|---|---|
| Bubble MAC slot simulator, `src/simulation/bubble_old` | vehicles on the cells of a mesh; each has a role, a slot, a radius, a list of packets, the ids heard in each slot, its nearest front and rear vehicle | `update_cars`, `handle_neighbours`, `bubble_mac_protocol`, `clearPackets`, `handle_transmitter`, `handle_receiver` | the main loop calls them by slot number; vehicles interact through the packets put on each other's lists |
| mmWave link selection, `src/simulation/mmwave/protocol.c` | each car's known neighbours, partner, choice, the cars that chose it | `random_Match`, `COMNET_Match`, `simple_weighted_Match` | runs after discovery, before data exchange |
| mmWave neighbour discovery, same file | role (scan or listen), known neighbours | `COMNET_ND`, `Random_Neighbour_Discovery` | reads `neighbours`, fills `known_neigh` with records of the same lists |
| mmWave beacon intervals, `mmwave.c`, `protocol.c` | data left per neighbour record | `final_bi_protocol_random`, `data_exchange_phase` | the main loop: tables, discovery, links, data; each end of a link sends on its own record and leaves when it is done |
| mmWave vehicle and neighbour tables, `mmwave/function.c` | vehicles, `neighbours`, `history_neigh` | `generate_car`, `handle_neighbour`, `update_vehicle_info`, `update_trans_rate` | the first two every fourth beacon interval; the history carries the data left from one frame to the next |
| Other mmWave protocols | roles, weights, matchings | `IEEE_AD`, `JSAC_17`, `COMNET_V2`, `final_bi_optimal`, blossom | alternatives to the above |
| Rewritten Bubble simulator, `src/simulation/bubble` | vehicles of a SUMO trace | in progress | - |
| DTN events and contacts, `src/simulation/{simulator,event}` | slots of events, the clock | `add_event`, `consume_an_event`, `cnt_event_handler` and a handler per oracle | handlers are callbacks of events; contacts copy packages between nodes |
| DTN nodes and packages, `src/simulation/{node,pkg,traffic}` | storage of each node, meetings, neighbours, packages | `storage_add_pkg`, `storage_remove_pkg`, `node_met_a_node`, `node_recv` | called by the handlers |
| DTN oracles and experiments, `src/simulation/{oracle,exprs}` | estimates, similarities, future contacts | `setup_oracle_*`, `main` | decide which node is the better carrier |
| Lists, hash tables, heaps, `src/common` | links and counts | insert, pick, destroy | used everywhere |
| Graphs, traces, geometry, mobility, GUI, applications, tools | - | offline computations | - |

What makes each component correct:

- *Bubble MAC*: a vehicle transmits in its slot and only there; packets are
  received or collide, and are counted once; the tables that record who was
  heard are right and never overrun; roles change for the reasons the protocol
  gives; nothing is read through a pointer to a vehicle that left.
- *Link selection*: links are mutual and join cars that know each other; a car
  that changes its partner does not lose by it; rounds never undo more than they
  achieve; the passes never follow a NULL partner.
- *Discovery, tables*: a neighbour record is about a vehicle that exists, on
  both sides or on neither; the data left for a neighbour survives a new
  interval.
- *Data exchange*: no more data than there is; a link ends at both ends.
- *DTN*: events are handled in time order; storage stays within its size and
  its usage is what it holds; a package that is moved is in one place and is lost
  only where a storage is full; deliveries are counted right; flooding is
  optimal; a contact with the destination delivers.

The list "hazards" of `PROJECT.json` names the places where these can go wrong.

## 2. What is modelled

### BubbleMac: the slot simulator

`BubbleMac.tla` models the main loop of `bubble_old/bubble.c` (47-70) and every
function it calls. `bubble_old` is written for the version of `struct vehicle`
that `src/trace/trace.h` now keeps as a comment (228-283); the model follows it.

| Action | Code |
|---|---|
| `UpdateCars` | `init_simulation`, `update_cars`, `handle_neighbours`, every `UpLocSlot` slots: recorded vehicles move, vehicles with no record are freed, new ones are admitted every `nFrameSta` frames |
| `FrameStart` | `bubble_mac_protocol` (both passes) and `clearPackets`, at the start of a frame |
| `Transmit(a)` | one transmitter in `handle_transmitter`, in any order (the code's order is that of the mesh) |
| `Receive` | `handle_receiver` for all vehicles, and the step of the loop to the next slot |

`pc` is the part of the loop body that runs next. The functions over vehicles
have the domain `present`, the vehicles that have a struct. Points worth knowing:

- When a vehicle is freed, `packets`, `frontV` and `rearV` of others keep their
  pointers. They become `Freed`, and whatever the code then reads through them is
  chosen arbitrarily (`guess`, `nearer`, `Garbage`).
- `packets` is what the list links and `nItems` what it counts. They are two
  variables because the code overwrites the list head at lines 850, 879 and 907
  (`packets.head = NULL` where a comparison was meant) and leaves the count.
- The fields that `malloc` leaves uninitialised (role, condition, slot, radius,
  flag) come from `FreshVehicles`: only zeroes, or recycled structs.
- `IsFront` has no return for a vehicle that drives along an axis, as all do on
  the straight road modelled here: any answer.
- `slot` is the counter of the whole run, as in the code, which compares it with
  slots of a frame.
- `handle_receiver` counts the packets of the current slot, but takes the one at the
  tail, and both the entry it writes and the id it writes there come from the packet
  it took (450-452): so does `Receive` (`PickedPacket`, `EntryOf`). That this is the
  packet it counted is a consequence of the order of the list, not of the model.
- A write outside `slot_oneHop` sets `wild` and ends the behaviour: the model
  claims nothing about what follows.

Left out: `slot_twoHop` and the snapshots in packets. They are copied into each
other and into collision records, and read for a decision only in `randSlot` and
`applyForSlot`, in branches the three assignments above make unreachable. Left
out too is `history_neigh`, which `bubble_old` never initialises and walks at
lines 161-172 when a vehicle leaves: the model assumes it is empty there.
Logging is reduced to the counters it increments.

### LinkMatch and Matching: the mmWave link selection

`LinkMatch.tla` models `random_Match` (called by `final_bi_protocol_random`,
which `main` calls) and `COMNET_Match` (called by `COMNET_V2`); the constant
`Protocol` selects one.

| Action | Code (`protocol.c`) |
|---|---|
| `Init` | the first pass, 1061-1081 and 1196-1216 |
| `Choose` | every car chooses and tells the chosen one: 1084-1121, 1219-1307 |
| `DecideRandom`, `DecideComnet` | a car links to the car it chose and was chosen by: 1123-1156, 1309-1342 |
| `BreakOld(c)` | one car of the pass that breaks old links, 1344-1367, in any order |

A pass in which no car reads what another one writes is one step. In the pass
that breaks links the order matters, so each car is a step. `Choose` reads
`role`, `choose_car` and the lists only, none of which it writes.

The result of discovery, `known`, may be any directed graph of a set `Graphs`.
One-sided knowledge does occur: `handle_neighbour` makes the lists mutual
(`function.c` 407-431), but then takes a finished neighbour off one of them
(480), and each side discovers its own neighbours. `data_rate` is a value per
record. A read through NULL at line 1358 would end the program: `BreakOld` is
disabled there (`ThroughNull`), and `NoNullRead` says it does not happen.

`Matching.tla` is the abstract specification: the links form a matching; in a
round a new link has an end that was free, and a car loses its link only to a new
link of its old partner. `LinkMatch` implements it under the mapping
`partner <- Link`, where a car whose partner already points to another has no
link. With that mapping the round takes place at the step that decides, and the
pass that breaks links is a stutter. This is a statement about the code: that
pass only cleans up what the decisions already settled.

### BeaconInterval: the mmWave main loop

`BeaconInterval.tla` models `main` of `mmwave/mmwave.c` and what it calls, around
the rounds of `LinkMatch`, which it instantiates as `Match` with
`Protocol <- "random"`. `pc` is the part of the loop that runs next.

| Action | Code |
|---|---|
| `GenerateCar` | `init_simulation`, `generate_car` (`function.c` 5-301): cars of the trace, those that left with their records, the reset of the histories |
| `ListNeighbours` | the first pass of `handle_neighbour` (328-404) |
| `ValidateNeighbours(c)` | one car of the pass that makes the lists mutual (407-431), in any order |
| `FilterNeighbours` | its last pass (469-491): neighbours to which everything has been sent |
| `Discover` | `Random_Neighbour_Discovery` by its result, and the first pass of `random_Match` |
| `random_Match` | the rounds, by the actions of `LinkMatch` |
| `FirstInterval` | `data_exchange_phase` at the end of `final_bi_protocol_random` |
| `LaterInterval` | `update_trans_rate`, `data_exchange_phase`, and at the end of a frame `update_vehicle_info` |

Points worth knowing:

- `packet_num` is the only field of a record that decides anything later; a table
  of records is a function from a car and its neighbours to `packet_num`.
  `known_neigh` holds pointers to the records of `neighbours`, so `known` is a set
  of cars and the data is in `neighbours`.
- A record names the list `Item` of the neighbour, which `generate_car` frees when
  the car is read again. If the allocator hands the same memory back for the
  car's new `Item` (`itemKept`), records keep leading to it. If not, a lookup in a
  history may show anything (`Lookups`). The history is then left empty in the
  model, because nothing that is read depends on it, and the properties about the
  history are stated for `itemKept`.
- `bi_num` counts modulo `RESET`: the code uses it only modulo 200 and modulo
  `BEACON_NUM`. The model asks that the second divides the first.
- Roles other than 2 (linked) are 0: they are redrawn before anything reads them.
  `choice_car` is cleared in `FirstInterval` for the same reason.
- `main` passes `generate_car` other arguments than its definition takes. The
  model is of the function as defined.
- If a record is not found, `data_exchange_phase` runs off the end of a list: the
  two actions are disabled there, so that deadlock checking would find it, and
  `RecordFound` says it does not happen.
- A pair of which one end has sent everything is not linked again until the next
  reset, also when the other end has data left: the finished neighbour is taken
  off one list, and links need both. `FinishedNotLinked` states it.

### EventOrder, EventQueue, Duallist: the events of the DTN simulator

`Duallist.tla` has `duallist_add_in_sequence_from_tail` (`common.c` 174-215) as an
operator on sequences. `EventQueue.tla` models the slots of sorted lists and the
clock: `WithEvent` is `add_event`, `PickEvent` is `consume_an_event` up to its
call of the handler. `simulator_init_func` initialises one list less than it
allocates; an event of the last interval, when the length of the experiment is no
multiple of `slotSize`, lands in that list and is never scanned. The model reads
it as zeroed.

`EventOrder.tla` is the abstract specification: a set of pending events, of
which one with the least timestamp is taken, and a clock. `ConsumedInOrder` says
that the queue implements it, with the events of the scanned slots as the pending
ones. It is proved for `QueueSpec`, in which a client adds one event at a time at
or after the present, and for `DtnSim`, where the setup steps add many events in
one step and handlers add none.

### DtnSim: forwarding over contacts

`DtnSim.tla` models `main` of `exprs/run_adhoc_fwding.c` from the oracle to the
end of its loop.

| Action | Code |
|---|---|
| `SetupOracle` | `setup_oracle` (`oracle.c`), with `setup_neighborhood` |
| `GenerateTraffic` | `generate_v2v_poisson_traffic` (`traffic.c` 40-91) |
| `SetupTrafficEvents` | `setup_adhoc_fwding_traffic_events` (498-524) |
| `SetupCntEvents` | `setup_cnt_events` (`cntEvent.c` 10-54), for any order of the hash table |
| `RecvPkg` | the event of a package: `node_recv` at its source |
| `EpidemicContact`, `BubbleContact`, `SimbetContact`, `GlobalSocialContact`, `MarkovContact`, `AverageContact`, `ZoomContact`, `FutureContact` | `cnt_event_handler` with the handler of the oracle, which relays packages in one direction and then in the other |
| `LeaveLoop` | `consume_an_event` returns 0 |

A handler runs to its end before the next event, so it is one step. `net` is what
the forwarding changes: the storage of each node (`stored`, `usage`), delivery
time and hops of each master package, the counters. The relay functions of
`cntEvent.c` share their control, `RelayPass`, and differ in when a node is a
better carrier.

- Estimates (Markov chains, averages, probabilities) are computations on real
  numbers over a training history. They enter as arbitrary members of
  `Estimates`; what is kept is when they are absent, renewed, looked up and
  compared. Betweenness, and similarity where it is read from a file, are inputs.
  The similarity of the simbet oracle is computed, from the neighbours.
- Utilities of the social oracles are counted in 60ths, which is exact for the
  sums that occur in the instance.
- The weights `alfar` and `beta` are inputs also for the global social oracle,
  for which `main` never sets them.
- `ict` is set for two oracle types and read by the average oracles too: their
  handler does something or nothing, nondeterministically.
- The TTL is left out: `node_recv` frees a package whose TTL is 0 (901), and
  `generate_v2v_poisson_traffic` gives every package -1 (`traffic.c` 87), which
  nothing changes. Routing records count as their length.
- `ict` is -1 for the first contact in a pair's whole list (36-37), which may lie
  before the experiment, inside the training window or not: `metBefore` is the set
  of pairs that have such an earlier contact.
- Excluded by `DtnAssumption`: the zoom oracle with the ever-best method (it reads
  an estimate through a pointer that may be NULL, 861), and packages that start
  after the allocated slots.

## 3. What TLC checks

| Run | Instance | Properties |
|---|---|---|
| `bubble_zeroed` | 3 vehicles, 3 places, frames of 4 slots, position update every 2 slots, admission every 2 frames, 11 slots, zeroed memory | `TypeOK`, `PlatoonSlots`, `NoWildWrite`, `CountMatchesList`, `SilentAfterFirstFrame` |
| `bubble_four` | 4 vehicles, 2 places, frames of 5 slots, 12 slots, zeroed memory | `UndeliveredCollided`, `ReceptionAccounting`, `OneHopTruthful`, `MergeOnlyAfterCollision` |
| `bubble_recycled` | 3 vehicles, 2 places, frames of 4 slots, 9 slots, memory may be a recycled struct | `UndeliveredCollided`, `MergeOnlyAfterCollision` |
| `comnet_three` | 3 cars, every directed graph, rates 1..2 in every table, 3 rounds, 3 classes | `TypeOK`, `PartnerKnown`, `IsolatedPairLinks`, `RateNeverDrops` |
| `comnet_four` | 4 cars that know each other, one rate in 1..2 per pair, 4 rounds, 2 classes | `RoundSymmetric`, `NoNullRead`, `LinksNeverFewer`, `ThroughputNeverDrops`, `MatchingHolds` |
| `random_match` | 4 cars, every directed graph, 3 rounds | `PartnerKnown`, `RoundSymmetric`, `IsolatedPairLinks`, `LinksStay`, `MatchingHolds` |
| `mmwave_intervals` | 3 cars, frames of 3 intervals, a reset every 9, 2 rounds, data for 3 intervals at full rate, a rate of 0 or 2 per car, any lists of neighbours and any discovery | `TypeOK`, `RecordFound`, `NoDanglingRecord`, `FinishedNotLinked`, `DataOnlyFalls` |
| `dtn_forwarding` | 3 nodes, 3 packages, 5 kinds of traffic, every trace of at most 3 of 7 contacts, 8 oracles with the forwarding methods, room for one package, for two or no limit, two scanned slots of two instants and one cut short | `TypeOK`, `StorageConsistent`, `SingleCopy`, `SentIsDelivered`, `ForemostDelivery`, `LostOnlyWhenFull`, `HandedOverOnce`, `PromiseKept`, `ConsumedInOrder`, `MeetingDelivers` |

Why these bounds. A frame needs `HEAD_SLOT`, `TAIL_SLOT` and at least two slots
to draw, or vehicles never meet. Two frames and more are needed for what a frame
leaves to the next one; the last slots of the bubble runs lie in the third frame,
so a vehicle admitted late and one that merged both go through a further
`FrameStart`. A vehicle sees a collision and then receives another packet in the
same frame only with four vehicles and three slots to draw: that is
`bubble_four`. There a receiver that took the head of its list (the mutant
`PickedPlace_First`) would record a vehicle for a slot in which packets collided, and
keep the packet that did not. It takes a receiver, two vehicles that collide and a
third one that is heard later. Three places make two cells that are not adjacent, so that some
vehicles are not neighbours. For links, four cars are the least that form two
pairs, and so the least for a car to be left by a partner while other links
exist; two classes make a car meet several others in a round. The bounds are
`NumSlots` on slots (4000 in the code) and `SELECT_TIME` on rounds (40).

In `mmwave_intervals` three frames lie between two resets: a pair can be
neighbours, separate, and meet again, with a third car to be linked to in
between; and a car can leave while another one has it in its history. A car that
is done before its partner needs rates that differ, one of them 0. The run has no
bound on time: `bi_num` counts modulo `RESET` and the state space is finite. In
`dtn_forwarding` two contacts are the least for a package to take two hops and
three for a copy to arrive a second time; a contact in the slot that is cut short
tells the scanned slots from the allocated ones; two packages compete for a
storage of one, and three are the least for a storage of two to fill up in the
middle of a contact.

`CHECK_DEADLOCK FALSE` where the program ends, and so do the behaviours: the
bubble, link selection and DTN runs. The loop of `mmwave_intervals` does not, and
its run checks for deadlock. Symmetry permutes vehicles, where no temporal formula
beyond an action property or refinement is checked and no constant distinguishes
them.

Fairness is assumed in `DtnSim` only: `WF_dtnVars(Next)`. The simulator is one
thread that runs `main` to its end, so a step that can be taken is taken. It is
needed by `MeetingDelivers` alone: a carrier whose contact with the destination is
among the events still to be consumed delivers, provided copies are kept and the
handler looks at the packages at all. Every other property is a safety property.

Four more runs state what comments of the code say, and TLC shows a behaviour of
the code against each of them ("findings" in `PROJECT.json`):

- `bubble_own_slot`: `handle_transmitter` compares the slot of a vehicle with the
  counter of the whole run (372). After the first frame nobody transmits.
  `SilentAfterFirstFrame`, proved in section 4, is the same fact as a property
  that holds. Changing line 372 alone would expose the writes at lines 446 and
  452, which index a table of one frame with the same counter; that is the
  mutant `Transmitters_InFrame`, which violates `NoWildWrite`.
- `bubble_redraw`: a vehicle that received something draws a new slot as if it
  had heard nobody, because a received packet is taken off the list that line 816
  tests. `MergeOnlyAfterCollision` is the other side of it: only vehicles at
  which packets collided merge.
- `bubble_lonely_head`: a head that heard nobody never becomes single again (the
  assignment at 850).
- `bubble_stale`: a vehicle merges with a sender that has been freed.

With recycled memory (`bubble_recycled`) `NoWildWrite`, `PlatoonSlots`,
`CountMatchesList` and `SilentAfterFirstFrame` do not hold: a vehicle may be born
with a slot beyond the frame, or as a mid. They are therefore stated for zeroed
memory only.

Some properties of the composed models, and where they would break:

- `DataOnlyFalls` relates a frame to any later one before the reset. It rests on
  `update_vehicle_info` both adding new records and updating old ones: with the
  second left out (`Updated_AddOnly`) a pair that meets again starts over.
- `NoDanglingRecord` rests on the one pass that makes the lists mutual: without it
  (`Mutual_Any`) the car that leaves does not know who has it in a history.
- `RecordFound` spans link selection and data exchange: a car that is done drops
  its record and must leave the link in the same step.
- `ForemostDelivery` compares epidemic routing with the earliest journey over
  contacts at increasing times, computed from the trace alone. A package may also
  travel over two contacts of one instant, if their events happen to be in that
  order, and is then faster.
- `HandedOverOnce`: the second direction of a contact reads what the first has just
  moved. A rule that let both nodes be the better carrier (`BubblePass_OrEqual`)
  would send packages straight back. The epidemic oracle does so with everything
  and counts it as traffic; with the ever-best method a copy is compared with a
  value of an earlier contact, and may go back too. Both are outside the property.
- `LostOnlyWhenFull`: the sender drops its copy without looking at what
  `node_recv` returned. A package may so be lost at a node that had room when the
  contact began and was filled during it, which takes a storage of two or more and
  three packages. What holds is that its loss happens in a contact, and that the two
  nodes of that contact together carry more than one storage takes; a smaller bound, "the receiver was full", holds with room for one
  package only.
- `PromiseKept`: under the future-contacts oracle each hand-over brings the next
  contact with the destination forward. It is stated for traces without two
  contacts at one instant. The code counts a contact of the present instant as a
  future one, although its event may be over.
- `SentIsDelivered`: with routes recorded, a package can be counted in `sentPkgs`
  more than once, when a copy with fewer hops arrives at the same instant.

## 4. What is proved

The proofs hold for all values of the constants that satisfy the assumptions of
the modules: for the bubble simulator (`ConstantsOK`, `FreshOK`) any finite set of
vehicles, any frame length above 2 and any number of slots; for the links any
graph, any rates and any number of rounds; for the intervals
(`BeaconAssumption`) any cars, any frame length and reset, any amount of data; for
the queue (`SlotAssumption`) any events and any length of a slot; for the
forwarding experiment (`DtnAssumption`) any finite sets of nodes and packages, any
finite tables of contacts, any oracle, forwarding method, size of a package and of
a storage, and any values of the estimates. `DtnAssumption` says of the inputs
what `main` relies on: the packages are numbered, the trace starts at
`exprStartAt` or later, no package starts after the allocated slots, and a pair with
contacts in the training window has met before.

**BubbleMac_proofs.** The inductive invariant has two parts. `IInv` is `TypeOK`
with what types alone do not give: pointers lead to present vehicles or to
`Freed`, a list is no longer than its count, and where the loop is in a slot.
`ListInv` is about the packets: they are in the order of their slots, none is from
a later slot, a vehicle that transmits holds none of the current slot, a pointer
to a freed vehicle is in a packet of an earlier slot, and `UndeliveredCollided`.
The order is needed because `duallist_pick_tail` takes the last packet: only with
it is that the one of the current slot. From these:

- `TypeCorrect`, `OnlyCollisionsKept`, `MergersCollided`, `AccountHolds` and
  `OneHopHolds`, whatever memory `malloc` returns;
- with `ZeroedHeap` as a hypothesis and a third part, `FrameInv`:
  `PlatoonSlotsHold`, `NoWildWriteHolds`, `CountsMatch`, `SilenceHolds`.
  `FrameInv` says that slots stay below `SlotPerFrame`, that all vehicles are
  single in the first frame, and that all lists are empty in every later one. All
  four theorems need all of it: a vehicle may merge only when the second frame
  begins, and `clearPackets` has by then emptied the lists; nobody fills them
  again, as no slot drawn or assigned reaches the counter; so the heads that the
  three assignments overwrite were NULL, counts stay zero, nobody listens, and no
  table is indexed beyond its end.

In `Receive` the order is what makes the table right: `ReceiveWrites` says that the
entry written is that of the current slot.

Two of the theorems have invariants of their own. `AccountInv` counts: the packets
on the lists are finitely many, `cnt_pkt` grows by the packets that a transmission
puts on lists, and a reception takes off the lists as many as it adds to
`cnt_received` (`OnePlaceEach`: a set of vehicles, each with one place of its list,
has their number). `HeardInv` has the two
halves of `OneHopTruthful`: where a vehicle is recorded no packet of that slot is left
on the list (`HeardAlone`), and in the first frame it occupies the slot
(`HeardOwner`). For the first, nothing is recorded in a slot that is still to come
(`Unheard`), and a packet taken was the only one of its slot. For the second, slots
are drawn once and before anything is heard, nobody is admitted inside the frame
(`NobodyAdmitted`), and the sender of a packet of the current slot occupies that slot.
The argument is about slots only, not about roles, and so needs no zeroed memory.

**LinkMatch_proofs.** The invariant consists of `TypeOK`, `PartnerKnown`, the
rounds left (`Rounds`), of which cars have role 2 (`RoleOfLinked`), of who is told
of a choice and what a linked car chooses (`ChoiceKnown`, `Told`,
`LinkedChoice`), and of two forms of mutuality: `Mutual` outside the pass
that breaks links, and `AlmostMutual` inside it, where a car may point to a
partner that has left for a car that points back. The lemma `Decision` shows that
two cars agree on each other or not at all. The theorems are `TypeCorrect`,
`LinkedKnowEachOther`, `RoundsSymmetric`, `NeverNull`, `RatesNeverDrop`,
`RandomLinksStay`, the refinement `ImplementsMatching`, `LinksNotFewer`,
which follows from the refinement and `LinksNeverDrop`, and
`IsolatedPairLinksHolds`. This one has an invariant over rounds, `IsolatedInv`:
two cars that know nobody else draw each other in the round of their class (the
first one, without classes), have chosen each other when it is decided, and are
partners in every later round, as nobody else can take either away.

**Matching_proofs.** `LinksNeverDrop`: no round of an abstract matching leaves
fewer linked cars, by an injection from the cars that lose their link to the cars
that gain one.

**BeaconInterval_proofs.** The invariant `IInv` has two parts. `LinkInv` is about
the links of a frame: what a car knows is on its list of neighbours
(`KnownListed`), partners know each other (`LinkKnown`), a car that sends knows
its partner even after that one has left the link (`RoleKnown`), and links are
chosen among neighbours with data left on both sides (`AllUnfinished`).
`HistoryInv`, for kept items, says that two histories list each other or neither
does (`HistoryMutual`), that they name cars of the region only, that lists of
neighbours are mutual after the pass that makes them so (`ValidatedMutual`), and
that a neighbour which is new since the reset is on both lists, with all data left
when it is listed (`NewMutual`, `NewHasAll`), so that both histories take it in
together. That the histories are mutual is what makes it enough to follow the
history of the car that leaves. From `IInv` follow `RecordFoundHolds`,
`NoDanglingRecordHolds` and `FinishedNotLinkedHolds`. `DataOnlyFallsHolds` needs
two more parts: `FrameInv`, where `bi_num` is in a frame, and `AgreeInv`, that a
list of neighbours and the history agree on what is left when a frame begins and
when it ends. `TypeOKHolds` has `RangeInv`: a car with role 2 has something left to
send, so that what is subtracted in an interval keeps `packet_num` among the values
that `BeaconAssumption` closes under it, and the tables that lookups and discovery
fill in stay tables of such values.

**ListLemmas.** What the proofs about lists need, for any type of element and any
key: least and greatest members, sorted and distinct sequences, insertion and
removal at a place, the ranges of both, and folds. Induction over a list is out
of the prover's reach as a rule with a predicate as its parameter; here it is done
over a set of places: the set of those up to which a property holds has a greatest
member (`LargestIndex`), which the step of the fold moves on unless it is the last
(`FoldExists` gives the intermediate values of a fold as a function).

**EventQueue_proofs.** `ConsumedInOrderHolds`: `QueueSpec` implements `EventOrder`.
The invariant `QueueInv` says that every list is sorted by time, has no event
twice, and holds events of its own slot (`SlotsOK`). Two lemmas carry the weight:
insertion (`WithEventSlots`: `duallist_add_in_sequence_from_tail` keeps a list
sorted and adds just the one element) and `SlotsInOrder` (an event of an earlier
slot is earlier). Together they make the head of the first slot that is not empty
an earliest event. `EventsAdded` is the same for a whole sequence of additions, as
the setup steps of `DtnSim` make them.

**DtnSim_proofs.** The inductive invariant `DtnInv` is

- `DtnTypes` and `QueueInv`, with no pending event in the past: so the clock, which
  dates deliveries, never goes back;
- before the loop of `main` the network is untouched and the clock at the start;
- `Good(net, clock)`: the network is well typed, `Consistent` as
  `StorageConsistent` has it, deliveries are dated with a positive time that is
  not in the future, `sentPkgs` is related to the packages delivered;
- `OneCopy(net)` under `SingleCopyRule`;
- `EventsInv`: a pending event is a contact of the trace or the arrival of a package
  that has left no trace yet, and no package has two arrivals. Without it the copy
  made by `RecvPkg` could be a second one.

The heart is a pass of a relay function (`PassInv`), stated for a prefix of the
sender's list: which packages have moved, were delivered or dropped, and how many
hand-overs were counted, by comparison with the network when the pass began. The
list that is walked changes during the pass, so the invariant also says that the
copies still to come are at their sender. `PassStep` takes it over one copy for
each of the methods and `PassAll` over the fold. A contact is two passes
(`Contacted`), the second from the network that the first one left. That no
package goes both ways rests on a preference `pref` for each direction (a better
utility, a later estimate, an earlier next contact, the destination itself) of
which the two directions exclude each other; each handler has a lemma of its own
that exhibits it. From `DtnInv` follow `TypeOKHolds`, `StorageConsistentHolds`,
`SentIsDeliveredHolds` and `SingleCopyHolds`; from the description of a step
(`StepEffect`) the action properties `LostOnlyWhenFullHolds` and
`HandedOverOnceHolds`; and from `EventsAdded` and `EventPicked` the refinement
`SimConsumedInOrderHolds`.

`PromiseKeptHolds` needs the queue and the network together. `ContactsQueued`: once
the loop runs, every contact of the trace that is still to come is in the queue. So
what the oracle finds in the lists of meetings is a contact that will happen, and
`NoTwoAtOnce` leaves out the one case in which it would not, a contact of the present
instant. `PassMove` and `ContactMove` say where a contact leaves a package that it
moves; `SoonerMeeting` that a carrier that is preferred has a contact with the
destination to come that is sooner than any given one of the old carrier;
`OnlyCarrier` that nobody else carries the package. Hence a contact delivers a
package or only brings its promise forward (`FuturePromise`), and the arrival of
another package leaves it alone (`RecvPromise`).

`ForemostDeliveryHolds` compares the network at the end with a recursive function of
the trace (`ReachedBy`). `ReachedByIs` shows that the recursion has the equations it
is written with, by building it up one instant after the other; from them follow
`ReachedGrows` and `HadGrows`. The invariant `FloodInv` is about a run of the epidemic
oracle with room everywhere. A package is either `Early`, delivered no later than at
any instant at which its destination is reached, or `Spread`: not delivered, with its
source if its arrival has been consumed, and with both ends of every consumed contact
of which one end had it in the reckoning. `SpreadReaches`: if everything up to an
instant is consumed, `Spread` puts the package at every node reached by then, so a
delivery cannot be late. The other bound is `InTime`, with `NoTwoAtOnce`: nobody
carries a package who does not have it in the reckoning by the next contact.

Both need an order that timestamps alone do not give: the arrival of a package at the
instant of a contact comes first. It holds because `main` adds the packages before the
contacts and `add_event` puts an event behind those of its time. `LoopQueue` says it
for the whole queue (`TiesBehind`, kept by `EventsAddedTies` and `PickTies`), and that
each contact has one event (`OneEvent`). `EpidemicFloods` is what the two passes of a
contact do to one package: it is delivered or gets to both ends, and to nobody else.

**EventOrder_proofs.** `NothingLeftBehind` and `ClockMonotone`: in the abstract
queue no waiting event is in the past, and so the clock never goes back (the
second with the start and the timestamps integers).

Only model-checked: `MeetingDelivers`, which is liveness under fairness and not for
this prover; and `ThroughputNeverDrops`, which `comnet_four` checks for tables in which
both ends of a link have one rate. The code does not guarantee that: it computes a rate
per record, from the distance, which is the same for both ends, and from how far the
car's own beam is off, which need not be. A car that leaves its partner for an equal
rate may then take more from the partner than it brings to the car it joins.
`RatesNeverDrop`, about the car that changes its partner, needs no such assumption and
is proved.

## 5. What is not modelled, and the plan

### Not modelled

More than nine tenths of the C code of the repository are copies of third-party
libraries (igraph with glpk, lapack and f2c under `src/graph/igraph-0.6`, cliquer
under `src/apps/sybil`): numerical and graph algorithms with no protocol state.
The simulators are about eleven thousand lines of C. The models cover their cores;
of the rest a good part reads files and prints results.

- Geometry, beams, SNR and rates are computations on real numbers; they enter as
  arbitrary sets. So do Markov chains, averages and the betweenness of nodes.
- `IEEE_AD`, `JSAC_17`, `COMNET_V2`, `COMNET_ND`, `simple_weighted_Match`,
  `final_bi_optimal`, the blossom matchings and `AD_exchange_data`: no call of
  `main` reaches them at this commit. Of these only `COMNET_Match`, the link
  selection of `COMNET_V2`, is modelled, on its own.
- `src/simulation/bubble` calls functions that do not exist yet.
- `exprs/run_data_dissemination.c` (painters) and the bus network share the
  queue and the nodes; their own events count and print.
- Vehicle-to-place traffic, routing paths and graphs of packages: no handler of
  the modelled experiment reads them.
- The links of lists, hash tables and heaps: the models use the sequences and sets
  they represent.
- Result logs, GUI, map and trace tools and the separate applications have no
  protocol state.

### Plan

Done: the slot simulator, both link selections with their abstract matching, the
beacon intervals with the neighbour tables, the event queue with its abstract
order, and the forwarding experiment. Left, in order of importance:

1. `simple_weighted_Match` and `JSAC_17` as further protocols of `LinkMatch`.
2. `Duallist` as links and count, with the sequence it represents as its abstract
   specification, and `duallist_pick_item` during a walk.
3. Termination of the link selection, and of a handler that walks a list it
   removes from.

---------------------------- MODULE MCBubbleMac ----------------------------
(* Small instances of BubbleMac: a frame of few slots, a road of few places *)
(* that spans several cells, all vehicles driving the same way.             *)
EXTENDS BubbleMac, TLC

SameWay == [c \in Cars |-> 1]

(* malloc returns zeroed memory: a single vehicle without a slot.           *)
Zeroed == {[role |-> "single", cond |-> 0, occ |-> 0, radius |-> 0, flag |-> FALSE]}

(* malloc returns the struct of a vehicle that was freed: a head or a tail, *)
(* or a single vehicle that has drawn a slot; or memory of other use.       *)
Recycled == Zeroed \cup
    {[role |-> "tail", cond |-> 1, occ |-> TAIL_SLOT, radius |-> 1, flag |-> FALSE],
     [role |-> "mid", cond |-> 2, occ |-> 1, radius |-> 1, flag |-> TRUE],
     [role |-> "other", cond |-> 3, occ |-> SlotPerFrame, radius |-> 2, flag |-> FALSE]}

Symmetry == Permutations(Cars)
============================================================================

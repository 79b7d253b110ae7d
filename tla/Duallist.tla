------------------------------ MODULE Duallist ------------------------------
(***************************************************************************)
(* The sorted lists of common.c.  A struct Duallist is a sequence of its   *)
(* data pointers; the links and the item count are not modelled.           *)
(***************************************************************************)
EXTENDS Integers, Sequences, SequencesExt

(***************************************************************************)
(* duallist_add_in_sequence_from_tail: walk from the tail while the new    *)
(* datum sorts before the one in the list, and put it behind the first     *)
(* one that it does not sort before (at the head when there is none).  A   *)
(* tie is therefore kept in the order of insertion.  \prec is sort_func.    *)
(***************************************************************************)
AddInSequenceFromTail(list, datap, _ \prec _) ==
    LET notAfter == {i \in DOMAIN list : ~ (datap \prec list[i])}
    IN  InsertAt(list, 1 + (IF notAfter = {} THEN 0 ELSE Max(notAfter)), datap)

=============================================================================

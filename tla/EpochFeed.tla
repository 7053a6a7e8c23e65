----------------------------- MODULE EpochFeed -----------------------------
(***************************************************************************)
(* What the relayers of one direction promise together, whatever happens   *)
(* to their processes, transactions and nodes: the hub's latest epoch only *)
(* goes up, only to epochs whose first block is confirmed, and every       *)
(* confirmed epoch is recorded in the end.                                 *)
(***************************************************************************)
EXTENDS Integers

CONSTANTS EpochLength, Confirmations, FirstHead, MaxHead

VARIABLES
    head,       \* number of the source chain's last block
    recorded    \* the target hub's latest epoch of the source chain

vars == <<head, recorded>>

Init == head = FirstHead /\ recorded = 0

Grow ==
    /\ head < MaxHead
    /\ head' = head + 1
    /\ UNCHANGED recorded

Confirmed(e) == e * EpochLength + Confirmations <= head

Record ==
    /\ \E e \in recorded + 1 .. MaxHead : Confirmed(e) /\ recorded' = e
    /\ UNCHANGED head

Next == Grow \/ Record

Spec == Init /\ [][Next]_vars /\ WF_vars(Record)
=============================================================================

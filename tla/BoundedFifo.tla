---------------------------- MODULE BoundedFifo ----------------------------
(***************************************************************************)
(* What a packet ring promises its two users: a first-in first-out queue   *)
(* that never holds more than Bound packets.  A batch goes in whole at the *)
(* back, a batch comes out whole at the front, nothing is lost, duplicated *)
(* or reordered in between.                                                *)
(***************************************************************************)
EXTENDS Naturals, Sequences

CONSTANTS Item, Bound

VARIABLE queue

Init == queue = <<>>

Put ==
    /\ queue' \in Seq(Item)
    /\ Len(queue) <= Len(queue')
    /\ Len(queue') <= Bound
    /\ SubSeq(queue', 1, Len(queue)) = queue

Get ==
    \E k \in 1..Len(queue) : queue' = SubSeq(queue, k + 1, Len(queue))

Next == Put \/ Get

Spec == Init /\ [][Next]_queue
=============================================================================

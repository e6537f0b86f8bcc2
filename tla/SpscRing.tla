------------------------------ MODULE SpscRing ------------------------------
(***************************************************************************)
(* The DPDK ring in its single-producer / single-consumer mode, as the     *)
(* packet rings of libmoon use it (RING_F_SP_ENQ | RING_F_SC_DEQ).         *)
(*                                                                         *)
(* Both sides work in two phases.  The producer first moves prod.head,     *)
(* which fixes how many objects it will add, copies the objects and only   *)
(* then moves prod.tail, which makes them visible.  The consumer does the  *)
(* same with cons.head and cons.tail.  Each side reads the other side's    *)
(* tail once, when it moves its own head, so a count may be stale when it  *)
(* is used.                                                                *)
(*                                                                         *)
(* The slots and the four counters are abstracted to                       *)
(*   ring     the objects in cons.tail .. prod.tail                        *)
(*   pending  the objects in prod.tail .. prod.head                        *)
(*   taken    the distance from cons.tail to cons.head                     *)
(*   slots    r->size; one slot always stays empty                         *)
(***************************************************************************)
EXTENDS Naturals, Sequences

VARIABLES slots, ring, pending, taken

ringVars == <<slots, ring, pending, taken>>

\* Objects of a sequence.
Elems(s) == {s[i] : i \in 1..Len(s)}

\* rte_ring_count: prod.tail - cons.tail.
rte_ring_count == Len(ring)

\* capacity + cons.tail - prod.head, the room the producer sees.
FreeEntries == (slots - 1) - (Len(ring) + Len(pending))

\* How many objects an operation moves: RTE_RING_QUEUE_FIXED is all or
\* nothing, RTE_RING_QUEUE_VARIABLE is as many as there are.
FixedCount(n, avail) == IF n > avail THEN 0 ELSE n
VariableCount(n, avail) == IF n > avail THEN avail ELSE n

\* Before any enqueue: nothing stored.
RingEmpty ==
    /\ ring = <<>>
    /\ pending = <<>>
    /\ taken = 0

\* __rte_ring_move_prod_head and ENQUEUE_PTRS for the first k objects.
MoveProdHead(objs, k) ==
    /\ pending' = SubSeq(objs, 1, k)
    /\ UNCHANGED <<slots, ring, taken>>

\* Mutant: new objects become visible in front of the old ones.
UpdateProdTail_AtFront ==
    /\ ring' = pending \o ring
    /\ pending' = <<>>
    /\ UNCHANGED <<slots, taken>>

\* update_tail(&r->prod).
UpdateProdTail ==
    /\ ring' = ring \o pending
    /\ pending' = <<>>
    /\ UNCHANGED <<slots, taken>>

\* __rte_ring_move_cons_head by k.
MoveConsHead(k) ==
    /\ taken' = k
    /\ UNCHANGED <<slots, ring, pending>>

\* DEQUEUE_PTRS reads these objects.
Dequeued == SubSeq(ring, 1, taken)

\* update_tail(&r->cons).
UpdateConsTail ==
    /\ ring' = SubSeq(ring, taken + 1, Len(ring))
    /\ taken' = 0
    /\ UNCHANGED <<slots, pending>>
=============================================================================

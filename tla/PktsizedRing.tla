---------------------------- MODULE PktsizedRing ----------------------------
(***************************************************************************)
(* The packet-sized ring (libmoon/src/pktsizedring.cpp): a DPDK ring whose *)
(* capacity is a number of packets.  One task feeds it (receive of the     *)
(* l2-forward scripts), one task drains it (forward).                      *)
(*                                                                         *)
(* The producer reads the count, decides, moves prod.head, moves prod.tail *)
(* and frees what did not fit; the consumer runs between any two of these. *)
(* Every mbuf is in one place: the memory pool, the producer's array, the  *)
(* ring, or the hands of the consumer.                                     *)
(***************************************************************************)
EXTENDS SpscRing

CONSTANTS
    Mbufs,              \* the mbufs of the memory pool
    RequestedCapacity,  \* argument of create_psring
    PS_RING_SIZE_LIMIT, \* largest capacity granted (pktsizedring.hpp)
    MaxBatch            \* largest n any caller passes

ASSUME PktsizedRingAssumption ==
    /\ RequestedCapacity \in Nat
    /\ PS_RING_SIZE_LIMIT \in Nat
    /\ MaxBatch \in Nat

VARIABLES
    pc,         \* where the producer is
    op,         \* which enqueue function it runs
    obj,        \* the array of mbufs it passed
    count,      \* the count it read
    num_added,  \* objects the ring accepted from obj
    pool,       \* free mbufs
    held        \* mbufs dequeued and not yet freed by the consumer

prodVars == <<pc, op, obj, count, num_added>>
vars == <<ringVars, prodVars, pool, held>>

\* psr->capacity: the request, cut to the limit.
capacity ==
    IF RequestedCapacity > PS_RING_SIZE_LIMIT
    THEN PS_RING_SIZE_LIMIT
    ELSE RequestedCapacity

\* No object occurs twice in a sequence.
Distinct(s) == \A i, j \in 1..Len(s) : s[i] = s[j] => i = j

\* The batches that can be received into free mbufs.
Batches(S) ==
    {s \in UNION {[1..n -> S] : n \in 1..MaxBatch} : Distinct(s)}

Init ==
    /\ slots = 1
    /\ RingEmpty
    /\ pc = "create"
    /\ op = "none"
    /\ obj = <<>>
    /\ count = 0
    /\ num_added = 0
    /\ pool = Mbufs
    /\ held = {}
-----------------------------------------------------------------------------
(* create_psring *)

\* Mutant: the slot that must stay empty is forgotten.
MoreSlots_NoSpare == slots < capacity

\* The condition of the doubling loop.
MoreSlots == slots < capacity + 1

\* The doubling loop that finds the size of the rte_ring.
DoubleSlots ==
    /\ pc = "create"
    /\ MoreSlots
    /\ slots' = 2 * slots
    /\ UNCHANGED <<ring, pending, taken, prodVars, pool, held>>

\* rte_ring_create succeeds.
RingCreated ==
    /\ pc = "create"
    /\ ~MoreSlots
    /\ pc' = "ready"
    /\ UNCHANGED <<ringVars, op, obj, count, num_added, pool, held>>

\* rte_ring_create fails: create_psring returns NULL and all a caller can
\* do is to start again.
RingNotCreated ==
    /\ pc = "create"
    /\ ~MoreSlots
    /\ slots' = 1
    /\ UNCHANGED <<ring, pending, taken, prodVars, pool, held>>
-----------------------------------------------------------------------------
(* The producer *)

\* A batch of packets arrives: mbufs leave the pool.
Receive ==
    /\ pc = "ready"
    /\ obj = <<>>
    /\ \E s \in Batches(pool) :
        /\ obj' = s
        /\ pool' = pool \ Elems(s)
    /\ UNCHANGED <<ringVars, pc, op, count, num_added, held>>

\* Every enqueue function starts by reading the count of the ring.
ReadCount(f) ==
    /\ pc = "ready"
    /\ obj # <<>>
    /\ op' = f
    /\ count' = rte_ring_count
    /\ pc' = "counted"
    /\ UNCHANGED <<ringVars, obj, num_added, pool, held>>

\* The array goes to rte_ring_sp_enqueue*, which accepts the first k.
Enqueue(k) ==
    /\ num_added' = k
    /\ MoveProdHead(obj, k)
    /\ UNCHANGED <<op, obj, count, pool, held>>

\* psring_enqueue_bulk returns 0: the mbufs stay with the caller.
ReturnRefused ==
    /\ pc' = "ready"
    /\ num_added' = 0
    /\ UNCHANGED <<ringVars, op, obj, count, pool, held>>

psring_enqueue_bulk ==
    /\ pc = "counted"
    /\ op = "bulk"
    /\ LET n == Len(obj)
       IN  IF count + n < capacity /\ n <= FreeEntries
           THEN Enqueue(n) /\ pc' = "publish"
           ELSE ReturnRefused

\* The early return over capacity leaves the mbufs unfreed, and the caller of
\* a burst never looks at its array again: they would be lost.
ReturnOverCapacity ==
    /\ obj' = <<>>
    /\ pc' = "ready"
    /\ UNCHANGED <<ringVars, op, count, num_added, pool, held>>

psring_enqueue_burst ==
    /\ pc = "counted"
    /\ op = "burst"
    /\ LET n == Len(obj)
           num_to_add == IF count + n > capacity THEN capacity - count ELSE n
           k == VariableCount(num_to_add, FreeEntries)
       IN  IF count > capacity
           THEN ReturnOverCapacity
           ELSE /\ Enqueue(k)
                /\ pc' = IF k > 0 THEN "publish" ELSE "free"

psring_enqueue ==
    /\ pc = "counted"
    /\ op = "one"
    /\ LET k == IF count + 1 <= capacity THEN FixedCount(1, FreeEntries) ELSE 0
       IN  /\ Enqueue(k)
           /\ pc' = IF k > 0 THEN "publish" ELSE "free"

\* rte_ring_sp_enqueue* moves prod.tail.
Publish ==
    /\ pc = "publish"
    /\ UpdateProdTail
    /\ pc' = "free"
    /\ UNCHANGED <<op, obj, count, num_added, pool, held>>

\* The mbufs of obj that the ring did not accept.
Leftover == {obj[i] : i \in (num_added + 1)..Len(obj)}

\* Mutant: the freeing loop is missing.
FreeLeftover_Missing ==
    /\ pc = "free"
    /\ obj' = <<>>
    /\ num_added' = 0
    /\ pc' = "ready"
    /\ UNCHANGED <<ringVars, op, count, pool, held>>

\* The trailing loop of burst and the last lines of psring_enqueue free what
\* did not make it in (bulk leaves nothing over here); then return.
FreeLeftover ==
    /\ pc = "free"
    /\ pool' = pool \cup Leftover
    /\ obj' = <<>>
    /\ num_added' = 0
    /\ pc' = "ready"
    /\ UNCHANGED <<ringVars, op, count, held>>

\* After a refused bulk the caller may give the mbufs up (bufs:freeAll).
CallerFrees ==
    /\ pc = "ready"
    /\ obj # <<>>
    /\ pool' = pool \cup Elems(obj)
    /\ obj' = <<>>
    /\ UNCHANGED <<ringVars, pc, op, count, num_added, held>>
-----------------------------------------------------------------------------
(* The consumer *)

psring_dequeue_bulk ==
    /\ pc # "create"
    /\ taken = 0
    /\ \E n \in 1..MaxBatch :
        /\ FixedCount(n, Len(ring)) > 0
        /\ MoveConsHead(FixedCount(n, Len(ring)))
    /\ UNCHANGED <<prodVars, pool, held>>

psring_dequeue_burst ==
    /\ pc # "create"
    /\ taken = 0
    /\ \E n \in 1..MaxBatch :
        /\ VariableCount(n, Len(ring)) > 0
        /\ MoveConsHead(VariableCount(n, Len(ring)))
    /\ UNCHANGED <<prodVars, pool, held>>

psring_dequeue ==
    /\ pc # "create"
    /\ taken = 0
    /\ FixedCount(1, Len(ring)) > 0
    /\ MoveConsHead(FixedCount(1, Len(ring)))
    /\ UNCHANGED <<prodVars, pool, held>>

\* rte_ring_sc_dequeue* copies the objects and moves cons.tail.
DequeueReturns ==
    /\ taken > 0
    /\ held' = held \cup Elems(Dequeued)
    /\ UpdateConsTail
    /\ UNCHANGED <<prodVars, pool>>

\* The consumer's packet has been sent and its mbuf freed.
ConsumerFrees ==
    /\ \E m \in held :
        /\ held' = held \ {m}
        /\ pool' = pool \cup {m}
    /\ UNCHANGED <<ringVars, prodVars>>
-----------------------------------------------------------------------------
Create == DoubleSlots \/ RingCreated \/ RingNotCreated

Producer ==
    \/ Receive
    \/ ReadCount("bulk")
    \/ ReadCount("burst")
    \/ Len(obj) = 1 /\ ReadCount("one")
    \/ psring_enqueue_bulk
    \/ psring_enqueue_burst
    \/ psring_enqueue
    \/ Publish
    \/ FreeLeftover
    \/ CallerFrees

Consumer ==
    \/ psring_dequeue_bulk
    \/ psring_dequeue_burst
    \/ psring_dequeue
    \/ DequeueReturns
    \/ ConsumerFrees

Next == Create \/ Producer \/ Consumer

Spec == Init /\ [][Next]_vars
-----------------------------------------------------------------------------
(* Properties *)

\* Type invariant.
TypeOK ==
    /\ slots \in Nat \ {0}
    /\ ring \in Seq(Mbufs)
    /\ pending \in Seq(Mbufs)
    /\ taken \in Nat
    /\ pc \in {"create", "ready", "counted", "publish", "free"}
    /\ op \in {"none", "bulk", "burst", "one"}
    /\ obj \in Seq(Mbufs)
    /\ count \in Nat
    /\ num_added \in Nat
    /\ pool \in SUBSET Mbufs
    /\ held \in SUBSET Mbufs

\* The ring never holds more than capacity packets, counting those being
\* published, although the enqueue functions decide on a count that the
\* consumer may have made stale (lines 43, 50 and 68).
WithinCapacity == Len(ring) + Len(pending) <= capacity

\* Burst and single enqueue drop a packet only if the ring was filled to its
\* capacity as the producer counted it: the DPDK ring that create_psring
\* sized is never the tighter limit ("enqueue whatever there is space for").
DropOnlyWhenFull ==
    pc = "free" /\ num_added < Len(obj) => count + num_added = capacity

\* The mbufs the producer still owns: what the ring accepted has left it.
ProducerOwns == Leftover

\* The mbufs that are in the ring, published or not.
InRing == Elems(ring \o pending)

\* Every mbuf has exactly one owner.  None is lost on any path through the
\* enqueue functions, none is freed while it is in the ring, none is in the
\* ring twice.
OneOwner ==
    /\ Mbufs = pool \cup held \cup ProducerOwns \cup InRing
    /\ pool \cap held = {}
    /\ (pool \cup held) \cap (ProducerOwns \cup InRing) = {}
    /\ ProducerOwns \cap InRing = {}
    /\ Distinct(ring \o pending)

\* What the users of the ring rely on: packets leave in the order in which
\* they arrived and at most capacity of them wait.
Fifo == INSTANCE BoundedFifo WITH Item <- Mbufs, Bound <- capacity, queue <- ring
FifoSpec == Fifo!Spec
=============================================================================

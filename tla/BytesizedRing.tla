---------------------------- MODULE BytesizedRing ---------------------------
(***************************************************************************)
(* The byte-sized ring (libmoon/src/bytesizedring.cpp): a DPDK ring whose  *)
(* capacity is a number of bytes.  The bytes in the ring are counted in    *)
(* the atomic bytes_used, which the producer increases after it has        *)
(* published a batch and the consumer decreases after it has dequeued one, *)
(* packet by packet.  Between the two the counter and the ring disagree,   *)
(* and the consumer may even take the counter below zero (it is unsigned   *)
(* and wraps) when it is faster than the producer.                         *)
(***************************************************************************)
EXTENDS SpscRing, Integers

CONSTANTS
    Mbufs,               \* the mbufs of the memory pool
    Capacity,            \* bsr->capacity, in bytes
    MinFrame,            \* 60: the shortest frame create_bsring reckons with
    BS_RING_SIZE_LIMIT,  \* largest ring (bytesizedring.hpp)
    PktLens,             \* the lengths packets may have
    MaxBatch,            \* largest n any caller passes
    Ops,                 \* the enqueue functions in use
    MaxRetries,          \* bound on the bursts that enter their retry loop
    W                    \* the counter is an integer modulo W (2^32)

\* The last conjunct: the 32-bit total_size of a batch cannot wrap.
ASSUME BytesizedRingAssumption ==
    /\ Capacity \in Nat
    /\ MinFrame \in Nat \ {0}
    /\ PktLens \subseteq Nat
    /\ \A l \in PktLens : l >= MinFrame
    /\ Ops \subseteq {"bulk", "burst", "one"}
    /\ BS_RING_SIZE_LIMIT \in Nat \ {0}
    /\ {MaxBatch, MaxRetries} \subseteq Nat
    /\ W \in Nat /\ W > 2 * Capacity
    /\ \E max \in PktLens :
          (\A l \in PktLens : l <= max) /\ Capacity + MaxBatch * max < W

VARIABLES
    bytes_used,  \* the atomic counter
    pkt_len,     \* length of the packet in each mbuf
    call,        \* the producer's enqueue call: its place and its locals
    deq,         \* consumer: dequeued packets still to be subtracted
    pool,        \* free mbufs
    held,        \* mbufs dequeued and not yet freed by the consumer
    retries      \* history: bursts that entered their retry loop

vars == <<ringVars, bytes_used, pkt_len, call, deq, pool, held, retries>>

\* The producer between two calls.
NoCall == [pc |-> "ready", op |-> "none", obj |-> <<>>, num_to_add |-> 0,
           num_added |-> 0, bytes_added |-> 0, bytes_remaining |-> 0, i |-> 0]

\* Bytes of a sequence of mbufs.
Bytes(s) ==
    LET sum[n \in 0..Len(s)] == IF n = 0 THEN 0 ELSE sum[n - 1] + pkt_len[s[n]]
    IN  sum[Len(s)]

\* An unsigned difference read as a signed int.
ToInt(x) == LET u == x % W IN IF 2 * u >= W THEN u - W ELSE u

\* No object occurs twice in a sequence.
Distinct(s) == \A x, y \in 1..Len(s) : s[x] = s[y] => x = y

\* The batches that can be received into free mbufs.
Batches(S) ==
    {s \in UNION {[1..n -> S] : n \in 1..MaxBatch} : Distinct(s)}

Init ==
    /\ slots = 1
    /\ RingEmpty
    /\ bytes_used = 0
    /\ \E l \in PktLens : pkt_len = [m \in Mbufs |-> l]
    /\ call = [NoCall EXCEPT !.pc = "create"]
    /\ deq = <<>>
    /\ pool = Mbufs
    /\ held = {}
    /\ retries = 0
-----------------------------------------------------------------------------
(* create_bsring *)

\* Mutant: the ring is asked for without the slot a DPDK ring keeps empty.
MoreSlots_NoSpare == slots < Capacity \div MinFrame /\ slots <= BS_RING_SIZE_LIMIT

\* The condition of the loop that doubles count.
MoreSlots == slots - 1 < Capacity \div MinFrame /\ slots <= BS_RING_SIZE_LIMIT

\* The doubling loop.
DoubleSlots ==
    /\ call.pc = "create"
    /\ MoreSlots
    /\ slots' = 2 * slots
    /\ UNCHANGED <<ring, pending, taken, bytes_used, pkt_len, call, deq, pool, held, retries>>

\* A ring over the limit is halved, then created.
RingCreated ==
    /\ call.pc = "create"
    /\ ~MoreSlots
    /\ slots' = IF slots > BS_RING_SIZE_LIMIT THEN slots \div 2 ELSE slots
    /\ call' = NoCall
    /\ UNCHANGED <<ring, pending, taken, bytes_used, pkt_len, deq, pool, held, retries>>

\* rte_ring_create fails, NULL is returned, a caller can only start again.
RingNotCreated ==
    /\ call.pc = "create"
    /\ ~MoreSlots
    /\ slots' = 1
    /\ UNCHANGED <<ring, pending, taken, bytes_used, pkt_len, call, deq, pool, held, retries>>
-----------------------------------------------------------------------------
(* The producer: what the enqueue functions share *)

\* A batch of packets arrives and is passed to one of the enqueue functions.
Receive ==
    /\ call.pc = "ready" /\ retries < MaxRetries
    /\ \E s \in Batches(pool), f \in Ops :
        /\ f = "one" => Len(s) = 1
        /\ call' = [NoCall EXCEPT !.pc = "check", !.op = f, !.obj = s]
        /\ pool' = pool \ Elems(s)
        /\ \E l \in [Elems(s) -> PktLens] :
            pkt_len' = [m \in Mbufs |-> IF m \in Elems(s) THEN l[m] ELSE pkt_len[m]]
    /\ UNCHANGED <<ringVars, bytes_used, deq, held, retries>>

\* Mutant: the dropped mbufs are not freed.
DropAll_Missing ==
    /\ call' = NoCall
    /\ UNCHANGED <<ringVars, bytes_used, pkt_len, deq, pool, held, retries>>

\* Free the whole array and return 0.
DropAll ==
    /\ pool' = pool \cup Elems(call.obj)
    /\ call' = NoCall
    /\ UNCHANGED <<ringVars, bytes_used, pkt_len, deq, held, retries>>

\* A step that changes only the producer's locals.
Local(c) ==
    /\ call' = c
    /\ UNCHANGED <<ringVars, bytes_used, pkt_len, deq, pool, held, retries>>

\* Hand the first k objects to the DPDK ring.
Enqueue(k, next) ==
    /\ MoveProdHead(call.obj, k)
    /\ call' = [call EXCEPT !.num_added = k, !.pc = IF k > 0 THEN "publish" ELSE next]
    /\ UNCHANGED <<bytes_used, pkt_len, deq, pool, held, retries>>

\* Mutant: total_size is not reset before it is summed up again.
Publish_NotReset ==
    /\ call.pc = "publish"
    /\ UpdateProdTail
    /\ call' = [call EXCEPT !.pc = IF call.op = "burst" THEN "rest" ELSE "account",
                            !.bytes_added = Bytes(call.obj)
                                + Bytes(SubSeq(call.obj, 1, call.num_added))]
    /\ UNCHANGED <<bytes_used, pkt_len, deq, pool, held, retries>>

\* rte_ring_sp_enqueue* moves prod.tail; the bytes it added are summed up.
Publish ==
    /\ call.pc = "publish"
    /\ UpdateProdTail
    /\ call' = [call EXCEPT !.pc = IF call.op = "burst" THEN "rest" ELSE "account",
                            !.bytes_added = Bytes(SubSeq(call.obj, 1, call.num_added))]
    /\ UNCHANGED <<bytes_used, pkt_len, deq, pool, held, retries>>

\* Last step of each function: bytes_used += bytes_added, and return.
Account ==
    /\ call.pc = "account"
    /\ bytes_used' = (bytes_used + call.bytes_added) % W
    /\ call' = NoCall
    /\ UNCHANGED <<ringVars, pkt_len, deq, pool, held, retries>>
-----------------------------------------------------------------------------
(* bsring_enqueue_bulk and bsring_enqueue *)

\* Mutant: only the bytes already there are compared with the capacity.
bsring_enqueue_bulk_NoSize ==
    /\ call.pc = "check"
    /\ call.op = "bulk"
    /\ IF bytes_used > Capacity
       THEN DropAll
       ELSE Local([call EXCEPT !.pc = "enqueue"])

\* Mutant: room for one more frame is kept free.
bsring_enqueue_bulk_Reserve ==
    /\ call.pc = "check"
    /\ call.op = "bulk"
    /\ IF (bytes_used + Bytes(call.obj) + MinFrame) % W > Capacity
       THEN DropAll
       ELSE Local([call EXCEPT !.pc = "enqueue"])

\* The room is tested against the counter.
bsring_enqueue_bulk ==
    /\ call.pc = "check"
    /\ call.op = "bulk"
    /\ IF (bytes_used + Bytes(call.obj)) % W > Capacity
       THEN DropAll
       ELSE Local([call EXCEPT !.pc = "enqueue"])

bsring_enqueue ==
    /\ call.pc = "check"
    /\ call.op = "one"
    /\ IF (bytes_used + Bytes(call.obj)) % W < Capacity
       THEN Local([call EXCEPT !.pc = "enqueue"])
       ELSE DropAll

\* rte_ring_sp_enqueue(_bulk): all or nothing.  What "should not happen" frees
\* the mbufs.
EnqueueFixed ==
    /\ call.pc = "enqueue"
    /\ IF Len(call.obj) <= FreeEntries
       THEN Enqueue(Len(call.obj), "account")
       ELSE DropAll
-----------------------------------------------------------------------------
(* bsring_enqueue_burst *)

\* Count the packets of the prefix that fits; the last one counted may have
\* been one too many.
BurstPrefix ==
    /\ call.pc = "check"
    /\ call.op = "burst"
    /\ LET n == Len(call.obj)
           room(k) == ToInt(Capacity - bytes_used) - Bytes(SubSeq(call.obj, 1, k))
           counted == CHOOSE k \in 0..n :
                        /\ k = n \/ room(k) <= 0
                        /\ \A x \in 0..(k - 1) : room(x) > 0
       IN  Local([call EXCEPT
                    !.num_to_add = IF room(counted) < 0 THEN counted - 1 ELSE counted,
                    !.pc = "enqueue_burst"])

BurstEnqueue ==
    /\ call.pc = "enqueue_burst"
    /\ Enqueue(VariableCount(call.num_to_add, FreeEntries), "rest")

\* Free the part of the prefix the ring refused.  If anything is left over,
\* read the counter again and try the rest packet by packet.
BurstRest ==
    /\ call.pc = "rest"
    /\ pool' = pool \cup
            {call.obj[n] : n \in (call.num_added + 1)..call.num_to_add}
    /\ call' = IF call.num_added < Len(call.obj)
               THEN [call EXCEPT
                        !.bytes_remaining = ToInt(Capacity - bytes_used - call.bytes_added),
                        !.i = call.num_to_add + 1,
                        !.pc = "retry"]
               ELSE [call EXCEPT !.pc = "account"]
    /\ retries' = IF call.num_added < Len(call.obj) THEN retries + 1 ELSE retries
    /\ UNCHANGED <<ringVars, bytes_used, pkt_len, deq, held>>

Retrying ==
    /\ call.pc = "retry"
    /\ call.i <= Len(call.obj)
    /\ call.bytes_remaining >= MinFrame

\* The packet does not fit: free it.
BurstRetryTooLong ==
    /\ Retrying
    /\ pkt_len[call.obj[call.i]] > call.bytes_remaining
    /\ pool' = pool \cup {call.obj[call.i]}
    /\ call' = [call EXCEPT !.i = @ + 1]
    /\ UNCHANGED <<ringVars, bytes_used, pkt_len, deq, held, retries>>

\* The packet fits and goes to rte_ring_sp_enqueue, which returns 0 when it
\* has added the packet and an error when the ring is full.  The branch for
\* an added packet is taken on the error.
BurstRetryEnqueue ==
    LET len == pkt_len[call.obj[call.i]]
    IN  /\ Retrying
        /\ len <= call.bytes_remaining
        /\ IF FreeEntries >= 1
           THEN /\ MoveProdHead(<<call.obj[call.i]>>, 1)
                /\ call' = [call EXCEPT !.pc = "retry_publish"]
           ELSE /\ call' = [call EXCEPT !.num_added = @ + 1,
                                        !.bytes_added = @ + len,
                                        !.bytes_remaining = @ - len,
                                        !.i = @ + 1]
                /\ UNCHANGED ringVars
        /\ UNCHANGED <<bytes_used, pkt_len, deq, pool, held, retries>>

BurstRetryPublish ==
    /\ call.pc = "retry_publish"
    /\ UpdateProdTail
    /\ call' = [call EXCEPT !.pc = "retry_free"]
    /\ UNCHANGED <<bytes_used, pkt_len, deq, pool, held, retries>>

\* The enqueue returned 0, so the packet that has just been added is freed.
BurstRetryFree ==
    /\ call.pc = "retry_free"
    /\ pool' = pool \cup {call.obj[call.i]}
    /\ call' = [call EXCEPT !.i = @ + 1, !.pc = "retry"]
    /\ UNCHANGED <<ringVars, bytes_used, pkt_len, deq, held, retries>>

\* The retry loop ends at the end of the array, or when not even the shortest
\* frame would fit.
BurstRetryEnds ==
    /\ call.pc = "retry"
    /\ ~Retrying
    /\ Local([call EXCEPT !.pc = "account"])
-----------------------------------------------------------------------------
(* The consumer *)

Dequeue(k) ==
    /\ call.pc # "create"
    /\ taken = 0
    /\ deq = <<>>
    /\ k > 0
    /\ MoveConsHead(k)
    /\ UNCHANGED <<bytes_used, pkt_len, call, deq, pool, held, retries>>

bsring_dequeue_burst == \E n \in 1..MaxBatch : Dequeue(VariableCount(n, Len(ring)))

bsring_dequeue_bulk == \E n \in 1..MaxBatch : Dequeue(FixedCount(n, Len(ring)))

bsring_dequeue == Dequeue(FixedCount(1, Len(ring)))

\* The packets leave the ring ...
DequeueReturns ==
    /\ taken > 0
    /\ deq' = Dequeued
    /\ UpdateConsTail
    /\ UNCHANGED <<bytes_used, pkt_len, call, pool, held, retries>>

\* ... and only then are their bytes subtracted, one packet at a time.
Subtract ==
    /\ deq # <<>>
    /\ bytes_used' = (bytes_used - pkt_len[Head(deq)]) % W
    /\ held' = held \cup {Head(deq)}
    /\ deq' = Tail(deq)
    /\ UNCHANGED <<ringVars, pkt_len, call, pool, retries>>

\* The consumer's packet has been sent and its mbuf freed.
ConsumerFrees ==
    /\ \E m \in held :
        /\ held' = held \ {m}
        /\ pool' = pool \cup {m}
    /\ UNCHANGED <<ringVars, bytes_used, pkt_len, call, deq, retries>>
-----------------------------------------------------------------------------
Create == DoubleSlots \/ RingCreated \/ RingNotCreated

Bulk == bsring_enqueue_bulk \/ bsring_enqueue \/ EnqueueFixed

Burst ==
    \/ BurstPrefix \/ BurstEnqueue \/ BurstRest
    \/ BurstRetryTooLong \/ BurstRetryEnqueue \/ BurstRetryPublish
    \/ BurstRetryFree \/ BurstRetryEnds

Producer == Receive \/ Bulk \/ Burst \/ Publish \/ Account

Consumer ==
    \/ bsring_dequeue_burst \/ bsring_dequeue_bulk \/ bsring_dequeue
    \/ DequeueReturns \/ Subtract \/ ConsumerFrees

Next == Create \/ Producer \/ Consumer

Spec == Init /\ [][Next]_vars
-----------------------------------------------------------------------------
(* Properties *)

\* Type invariant.
TypeOK ==
    /\ slots \in Nat \ {0}
    /\ ring \in Seq(Mbufs) /\ pending \in Seq(Mbufs) /\ taken \in 0..Len(ring)
    /\ bytes_used \in 0..(W - 1)
    /\ pkt_len \in [Mbufs -> PktLens]
    /\ call.obj \in Seq(Mbufs)
    /\ call.num_added \in 0..Len(call.obj)
    /\ call.bytes_added \in Nat
    /\ deq \in Seq(Mbufs)
    /\ pool \in SUBSET Mbufs
    /\ held \in SUBSET Mbufs

\* The four properties that follow speak of the ring until a burst first enters
\* its retry loop (line 123), which frees packets it has added and does not count
\* them: see FreedNotAdded and LeftoverFreed.

\* "Limits the number of bytes it can hold" (lines 10-11): the packets in the
\* ring, those being published included, never have more bytes than Capacity,
\* although the producer decides on a counter that two threads are changing.
WithinBytes == retries > 0 \/ Bytes(ring \o pending) <= Capacity

\* The bytes in the ring are known exactly once the additions and the
\* subtractions under way are taken into account; with both sides idle the
\* counter is the number of bytes in the ring.
CounterExact ==
    LET toAdd == IF call.pc \in {"rest", "account"} THEN call.bytes_added ELSE 0
    IN  retries > 0 \/ (bytes_used + toAdd) % W = (Bytes(ring) + Bytes(deq)) % W

\* A packet is refused only for want of room: a counter that the consumer has
\* taken below zero, and which therefore looks huge, is never compared with
\* the capacity.
DropsJustified ==
    [][retries = 0 /\ call.pc = "check" /\ call'.pc = "ready" =>
            Bytes(ring) + Bytes(deq) + Bytes(call.obj) >= Capacity]_vars

\* Mbufs of the array that still belong to the producer.
ProducerOwns ==
    CASE call.pc \in {"check", "enqueue", "enqueue_burst"} -> Elems(call.obj)
      [] call.pc \in {"publish", "rest"} ->
            {call.obj[n] : n \in (call.num_added + 1)..Len(call.obj)}
      [] OTHER -> {}

\* Every mbuf has exactly one owner, whichever functions are used: none is lost
\* and none is freed while it is in the ring.
OneOwner ==
    LET inRing == Elems(ring \o pending)
        taken2 == Elems(deq)
    IN  retries > 0 \/
        /\ Mbufs = pool \cup held \cup ProducerOwns \cup inRing \cup taken2
        /\ pool \cap (held \cup ProducerOwns \cup inRing \cup taken2) = {}
        /\ held \cap (ProducerOwns \cup inRing \cup taken2) = {}
        /\ ProducerOwns \cap (inRing \cup taken2) = {}
        /\ Distinct(deq \o ring \o pending)

\* "This should not happen" (lines 66 and 149): create_bsring makes the ring
\* large enough that a packet which fits by its bytes finds a slot.
SlotsSuffice == retries = 0 /\ call.pc = "enqueue" => Len(call.obj) <= FreeEntries

\* A burst never adds more to the counter than the capacity leaves, although
\* it reads the counter twice while the consumer is lowering it, and the
\* number of objects it passes to the DPDK ring is never negative (it is
\* unsigned: a -1 would be 2^32 - 1 objects).
CounterBounded ==
    /\ ToInt(bytes_used + call.bytes_added) <= Capacity
    /\ call.num_to_add \in 0..Len(call.obj)

\* "Free any mbufs that don't get added" (line 119): no mbuf is in the free
\* pool while it is in the ring.
FreedNotAdded == pool \cap Elems(ring \o pending) = {}

\* "Free any mbufs that don't get added" (line 119): when a burst returns, its
\* mbufs are in the ring, with the consumer, or free.
LeftoverFreed ==
    call.pc = "account" =>
        Elems(call.obj) \subseteq Elems(ring \o pending) \cup Elems(deq) \cup held \cup pool

\* Packets leave the ring in the order in which they arrived, whichever
\* enqueue function is used, and the DPDK ring is never overfilled.
Fifo == INSTANCE BoundedFifo WITH Item <- Mbufs, Bound <- BS_RING_SIZE_LIMIT, queue <- ring
FifoSpec == Fifo!Spec
=============================================================================

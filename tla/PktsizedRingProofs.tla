------------------------- MODULE PktsizedRingProofs -------------------------
(***************************************************************************)
(* Proofs about the packet-sized ring, for every set of mbufs, every       *)
(* requested capacity and every batch size.                                *)
(***************************************************************************)
EXTENDS PktsizedRing, SequenceTheorems, TLAPS

\* What the producer knows at each point of an enqueue function.  The count
\* it read may be stale, but only upwards: the consumer can only have removed
\* packets since.
ProducerKnows ==
    /\ pc = "create" => RingEmpty /\ obj = <<>>
    /\ pc # "create" => capacity < slots
    /\ pc # "publish" => pending = <<>>
    /\ pc \in {"create", "ready", "counted"} => num_added = 0
    /\ pc = "counted" => Len(ring) <= count /\ count <= capacity
    /\ pc = "counted" /\ op = "one" => Len(obj) = 1
    /\ num_added <= Len(obj)
    /\ pc = "publish" => pending = SubSeq(obj, 1, num_added)
    /\ pc \in {"publish", "free"} /\ num_added < Len(obj)
            => count + num_added = capacity

\* The inductive invariant behind the capacity of the ring.
CapacityInv ==
    /\ TypeOK
    /\ taken <= Len(ring)
    /\ WithinCapacity
    /\ ProducerKnows
-----------------------------------------------------------------------------
\* A received batch is a sequence of distinct mbufs of the pool.
LEMMA BatchIsSeq ==
    ASSUME NEW S, NEW s \in Batches(S)
    PROVE  /\ s \in Seq(S)
           /\ Distinct(s)
           /\ Elems(s) \subseteq S
<1>1. PICK n \in 1..MaxBatch : s \in [1..n -> S]
  BY Zenon DEF Batches
<1>2. n \in Nat
  BY PktsizedRingAssumption
<1>3. s \in Seq(S) /\ Len(s) = n
  BY <1>1, <1>2
<1>4. QED
  BY <1>1, <1>2, <1>3, Zenon DEF Batches, Elems

\* The capacity granted is a number.
LEMMA CapacityNat == capacity \in Nat
  BY PktsizedRingAssumption, Zenon DEF capacity

\* The first k objects of a sequence, and the rest.
LEMMA PrefixFacts ==
    ASSUME NEW S, NEW s \in Seq(S), NEW k \in 0..Len(s)
    PROVE  /\ SubSeq(s, 1, k) \in Seq(S)
           /\ Len(SubSeq(s, 1, k)) = k
           /\ \A i \in 1..k : SubSeq(s, 1, k)[i] = s[i]
           /\ k = 0 => SubSeq(s, 1, k) = <<>>
<1>1. Len(s) \in Nat
  OBVIOUS
<1>2. \A i \in 1..k : i \in 1..Len(s)
  BY <1>1
<1>3. SubSeq(s, 1, k) \in Seq(S) /\ Len(SubSeq(s, 1, k)) = k
  BY <1>1, <1>2
<1>4. QED
  BY <1>1, <1>3

\* The rest of a sequence after its first k objects.
LEMMA SuffixFacts ==
    ASSUME NEW S, NEW s \in Seq(S), NEW k \in 0..Len(s)
    PROVE  /\ SubSeq(s, k + 1, Len(s)) \in Seq(S)
           /\ Len(SubSeq(s, k + 1, Len(s))) = Len(s) - k
           /\ \A i \in 1..(Len(s) - k) : SubSeq(s, k + 1, Len(s))[i] = s[k + i]
<1>1. Len(s) \in Nat /\ k \in Nat
  OBVIOUS
<1>2. SubSeq(s, k + 1, Len(s)) \in Seq(S) /\ Len(SubSeq(s, k + 1, Len(s))) = Len(s) - k
  BY <1>1
<1>3. QED
  BY <1>1, <1>2

\* Init establishes the inductive invariant.
LEMMA CapacityInit == Init => CapacityInv
  BY CapacityNat
     DEF Init, RingEmpty, CapacityInv, TypeOK, WithinCapacity, ProducerKnows

\* Sizing the ring (create_psring).
LEMMA CapacityCreate == CapacityInv /\ Create => CapacityInv'
<1> SUFFICES ASSUME CapacityInv, Create PROVE CapacityInv'
  BY Zenon
<1> USE CapacityNat DEF CapacityInv, TypeOK, WithinCapacity, ProducerKnows,
                        RingEmpty, prodVars, ringVars
<1>1. CASE DoubleSlots
  BY <1>1 DEF DoubleSlots, MoreSlots
<1>2. CASE RingCreated
  BY <1>2 DEF RingCreated, MoreSlots
<1>3. CASE RingNotCreated
  BY <1>3 DEF RingNotCreated, MoreSlots
<1>4. QED
  BY <1>1, <1>2, <1>3, Zenon DEF Create

\* The steps of the producer.
LEMMA CapacityProducer == CapacityInv /\ Producer => CapacityInv'
<1> SUFFICES ASSUME CapacityInv, Producer PROVE CapacityInv'
  BY Zenon
<1> USE CapacityNat DEF CapacityInv, TypeOK, WithinCapacity, ProducerKnows,
                        RingEmpty, ringVars
<1>1. CASE Receive
  <2>1. PICK s \in Batches(pool) : obj' = s /\ pool' = pool \ Elems(s)
    BY <1>1, Zenon DEF Receive
  <2>2. s \in Seq(pool)
    BY <2>1, BatchIsSeq, Zenon
  <2>3. obj' \in Seq(Mbufs) /\ Len(obj') \in Nat
    BY <2>1, <2>2
  <2>4. QED
    BY <1>1, <2>1, <2>3 DEF Receive
<1>2. CASE \/ ReadCount("bulk")
           \/ ReadCount("burst")
           \/ Len(obj) = 1 /\ ReadCount("one")
  BY <1>2, SMTT(30) DEF ReadCount, rte_ring_count
<1>3. CASE psring_enqueue_bulk
  <2>1. CASE count + Len(obj) < capacity /\ Len(obj) <= FreeEntries
    <3>1. Enqueue(Len(obj)) /\ pc' = "publish"
      BY <1>3, <2>1, Zenon DEF psring_enqueue_bulk
    <3>2. /\ SubSeq(obj, 1, Len(obj)) \in Seq(Mbufs)
          /\ Len(SubSeq(obj, 1, Len(obj))) = Len(obj)
      BY PrefixFacts
    <3>3. QED
      BY <1>3, <2>1, <3>1, <3>2 DEF psring_enqueue_bulk, Enqueue, MoveProdHead
  <2>2. CASE ~(count + Len(obj) < capacity /\ Len(obj) <= FreeEntries)
    BY <1>3, <2>2, Zenon DEF psring_enqueue_bulk, ReturnRefused
  <2>3. QED
    BY <2>1, <2>2, Zenon
<1>4. CASE psring_enqueue_burst
  <2> DEFINE n == Len(obj)
             num_to_add == IF count + n > capacity THEN capacity - count ELSE n
             k == VariableCount(num_to_add, FreeEntries)
  <2>1. pc = "counted" /\ Len(ring) <= count /\ count <= capacity
    BY <1>4, Zenon DEF psring_enqueue_burst
  <2>2. Enqueue(k) /\ pc' = IF k > 0 THEN "publish" ELSE "free"
    BY <1>4, <2>1 DEF psring_enqueue_burst
  <2>3. /\ k = num_to_add
        /\ k \in 0..n
        /\ Len(ring) + k <= capacity
        /\ k < n => count + k = capacity
    BY <2>1 DEF VariableCount, FreeEntries
  <2> HIDE DEF k
  <2>4. /\ SubSeq(obj, 1, k) \in Seq(Mbufs)
        /\ Len(SubSeq(obj, 1, k)) = k
        /\ k = 0 => SubSeq(obj, 1, k) = <<>>
    <3>1. obj \in Seq(Mbufs) /\ k \in 0..Len(obj)
      BY <2>3, Zenon
    <3>2. QED
      BY ONLY <3>1, PrefixFacts, Zenon
  <2>5. QED
    BY <2>1, <2>2, <2>3, <2>4 DEF Enqueue, MoveProdHead
<1>5. CASE psring_enqueue
  <2> DEFINE k == IF count + 1 <= capacity THEN FixedCount(1, FreeEntries) ELSE 0
  <2>1. pc = "counted" /\ Len(ring) <= count /\ count <= capacity /\ Len(obj) = 1
    BY <1>5, Zenon DEF psring_enqueue
  <2>2. Enqueue(k) /\ pc' = IF k > 0 THEN "publish" ELSE "free"
    BY <1>5, Zenon DEF psring_enqueue
  <2>3. /\ k \in 0..1
        /\ Len(ring) + k <= capacity
        /\ k < 1 => count + k = capacity
    BY <2>1 DEF FixedCount, FreeEntries
  <2> HIDE DEF k
  <2>4. /\ SubSeq(obj, 1, k) \in Seq(Mbufs)
        /\ Len(SubSeq(obj, 1, k)) = k
        /\ k = 0 => SubSeq(obj, 1, k) = <<>>
    <3>1. obj \in Seq(Mbufs) /\ k \in 0..Len(obj)
      BY <2>1, <2>3, Zenon
    <3>2. QED
      BY ONLY <3>1, PrefixFacts, Zenon
  <2>5. QED
    BY <2>1, <2>2, <2>3, <2>4 DEF Enqueue, MoveProdHead
<1>6. CASE Publish
  BY <1>6, ConcatProperties DEF Publish, UpdateProdTail
<1>7. CASE FreeLeftover
  BY <1>7 DEF FreeLeftover, Leftover
<1>8. CASE CallerFrees
  BY <1>8 DEF CallerFrees, Elems
<1>9. QED
  BY <1>1, <1>2, <1>3, <1>4, <1>5, <1>6, <1>7, <1>8, Zenon DEF Producer

\* The steps of the consumer.
LEMMA CapacityConsumer == CapacityInv /\ Consumer => CapacityInv'
<1> SUFFICES ASSUME CapacityInv, Consumer PROVE CapacityInv'
  BY Zenon
<1> USE CapacityNat DEF CapacityInv, TypeOK, WithinCapacity, ProducerKnows,
                        RingEmpty, ringVars, prodVars
<1>1. CASE psring_dequeue_bulk
  BY <1>1, PktsizedRingAssumption, SMTT(30)
     DEF psring_dequeue_bulk, MoveConsHead, FixedCount
<1>2. CASE psring_dequeue_burst
  BY <1>2, PktsizedRingAssumption
     DEF psring_dequeue_burst, MoveConsHead, VariableCount
<1>3. CASE psring_dequeue
  BY <1>3 DEF psring_dequeue, MoveConsHead, FixedCount
<1>4. CASE DequeueReturns
  <2>1. /\ ring' = SubSeq(ring, taken + 1, Len(ring))
        /\ ring' \in Seq(Mbufs)
        /\ Len(ring') = Len(ring) - taken
    BY <1>4, SuffixFacts, SMTT(30) DEF DequeueReturns, UpdateConsTail
  <2>2. Elems(Dequeued) \subseteq Mbufs
    BY <1>4, PrefixFacts, SMTT(30) DEF DequeueReturns, Dequeued, Elems
  <2>3. pc # "create"
    BY <1>4 DEF DequeueReturns
  <2>4. QED
    BY <1>4, <2>1, <2>2, <2>3, SMTT(30) DEF DequeueReturns, UpdateConsTail
<1>5. CASE ConsumerFrees
  BY <1>5 DEF ConsumerFrees
<1>6. QED
  BY <1>1, <1>2, <1>3, <1>4, <1>5, Zenon DEF Consumer

\* Every step preserves the inductive invariant.
LEMMA CapacityNext == CapacityInv /\ [Next]_vars => CapacityInv'
<1>1. CapacityInv /\ UNCHANGED vars => CapacityInv'
  BY Zenon DEF vars, prodVars, ringVars, CapacityInv, TypeOK, WithinCapacity,
         ProducerKnows, RingEmpty
<1>2. QED
  BY <1>1, CapacityCreate, CapacityProducer, CapacityConsumer, Zenon DEF Next

\* The inductive invariant holds in every reachable state.
THEOREM CapacityInvariance == Spec => []CapacityInv
  BY CapacityInit, CapacityNext, PTL DEF Spec

\* Type correctness of the packet-sized ring.
THEOREM TypeCorrect == Spec => []TypeOK
<1>1. CapacityInv => TypeOK
  BY Zenon DEF CapacityInv
<1>2. QED
  BY <1>1, CapacityInvariance, PTL

\* For every capacity the ring never holds more packets than that, however
\* the consumer interleaves with the count a producer works from.
THEOREM CapacityRespected == Spec => []WithinCapacity
<1>1. CapacityInv => WithinCapacity
  BY Zenon DEF CapacityInv
<1>2. QED
  BY <1>1, CapacityInvariance, PTL

\* For every capacity, burst and single enqueue free a packet only when the
\* count the producer read plus what it added is the capacity.
THEOREM DropsOnlyWhenFull == Spec => []DropOnlyWhenFull
<1>1. CapacityInv => DropOnlyWhenFull
  BY Zenon DEF CapacityInv, ProducerKnows, DropOnlyWhenFull
<1>2. QED
  BY <1>1, CapacityInvariance, PTL
-----------------------------------------------------------------------------
(* Ownership of the mbufs *)

\* The objects of a concatenation, and when they are distinct.
LEMMA ConcatElems ==
    ASSUME NEW S, NEW s \in Seq(S), NEW t \in Seq(S)
    PROVE  /\ Elems(s \o t) = Elems(s) \cup Elems(t)
           /\ Distinct(s \o t) <=>
                /\ Distinct(s)
                /\ Distinct(t)
                /\ Elems(s) \cap Elems(t) = {}
<1> DEFINE c == s \o t
<1>1. /\ c \in Seq(S)
      /\ Len(s) \in Nat /\ Len(t) \in Nat
      /\ Len(c) = Len(s) + Len(t)
      /\ \A i \in 1..Len(s) : c[i] = s[i]
      /\ \A i \in 1..Len(t) : c[Len(s) + i] = t[i]
  OBVIOUS
<1>2. \A i \in 1..Len(c) :
        \/ i \in 1..Len(s)
        \/ i - Len(s) \in 1..Len(t) /\ c[i] = t[i - Len(s)]
  BY <1>1
<1>3. \A i \in 1..Len(s) : i \in 1..Len(c)
  BY <1>1
<1>4. \A i \in 1..Len(t) : Len(s) + i \in 1..Len(c) /\ Len(s) + i \notin 1..Len(s)
  BY <1>1
<1> HIDE DEF c
<1>5. Elems(c) = Elems(s) \cup Elems(t)
  <2>1. Elems(c) \subseteq Elems(s) \cup Elems(t)
    BY <1>1, <1>2, SMTT(30) DEF Elems
  <2>2. Elems(s) \subseteq Elems(c)
    BY <1>1, <1>3, Zenon DEF Elems
  <2>3. Elems(t) \subseteq Elems(c)
    BY <1>1, <1>4 DEF Elems
  <2>4. QED
    BY <2>1, <2>2, <2>3, Zenon
<1>6. ASSUME Distinct(c)
      PROVE  Distinct(s) /\ Distinct(t) /\ Elems(s) \cap Elems(t) = {}
  <2>1. Distinct(s)
    BY <1>1, <1>3, <1>6, Zenon DEF Distinct
  <2>2. Distinct(t)
    <3>1. \A i, j \in 1..Len(t) : Len(s) + i = Len(s) + j => i = j
      BY <1>1
    <3>2. QED
      BY <1>1, <1>4, <1>6, <3>1, Zenon DEF Distinct
  <2>3. \A i \in 1..Len(s), j \in 1..Len(t) : s[i] # t[j]
    BY <1>1, <1>3, <1>4, <1>6, Zenon DEF Distinct
  <2>4. QED
    BY <2>1, <2>2, <2>3, Zenon DEF Elems
<1>7. ASSUME Distinct(s), Distinct(t), Elems(s) \cap Elems(t) = {}
      PROVE  Distinct(c)
  <2> SUFFICES ASSUME NEW i \in 1..Len(c), NEW j \in 1..Len(c), c[i] = c[j]
               PROVE  i = j
    BY Zenon DEF Distinct
  <2>1. CASE i \in 1..Len(s) /\ j \in 1..Len(s)
    BY <1>1, <1>7, <2>1, Zenon DEF Distinct
  <2>2. CASE i \notin 1..Len(s) /\ j \notin 1..Len(s)
    <3>1. i - Len(s) = j - Len(s)
      BY <1>2, <1>7, <2>2, Zenon DEF Distinct
    <3>2. QED
      BY <1>1, <3>1
  <2>3. CASE ~(i \in 1..Len(s) <=> j \in 1..Len(s))
    <3>1. \A x \in 1..Len(c) : x \in 1..Len(s) => c[x] \in Elems(s)
      BY <1>1, Zenon DEF Elems
    <3>2. \A x \in 1..Len(c) : x \notin 1..Len(s) => c[x] \in Elems(t)
      BY <1>2, Zenon DEF Elems
    <3>3. QED
      BY <1>7, <2>3, <3>1, <3>2, Zenon
  <2>4. QED
    BY <2>1, <2>2, <2>3, Zenon
<1>8. QED
  BY <1>5, <1>6, <1>7, Zenon DEF c

\* A sequence is its first k objects followed by the rest.
LEMMA SplitSeq ==
    ASSUME NEW S, NEW s \in Seq(S), NEW k \in 0..Len(s)
    PROVE  /\ s = SubSeq(s, 1, k) \o SubSeq(s, k + 1, Len(s))
           /\ Elems(SubSeq(s, k + 1, Len(s))) = {s[i] : i \in (k + 1)..Len(s)}
<1> DEFINE a == SubSeq(s, 1, k)
           b == SubSeq(s, k + 1, Len(s))
<1>1. /\ Len(s) \in Nat /\ k \in Nat /\ k <= Len(s)
      /\ a \in Seq(S) /\ Len(a) = k /\ \A i \in 1..k : a[i] = s[i]
      /\ b \in Seq(S) /\ Len(b) = Len(s) - k
      /\ \A i \in 1..(Len(s) - k) : b[i] = s[k + i]
  BY PrefixFacts, SuffixFacts
<1> HIDE DEF a, b
<1>2. a \o b \in Seq(S) /\ Len(a \o b) = Len(s)
  BY <1>1
<1>3. ASSUME NEW i \in 1..Len(s)
      PROVE  (a \o b)[i] = s[i]
  <2>1. CASE i <= k
    BY <1>1, <2>1
  <2>2. CASE i > k
    <3>1. (a \o b)[i] = b[i - k]
      BY <1>1, <2>2
    <3>2. i - k \in 1..(Len(s) - k) /\ k + (i - k) = i
      BY <1>1, <2>2
    <3>3. QED
      BY <1>1, <3>1, <3>2, Zenon
  <2>3. QED
    BY <1>1, <2>1, <2>2
<1>4. a \o b = s
  BY <1>2, <1>3, SeqEqual, Zenon
<1>5. Elems(b) = {s[i] : i \in (k + 1)..Len(s)}
  <2>1. ASSUME NEW i \in 1..Len(b)
        PROVE  b[i] \in {s[j] : j \in (k + 1)..Len(s)}
    <3>1. k + i \in (k + 1)..Len(s) /\ b[i] = s[k + i]
      BY <1>1
    <3>2. QED
      BY <3>1, Zenon
  <2>2. ASSUME NEW i \in (k + 1)..Len(s)
        PROVE  s[i] \in Elems(b)
    <3>1. i - k \in 1..Len(b) /\ k + (i - k) = i
      BY <1>1
    <3>2. b[i - k] = s[i]
      BY <1>1, <3>1, Zenon
    <3>3. QED
      BY <3>1, <3>2, Zenon DEF Elems
  <2>3. QED
    BY <2>1, <2>2, Zenon DEF Elems
<1>6. QED
  BY <1>4, <1>5, Zenon DEF a, b

\* The inductive invariant behind the ownership of the mbufs.
OwnerInv == CapacityInv /\ OneOwner /\ Distinct(obj)

\* An array of which the ring accepted nothing belongs to the producer.
LEMMA WholeArray ==
    ASSUME NEW s, NEW n, n = 0
    PROVE  {s[i] : i \in (n + 1)..Len(s)} = Elems(s)
  BY DEF Elems

\* The empty array owns nothing.
LEMMA EmptyArray == Elems(<<>>) = {} /\ Distinct(<<>>)
  BY DEF Elems, Distinct

\* Handing the first k mbufs of the array to the ring moves them from the
\* producer to the ring.
LEMMA EnqueueMoves ==
    ASSUME OwnerInv, pc = "counted", NEW k \in 0..Len(obj), Enqueue(k)
    PROVE  OneOwner' /\ Distinct(obj)'
<1> DEFINE a == SubSeq(obj, 1, k)
           b == SubSeq(obj, k + 1, Len(obj))
<1>1. /\ ring \in Seq(Mbufs) /\ obj \in Seq(Mbufs)
      /\ num_added = 0 /\ pending = <<>>
  BY Zenon DEF OwnerInv, CapacityInv, TypeOK, ProducerKnows
<1>2. /\ ring' = ring /\ pending' = a /\ obj' = obj /\ num_added' = k
      /\ pool' = pool /\ held' = held
  BY Zenon DEF Enqueue, MoveProdHead
<1>3. /\ a \in Seq(Mbufs) /\ b \in Seq(Mbufs) /\ obj = a \o b
      /\ Elems(b) = {obj[i] : i \in (k + 1)..Len(obj)}
  <2>1. a \in Seq(Mbufs) /\ b \in Seq(Mbufs)
    BY <1>1, PrefixFacts, SuffixFacts, Zenon
  <2>2. /\ obj = a \o b
        /\ Elems(b) = {obj[i] : i \in (k + 1)..Len(obj)}
    BY <1>1, SplitSeq, Zenon
  <2>3. QED
    BY <2>1, <2>2, Zenon
<1> HIDE DEF a, b
<1>4. Leftover = Elems(obj) /\ InRing = Elems(ring) /\ Distinct(ring)
  BY <1>1, WholeArray DEF Leftover, InRing, OwnerInv, OneOwner
<1>5. Leftover' = Elems(b)
  BY <1>2, <1>3, Zenon DEF Leftover
<1>6. /\ Elems(obj) = Elems(a) \cup Elems(b)
      /\ Elems(a) \cap Elems(b) = {}
      /\ Distinct(a)
  <2>1. Distinct(a \o b)
    BY <1>3, Zenon DEF OwnerInv
  <2>2. Elems(a \o b) = Elems(a) \cup Elems(b)
    BY <1>3, ConcatElems, Zenon
  <2>3. Distinct(a) /\ Elems(a) \cap Elems(b) = {}
    BY <1>3, <2>1, ConcatElems, Zenon
  <2>4. QED
    BY <1>3, <2>2, <2>3, Zenon
<1>7. Elems(ring) \cap Elems(a) = {}
  BY <1>4, <1>6, Zenon DEF OwnerInv, OneOwner, ProducerOwns
<1>8. /\ InRing' = Elems(ring) \cup Elems(a)
      /\ Distinct(ring \o pending)'
  <2>1. Elems(ring \o a) = Elems(ring) \cup Elems(a)
    BY <1>1, <1>3, ConcatElems
  <2>2. Distinct(ring \o a)
    BY <1>1, <1>3, <1>4, <1>6, <1>7, ConcatElems, Zenon
  <2>3. QED
    BY <1>2, <2>1, <2>2, Zenon DEF InRing
<1>9. QED
  BY <1>2, <1>4, <1>5, <1>6, <1>8, Zenon DEF OwnerInv, OneOwner, ProducerOwns

\* The steps of the producer keep one owner per mbuf.
LEMMA OwnerProducer == OwnerInv /\ CapacityInv' /\ Producer => OneOwner' /\ Distinct(obj)'
<1> SUFFICES ASSUME OwnerInv, CapacityInv', Producer
             PROVE  OneOwner' /\ Distinct(obj)'
  BY Zenon
<1> USE DEF OwnerInv
<1>0. /\ ring \in Seq(Mbufs) /\ pending \in Seq(Mbufs) /\ obj \in Seq(Mbufs)
      /\ pc \in {"create", "ready", "counted"} => num_added = 0
  BY Zenon DEF CapacityInv, TypeOK, ProducerKnows
<1>1. CASE Receive
  <2>1. PICK s \in Batches(pool) : obj' = s /\ pool' = pool \ Elems(s)
    BY <1>1, Zenon DEF Receive
  <2>2. Distinct(s) /\ Elems(s) \subseteq pool
    BY <2>1, BatchIsSeq, Zenon
  <2>3. Leftover = {} /\ Leftover' = Elems(s)
    BY <1>0, <1>1, <2>1, WholeArray, EmptyArray DEF Receive, Leftover
  <2>4. InRing' = InRing /\ Distinct(ring \o pending)' /\ held' = held
    BY <1>1, Zenon DEF Receive, InRing, OneOwner, ringVars
  <2>5. QED
    BY <2>1, <2>2, <2>3, <2>4, Zenon DEF OneOwner, ProducerOwns
<1>2. CASE \E f \in {"bulk", "burst", "one"} : ReadCount(f)
  BY <1>2, Zenon DEF ReadCount, OneOwner, ProducerOwns, InRing, Leftover, ringVars
<1>3. CASE psring_enqueue_bulk
  <2>1. CASE Enqueue(Len(obj))
    BY <1>0, <1>3, <2>1, EnqueueMoves DEF psring_enqueue_bulk
  <2>2. CASE ReturnRefused
    BY <1>0, <1>3, <2>2
       DEF psring_enqueue_bulk, ReturnRefused, OneOwner, ProducerOwns, InRing,
           Leftover, ringVars
  <2>3. QED
    BY <1>3, <2>1, <2>2, Zenon DEF psring_enqueue_bulk
<1>4. CASE psring_enqueue_burst
  <2>1. /\ pc = "counted" /\ count <= capacity
        /\ \E k : Enqueue(k) /\ k = num_added'
    BY <1>4, CapacityNat
       DEF psring_enqueue_burst, CapacityInv, ProducerKnows, TypeOK, Enqueue
  <2>2. num_added' \in 0..Len(obj)
    BY <1>0, <2>1 DEF CapacityInv, ProducerKnows, TypeOK, Enqueue
  <2>3. QED
    BY <2>1, <2>2, EnqueueMoves, Zenon
<1>5. CASE psring_enqueue
  <2>1. pc = "counted" /\ \E k : Enqueue(k) /\ k = num_added'
    BY <1>5, Zenon DEF psring_enqueue, Enqueue
  <2>2. num_added' \in 0..Len(obj)
    BY <1>0, <2>1 DEF CapacityInv, ProducerKnows, TypeOK, Enqueue
  <2>3. QED
    BY <2>1, <2>2, EnqueueMoves, Zenon
<1>6. CASE Publish
  <2>1. (ring \o pending)' = ring \o pending
    BY <1>0, <1>6 DEF Publish, UpdateProdTail
  <2>2. QED
    BY <1>6, <2>1 DEF Publish, OneOwner, ProducerOwns, InRing, Leftover
<1>7. CASE FreeLeftover
  <2>1. Leftover' = {} /\ Distinct(obj)'
    BY <1>7, EmptyArray, WholeArray DEF FreeLeftover, Leftover
  <2>2. QED
    BY <1>7, <2>1, Zenon DEF FreeLeftover, OneOwner, ProducerOwns, InRing, ringVars
<1>8. CASE CallerFrees
  <2>1. Leftover = Elems(obj) /\ Leftover' = {} /\ Distinct(obj)'
    BY <1>0, <1>8, EmptyArray, WholeArray DEF CallerFrees, Leftover
  <2>2. QED
    BY <1>8, <2>1, Zenon DEF CallerFrees, OneOwner, ProducerOwns, InRing, ringVars
<1>9. QED
  BY <1>1, <1>2, <1>3, <1>4, <1>5, <1>6, <1>7, <1>8, Zenon DEF Producer

\* The steps of the consumer keep one owner per mbuf.
LEMMA OwnerConsumer == OwnerInv /\ Consumer => OneOwner' /\ Distinct(obj)'
<1> SUFFICES ASSUME OwnerInv, Consumer PROVE OneOwner' /\ Distinct(obj)'
  BY Zenon
<1> USE DEF OwnerInv, prodVars
<1>1. CASE psring_dequeue_bulk \/ psring_dequeue_burst \/ psring_dequeue
  BY <1>1, Zenon DEF psring_dequeue_bulk, psring_dequeue_burst, psring_dequeue,
              MoveConsHead, OneOwner, ProducerOwns, InRing, Leftover
<1>2. CASE DequeueReturns
  <2> DEFINE a == SubSeq(ring, 1, taken)
             b == SubSeq(ring, taken + 1, Len(ring))
  <2>1. ring \in Seq(Mbufs) /\ pending \in Seq(Mbufs) /\ taken \in 0..Len(ring)
    BY DEF CapacityInv, TypeOK
  <2>2. a \in Seq(Mbufs) /\ b \in Seq(Mbufs) /\ ring = a \o b
    BY <2>1, PrefixFacts, SuffixFacts, SplitSeq, Zenon
  <2>3. /\ ring' = b /\ pending' = pending /\ held' = held \cup Elems(a)
        /\ pool' = pool /\ Leftover' = Leftover /\ obj' = obj
    BY <1>2, Zenon DEF DequeueReturns, UpdateConsTail, Dequeued, Leftover
  <2> HIDE DEF a, b
  <2>4. /\ Elems(ring) = Elems(a) \cup Elems(b)
        /\ InRing = Elems(ring) \cup Elems(pending)
        /\ InRing' = Elems(b) \cup Elems(pending)
    <3>1. Elems(a \o b) = Elems(a) \cup Elems(b)
      BY <2>2, ConcatElems
    <3>2. Elems(ring \o pending) = Elems(ring) \cup Elems(pending)
      BY <2>1, ConcatElems
    <3>3. Elems(b \o pending) = Elems(b) \cup Elems(pending)
      BY <2>1, <2>2, ConcatElems
    <3>4. QED
      BY <2>2, <2>3, <3>1, <3>2, <3>3, Zenon DEF InRing
  <2>5. /\ Distinct(ring) /\ Distinct(pending)
        /\ Elems(ring) \cap Elems(pending) = {}
    BY <2>1, ConcatElems DEF OneOwner
  <2>6. Distinct(b) /\ Elems(a) \cap Elems(b) = {}
    BY <2>2, <2>5, ConcatElems, Zenon
  <2>7. Distinct(ring \o pending)'
    BY <2>1, <2>2, <2>3, <2>4, <2>5, <2>6, ConcatElems
  <2>8. QED
    BY <2>3, <2>4, <2>5, <2>6, <2>7, Zenon DEF OneOwner, ProducerOwns
<1>3. CASE ConsumerFrees
  BY <1>3 DEF ConsumerFrees, OneOwner, ProducerOwns, InRing, Leftover, ringVars
<1>4. QED
  BY <1>1, <1>2, <1>3, Zenon DEF Consumer

\* For every pool of mbufs and every capacity each mbuf has exactly one owner:
\* no path through the enqueue functions loses one or frees one in the ring.
THEOREM OneOwnerAlways == Spec => []OneOwner
<1>1. Init => OwnerInv
  <2>1. Init => CapacityInv
    BY CapacityInit, Zenon
  <2>2. Init => OneOwner /\ Distinct(obj)
    BY EmptyArray, WholeArray
       DEF Init, RingEmpty, OneOwner, ProducerOwns, InRing, Leftover
  <2>3. QED
    BY <2>1, <2>2, Zenon DEF OwnerInv
<1>2. OwnerInv /\ [Next]_vars => OwnerInv'
  <2> SUFFICES ASSUME OwnerInv, [Next]_vars PROVE OwnerInv'
    BY Zenon
  <2>1. CapacityInv'
    BY CapacityNext, Zenon DEF OwnerInv
  <2>2. CASE Create \/ UNCHANGED vars
    BY <2>1, <2>2, Zenon
       DEF Create, DoubleSlots, RingCreated, RingNotCreated, vars, prodVars,
           ringVars, OwnerInv, OneOwner, ProducerOwns, InRing, Leftover
  <2>3. QED
    BY <2>1, <2>2, OwnerProducer, OwnerConsumer, Zenon DEF Next, OwnerInv
<1>3. OwnerInv => OneOwner
  BY Zenon DEF OwnerInv
<1>4. QED
  BY <1>1, <1>2, <1>3, PTL DEF Spec
-----------------------------------------------------------------------------
(* The ring implements the bounded queue *)

\* Every step of the producer is a Put of the queue or leaves it alone.
LEMMA ProducerPuts ==
    CapacityInv /\ CapacityInv' /\ Producer => Fifo!Put \/ UNCHANGED ring
<1> SUFFICES ASSUME CapacityInv, CapacityInv', Producer
             PROVE  Fifo!Put \/ UNCHANGED ring
  BY Zenon
<1>1. CASE Publish
  <2>1. /\ ring \in Seq(Mbufs) /\ pending \in Seq(Mbufs)
        /\ ring' \in Seq(Mbufs) /\ ring' = ring \o pending
        /\ Len(ring') + Len(pending') <= capacity /\ Len(pending') \in Nat
    BY <1>1, Zenon DEF CapacityInv, TypeOK, WithinCapacity, Publish, UpdateProdTail
  <2>2. /\ Len(ring) <= Len(ring') /\ Len(ring') <= capacity
    BY <2>1, CapacityNat
  <2>3. SubSeq(ring', 1, Len(ring)) = ring
    BY <2>1, SubSeqOfConcat1, SubSeqFull
  <2>4. QED
    BY <2>1, <2>2, <2>3, Zenon DEF Fifo!Put
<1>2. CASE ~Publish
  BY <1>2, Zenon DEF Producer, Receive, ReadCount, psring_enqueue_bulk, ReturnRefused,
              psring_enqueue_burst, ReturnOverCapacity, psring_enqueue, Enqueue,
              MoveProdHead, FreeLeftover, CallerFrees, ringVars
<1>3. QED
  BY <1>1, <1>2, Zenon

\* Every step of the consumer is a Get of the queue or leaves it alone.
LEMMA ConsumerGets == CapacityInv /\ Consumer => Fifo!Get \/ UNCHANGED ring
<1> SUFFICES ASSUME CapacityInv, Consumer PROVE Fifo!Get \/ UNCHANGED ring
  BY Zenon
<1>1. CASE DequeueReturns
  <2>1. taken \in 1..Len(ring)
    BY <1>1 DEF CapacityInv, TypeOK, DequeueReturns
  <2>2. QED
    BY <1>1, <2>1, Zenon DEF DequeueReturns, UpdateConsTail, Fifo!Get
<1>2. CASE ~DequeueReturns
  BY <1>2, Zenon DEF Consumer, psring_dequeue_bulk, psring_dequeue_burst,
              psring_dequeue, MoveConsHead, ConsumerFrees, ringVars
<1>3. QED
  BY <1>1, <1>2, Zenon

\* The packet-sized ring implements a first-in first-out queue bounded by its
\* capacity, for every capacity, pool and batch size.
THEOREM ImplementsFifo == Spec => FifoSpec
<1>1. Init => Fifo!Init
  BY Zenon DEF Init, RingEmpty, Fifo!Init
<1>2. CapacityInv /\ CapacityInv' /\ [Next]_vars => [Fifo!Next]_ring
  <2>1. Create \/ UNCHANGED vars => UNCHANGED ring
    BY Zenon DEF Create, DoubleSlots, RingCreated, RingNotCreated, vars, ringVars
  <2>2. QED
    BY <2>1, ProducerPuts, ConsumerGets, Zenon DEF Next, Fifo!Next
<1>3. QED
  BY <1>1, <1>2, CapacityInvariance, PTL DEF Spec, FifoSpec, Fifo!Spec
=============================================================================

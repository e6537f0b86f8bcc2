---------------------------- MODULE ImplicitQueue ---------------------------
(***************************************************************************)
(* The slow pipe between tasks (pipe_mpmc_ in libmoon/src/pipe.cpp): a     *)
(* queue without locks for any number of producers and consumers           *)
(* (libmoon/lib/concurrentqueue/concurrentqueue.h).  Each producer has a   *)
(* sub-queue of its own, an infinite array of which only some blocks are   *)
(* there; the block index finds the block of an element.  Consumers claim  *)
(* elements by counting, and the one that empties a block gives it back.   *)
(*                                                                         *)
(* Each step accesses shared memory once; what a producer alone accesses   *)
(* it may access in the same step.  The free list is the set of its blocks *)
(* (BlockPool, which FreeList implements); the list of producers is given, *)
(* see ProducerHash.                                                       *)
(***************************************************************************)
EXTENDS Integers, Sequences, FiniteSets

CONSTANTS
    Consumers,
    Loads,            \* bounds on the elements of each producer on the list
    BLOCK_SIZE,       \* 32
    IMPLICIT_INITIAL_INDEX_SIZE,    \* 32
    initialBlockPoolSize,
    MaxBlocks,        \* bound on the blocks
    MaxFails,         \* bound on the allocations that fail
    W,                \* the indices are integers modulo W (2^64)
    NULL

ASSUME QueueAssumption ==
    /\ \A load \in Loads : load \in Seq(Nat)
    /\ NULL \notin Nat /\ Consumers \cap Nat = {}
    /\ BLOCK_SIZE \in Nat \ {0, 1} /\ IMPLICIT_INITIAL_INDEX_SIZE \in Nat \ {0, 1}
    /\ {initialBlockPoolSize, MaxBlocks, MaxFails} \subseteq Nat
    /\ initialBlockPoolSize <= MaxBlocks
    /\ W \in Nat /\ W % BLOCK_SIZE = 0
    /\ \A load \in Loads : \A p \in DOMAIN load : W > 2 * (load[p] + BLOCK_SIZE)

VARIABLES
    load,               \* the producers are 1, 2, ... in the order of their list
    tailIndex, headIndex,       \* of each producer's sub-queue
    dequeueOptimisticCount, dequeueOvercommit,
    tailBlock,
    entries,            \* of each producer: the block index entries there are
    headers,            \* of each producer: its block indices, the newest last
    initialBlockPoolIndex,
    free,               \* the blocks in the free list
    created,            \* blocks created so far
    elementsCompletelyDequeued, elements,    \* of each block
    pc, local,          \* of each thread
    fails,              \* allocations failed so far
    sent,               \* elements enqueued so far, of each producer
    received            \* the elements received so far

indices == <<tailIndex, headIndex, dequeueOptimisticCount, dequeueOvercommit>>
blockIndex == <<entries, headers>>
pools == <<initialBlockPoolIndex, free, created>>
blocks == <<elementsCompletelyDequeued, elements>>
vars == <<load, indices, tailBlock, blockIndex, pools, blocks, pc, local, fails, sent, received>>

Blocks == 1..MaxBlocks
Producers == DOMAIN load
Threads == Producers \cup Consumers
INVALID_BLOCK_BASE == 1

NoEnqueue == [entry |-> 0, block |-> NULL]
NoDequeue == [pos |-> 0, best |-> NULL, bestSize |-> 0, nonEmpty |-> 0, q |-> NULL, tail |-> 0, over |-> 0,
              my |-> 0, index |-> 0, header |-> 0, entry |-> 0, block |-> NULL]

\* a < b, where the larger may have wrapped around.
circular_less_than(a, b) == (a - b) % W > W \div 2

\* n entries of a block index, all of them invalid.
FirstEntries(n) == [i \in 1..n |-> [key |-> INVALID_BLOCK_BASE, value |-> NULL]]

Init ==
    /\ load \in Loads
    /\ tailIndex = [p \in Producers |-> 0] /\ headIndex = [p \in Producers |-> 0]
    /\ dequeueOptimisticCount = [p \in Producers |-> 0]
    /\ dequeueOvercommit = [p \in Producers |-> 0]
    /\ tailBlock = [p \in Producers |-> NULL]
    /\ entries = [p \in Producers |-> FirstEntries(IMPLICIT_INITIAL_INDEX_SIZE)]
    /\ headers = [p \in Producers |->
                    <<[capacity |-> IMPLICIT_INITIAL_INDEX_SIZE,
                       tail |-> IMPLICIT_INITIAL_INDEX_SIZE - 1,
                       index |-> [i \in 0..(IMPLICIT_INITIAL_INDEX_SIZE - 1) |-> i + 1]]>>]
    /\ initialBlockPoolIndex = 0 /\ free = {} /\ created = initialBlockPoolSize
    /\ elementsCompletelyDequeued = [b \in Blocks |-> 0]
    /\ elements = [b \in Blocks |-> [i \in 0..(BLOCK_SIZE - 1) |-> NULL]]
    /\ pc = [t \in Threads |-> "idle"]
    /\ local = [t \in Threads |-> IF t \in Producers THEN NoEnqueue ELSE NoDequeue]
    /\ fails = 0
    /\ sent = [p \in Producers |-> 0]
    /\ received = {}

At(t, label) == pc[t] = label
Go(t, label, l) ==
    pc' = [pc EXCEPT ![t] = label] /\ local' = [local EXCEPT ![t] = l] /\ UNCHANGED load
Fail == fails < MaxFails /\ fails' = fails + 1
-----------------------------------------------------------------------------
(* ImplicitProducer::enqueue *)

Header(p) == headers[p][Len(headers[p])]

\* At the end of a block, half of the indices must be left.
Room(p) ==
    tailIndex[p] % BLOCK_SIZE = 0 => circular_less_than(headIndex[p], tailIndex[p] + BLOCK_SIZE)

\* (Without room enqueue returns false and changes nothing.)
EnqueueBegins(p) ==
    /\ At(p, "idle") /\ sent[p] < load[p] /\ Room(p)
    /\ Go(p, IF tailIndex[p] % BLOCK_SIZE = 0 THEN "insert" ELSE "write", NoEnqueue)
    /\ UNCHANGED <<indices, tailBlock, blockIndex, pools, blocks, fails, sent, received>>

\* The slot of the block index after the last one used, and its entry.
NewTail(p) == (Header(p).tail + 1) % Header(p).capacity
NewEntry(p) == Header(p).index[NewTail(p)]

\* Mutant: the oldest entry is taken whether or not its block is in use.
EntryFree_Always(p) == TRUE

EntryFree(p) ==
    LET e == entries[p][NewEntry(p)] IN e.key = INVALID_BLOCK_BASE \/ e.value = NULL

\* insert_block_index_entry: an entry that is free is given the new key ...
InsertKey(p) ==
    /\ (At(p, "insert") /\ EntryFree(p)) \/ At(p, "insert_new")
    /\ entries' = [entries EXCEPT ![p][NewEntry(p)].key = tailIndex[p]]
    /\ Go(p, "index_tail", [local[p] EXCEPT !.entry = NewEntry(p)])
    /\ UNCHANGED <<indices, tailBlock, headers, pools, blocks, fails, sent, received>>

\* ... and becomes the last one.
InsertTail(p) ==
    /\ At(p, "index_tail")
    /\ headers' = [headers EXCEPT ![p][Len(headers[p])].tail = NewTail(p)]
    /\ Go(p, "pool", local[p])
    /\ UNCHANGED <<indices, tailBlock, entries, pools, blocks, fails, sent, received>>

\* The index that follows h: twice as large, the old entries first, in order.
Doubled(h, n) ==
    [capacity |-> 2 * h.capacity, tail |-> h.capacity - 1,
     index |-> [i \in 0..(2 * h.capacity - 1) |->
                    IF i < h.capacity THEN h.index[(h.tail + 1 + i) % h.capacity]
                    ELSE n + 1 + (i - h.capacity)]]

\* No entry is free: a larger index is made, of old and new entries.
new_block_index(p) ==
    /\ At(p, "insert") /\ ~EntryFree(p)
    /\ headers' = [headers EXCEPT ![p] = Append(@, Doubled(Header(p), Len(entries[p])))]
    /\ entries' = [entries EXCEPT ![p] = @ \o FirstEntries(Header(p).capacity)]
    /\ Go(p, "insert_new", NoEnqueue)
    /\ UNCHANGED <<indices, tailBlock, pools, blocks, fails, sent, received>>

\* No memory for it: enqueue returns false.
NoIndex(p) ==
    /\ At(p, "insert") /\ ~EntryFree(p) /\ Fail
    /\ Go(p, "idle", NoEnqueue)
    /\ UNCHANGED <<indices, tailBlock, blockIndex, pools, blocks, sent, received>>

\* requisition_block: is there a block in the initial pool?
PoolCheck(p) ==
    /\ At(p, "pool")
    /\ Go(p, IF initialBlockPoolIndex < initialBlockPoolSize THEN "pool_take" ELSE "free_list",
          local[p])
    /\ UNCHANGED <<indices, tailBlock, blockIndex, pools, blocks, fails, sent, received>>

\* The next block of the pool, unless another producer was faster.
PoolTake(p) ==
    /\ At(p, "pool_take")
    /\ initialBlockPoolIndex' = initialBlockPoolIndex + 1
    /\ IF initialBlockPoolIndex < initialBlockPoolSize
       THEN Go(p, "use_block", [local[p] EXCEPT !.block = initialBlockPoolIndex + 1])
       ELSE Go(p, "free_list", local[p])
    /\ UNCHANGED <<indices, tailBlock, blockIndex, free, created, blocks, fails, sent, received>>

\* A block of the free list; those that are just coming back need not be found.
FreeListTake(p) ==
    /\ At(p, "free_list")
    /\ \/ \E b \in free : free' = free \ {b} /\ Go(p, "use_block", [local[p] EXCEPT !.block = b])
       \/ Go(p, "create", local[p]) /\ UNCHANGED free
    /\ UNCHANGED <<indices, tailBlock, blockIndex, initialBlockPoolIndex, created, blocks,
                   fails, sent, received>>

CreateBlock(p) ==
    /\ At(p, "create") /\ created < MaxBlocks
    /\ created' = created + 1
    /\ Go(p, "use_block", [local[p] EXCEPT !.block = created + 1])
    /\ UNCHANGED <<indices, tailBlock, blockIndex, initialBlockPoolIndex, free, blocks,
                   fails, sent, received>>

\* No memory: rewind_block_index_tail, and enqueue returns false.
NoBlock(p) ==
    LET n == Len(headers[p])
    IN  /\ At(p, "create") /\ Fail
        /\ headers' = [headers EXCEPT ![p][n].tail = (@ - 1) % Header(p).capacity]
        /\ entries' = [entries EXCEPT ![p][local[p].entry].value = NULL]
        /\ Go(p, "idle", NoEnqueue)
        /\ UNCHANGED <<indices, tailBlock, pools, blocks, sent, received>>

\* reset_empty, and the block is entered in the index.
UseBlock(p) ==
    LET b == local[p].block
    IN  /\ At(p, "use_block")
        /\ elementsCompletelyDequeued' = [elementsCompletelyDequeued EXCEPT ![b] = 0]
        /\ entries' = [entries EXCEPT ![p][local[p].entry].value = b]
        /\ tailBlock' = [tailBlock EXCEPT ![p] = b]
        /\ Go(p, "write", NoEnqueue)
        /\ UNCHANGED <<indices, headers, pools, elements, fails, sent, received>>

\* Mutant: the element is written at newTailIndex.
WriteElement_NewTail(p) ==
    /\ At(p, "write")
    /\ elements' = [elements EXCEPT ![tailBlock[p]][(tailIndex[p] + 1) % BLOCK_SIZE] =
                        <<p, sent[p]>>]
    /\ Go(p, "publish", NoEnqueue)
    /\ UNCHANGED <<indices, tailBlock, blockIndex, pools, elementsCompletelyDequeued, fails,
                   sent, received>>

WriteElement(p) ==
    /\ At(p, "write")
    /\ elements' = [elements EXCEPT ![tailBlock[p]][tailIndex[p] % BLOCK_SIZE] =
                        <<p, sent[p]>>]
    /\ Go(p, "publish", NoEnqueue)
    /\ UNCHANGED <<indices, tailBlock, blockIndex, pools, elementsCompletelyDequeued, fails,
                   sent, received>>

PublishElement(p) ==
    /\ At(p, "publish")
    /\ tailIndex' = [tailIndex EXCEPT ![p] = (@ + 1) % W]
    /\ sent' = [sent EXCEPT ![p] = @ + 1]
    /\ Go(p, "idle", NoEnqueue)
    /\ UNCHANGED <<headIndex, dequeueOptimisticCount, dequeueOvercommit, tailBlock, blockIndex,
                   pools, blocks, fails, received>>
-----------------------------------------------------------------------------
(* ConcurrentQueue::try_dequeue: which sub-queue? *)

\* A step that changes only the locals of a consumer.
Local(c, label, l) ==
    /\ Go(c, label, l)
    /\ UNCHANGED <<indices, tailBlock, blockIndex, pools, blocks, fails, sent, received>>

try_dequeue(c) == At(c, "idle") /\ Local(c, "size_tail", [NoDequeue EXCEPT !.pos = 1])

SizeTail(c) ==
    /\ At(c, "size_tail")
    /\ Local(c, "size_head", [local[c] EXCEPT !.tail = tailIndex[local[c].pos]])

\* The largest sub-queue of the first three that are not empty is the best.
SizeHead(c) ==
    LET l == local[c]
        p == l.pos
        size == IF circular_less_than(headIndex[p], l.tail) THEN (l.tail - headIndex[p]) % W ELSE 0
        better == size > l.bestSize
        best == IF better THEN p ELSE l.best
        m == [l EXCEPT !.tail = 0, !.best = best, !.bestSize = IF better THEN size ELSE @,
                       !.nonEmpty = IF size > 0 THEN @ + 1 ELSE @]
    IN  /\ At(c, "size_head")
        /\ IF l.pos < Len(load) /\ m.nonEmpty < 3
           THEN Local(c, "size_tail", [m EXCEPT !.pos = @ + 1])
           ELSE IF best # NULL
           THEN Local(c, "deq_tail", [NoDequeue EXCEPT !.best = best, !.q = best])
           ELSE Local(c, "idle", NoDequeue)

\* The sub-queue seems empty: the next one of the list that has not been tried.
TryNext(c) ==
    LET l == local[c]
        rest == ((l.pos + 1)..Len(load)) \ {l.best}
        i == CHOOSE j \in rest : \A k \in rest : j <= k
    IN  IF rest = {} THEN Go(c, "idle", NoDequeue)
        ELSE Go(c, "deq_tail", [NoDequeue EXCEPT !.best = l.best, !.pos = i,
                                                 !.q = i])
-----------------------------------------------------------------------------
(* ImplicitProducer::dequeue *)

LoadTail(c) ==
    /\ At(c, "deq_tail")
    /\ Local(c, "deq_over", [local[c] EXCEPT !.tail = tailIndex[local[c].q]])

LoadOvercommit(c) ==
    /\ At(c, "deq_over")
    /\ Local(c, "deq_check", [local[c] EXCEPT !.over = dequeueOvercommit[local[c].q]])

\* Is there an element that is not claimed?
CheckCount(c) ==
    LET l == local[c]
    IN  /\ At(c, "deq_check")
        /\ IF circular_less_than(dequeueOptimisticCount[l.q] - l.over, l.tail)
           THEN Go(c, "deq_claim", [l EXCEPT !.tail = 0])
           ELSE TryNext(c)
        /\ UNCHANGED <<indices, tailBlock, blockIndex, pools, blocks, fails, sent, received>>

ClaimCount(c) ==
    LET l == local[c]
    IN  /\ At(c, "deq_claim")
        /\ dequeueOptimisticCount' = [dequeueOptimisticCount EXCEPT ![l.q] = (@ + 1) % W]
        /\ Go(c, "deq_recheck", [l EXCEPT !.my = dequeueOptimisticCount[l.q]])
        /\ UNCHANGED <<tailIndex, headIndex, dequeueOvercommit, tailBlock, blockIndex, pools,
                       blocks, fails, sent, received>>

\* Mutant: the tail is not read again.
Recheck_Trust(c) ==
    LET l == local[c]
    IN  /\ At(c, "deq_recheck")
        /\ Local(c, "deq_index", [l EXCEPT !.my = 0, !.over = 0])

\* Is there still one, now that others may have claimed, too?
Recheck(c) ==
    LET l == local[c]
    IN  /\ At(c, "deq_recheck")
        /\ IF circular_less_than(l.my - l.over, tailIndex[l.q])
           THEN Local(c, "deq_index", [l EXCEPT !.my = 0, !.over = 0])
           ELSE Local(c, "deq_undo", l)

\* There is none: the claim is made up for.
Overcommit(c) ==
    LET l == local[c]
    IN  /\ At(c, "deq_undo")
        /\ dequeueOvercommit' = [dequeueOvercommit EXCEPT ![l.q] = (@ + 1) % W]
        /\ TryNext(c)
        /\ UNCHANGED <<tailIndex, headIndex, dequeueOptimisticCount, tailBlock, blockIndex,
                       pools, blocks, fails, sent, received>>

\* The element is ours.
TakeIndex(c) ==
    LET l == local[c]
    IN  /\ At(c, "deq_index")
        /\ headIndex' = [headIndex EXCEPT ![l.q] = (@ + 1) % W]
        /\ Go(c, "deq_header", [l EXCEPT !.index = headIndex[l.q]])
        /\ UNCHANGED <<tailIndex, dequeueOptimisticCount, dequeueOvercommit, tailBlock,
                       blockIndex, pools, blocks, fails, sent, received>>

\* get_block_index_index_for_index: the index ...
LoadHeader(c) ==
    /\ At(c, "deq_header")
    /\ Local(c, "deq_last", [local[c] EXCEPT !.header = Len(headers[local[c].q])])

\* ... its last entry (tail is the slot here) ...
LoadLast(c) ==
    LET l == local[c]
    IN  /\ At(c, "deq_last")
        /\ Local(c, "deq_entry", [l EXCEPT !.tail = headers[l.q][l.header].tail])

BlockBase(i) == i - (i % BLOCK_SIZE)

\* ... and, counting back from its key, the entry of the block.
EntryFor(p, h, last, index) ==
    LET base == BlockBase(index)
        lastBase == entries[p][h.index[last]].key
        diff == (base - lastBase) % W
        signed == IF diff < W \div 2 THEN diff ELSE diff - W
        offset == IF signed >= 0 THEN signed \div BLOCK_SIZE ELSE -(-signed \div BLOCK_SIZE)
    IN  h.index[(last + offset) % h.capacity]

FindEntry(c) ==
    LET l == local[c]
    IN  /\ At(c, "deq_entry")
        /\ Local(c, "deq_block", [l EXCEPT !.tail = 0, !.header = 0,
                    !.entry = EntryFor(l.q, headers[l.q][l.header], l.tail, l.index)])

LoadBlock(c) ==
    LET l == local[c]
    IN  /\ At(c, "deq_block")
        /\ Local(c, "deq_read", [l EXCEPT !.block = entries[l.q][l.entry].value])

ReadElement(c) ==
    LET l == local[c]
        e == elements[l.block][l.index % BLOCK_SIZE]
    IN  /\ At(c, "deq_read")
        /\ received' = received \cup {e}
        /\ Go(c, "deq_empty", l)
        /\ UNCHANGED <<indices, tailBlock, blockIndex, pools, blocks, fails, sent>>

\* set_empty: was this the last element of the block?
LastOne(b) == elementsCompletelyDequeued[b] = BLOCK_SIZE - 1

SetEmpty(c) ==
    LET l == local[c]
    IN  /\ At(c, "deq_empty")
        /\ elementsCompletelyDequeued' = [elementsCompletelyDequeued EXCEPT ![l.block] = @ + 1]
        /\ IF LastOne(l.block)
           THEN Go(c, "deq_clear", [NoDequeue EXCEPT !.q = l.q, !.entry = l.entry,
                                                     !.block = l.block])
           ELSE Go(c, "idle", NoDequeue)
        /\ UNCHANGED <<indices, tailBlock, blockIndex, pools, elements, fails, sent, received>>

\* The empty block leaves the index ...
ClearEntry(c) ==
    LET l == local[c]
    IN  /\ At(c, "deq_clear")
        /\ entries' = [entries EXCEPT ![l.q][l.entry].value = NULL]
        /\ Go(c, "deq_give", l)
        /\ UNCHANGED <<indices, tailBlock, headers, pools, blocks, fails, sent, received>>

\* ... and goes to the free list.
GiveBlock(c) ==
    /\ At(c, "deq_give")
    /\ free' = free \cup {local[c].block}
    /\ Go(c, "idle", NoDequeue)
    /\ UNCHANGED <<indices, tailBlock, blockIndex, initialBlockPoolIndex, created, blocks,
                   fails, sent, received>>
-----------------------------------------------------------------------------
(* ~ConcurrentQueue *)

\* The block of index i of p, as a thread finds it that runs alone.
BlockOf(p, i) == entries[p][EntryFor(p, Header(p), Header(p).tail, i)].value

Left(p) == {(headIndex[p] + k) % W : k \in 0..(((tailIndex[p] - headIndex[p]) % W) - 1)}

\* ~ImplicitProducer gives back the blocks of the elements that are left as it
\* comes to the next one, and then the last block, if it is not there already.
Returned(p) ==
    LET last == BlockBase((tailIndex[p] - 1) % W)
    IN  {BlockOf(p, b) : b \in {BlockBase(i) : i \in Left(p)} \ {last}}
        \cup (IF tailBlock[p] # NULL /\ (Left(p) # {} \/ tailIndex[p] % BLOCK_SIZE # 0)
              THEN {tailBlock[p]} ELSE {})

\* The pipe is deleted when nobody uses it; the blocks in the free list are freed.
pipe_mpmc_delete ==
    /\ \A t \in Threads : At(t, "idle")
    /\ free' = free \cup UNION {Returned(p) : p \in Producers}
    /\ pc' = [t \in Threads |-> "deleted"]
    /\ UNCHANGED <<load, indices, tailBlock, blockIndex, initialBlockPoolIndex, created,
                   blocks, local, fails, sent, received>>
-----------------------------------------------------------------------------
Enqueue(p) ==
    \/ EnqueueBegins(p) \/ InsertKey(p) \/ InsertTail(p) \/ new_block_index(p) \/ NoIndex(p)
    \/ PoolCheck(p) \/ PoolTake(p) \/ FreeListTake(p) \/ CreateBlock(p) \/ NoBlock(p)
    \/ UseBlock(p) \/ WriteElement(p) \/ PublishElement(p)

Dequeue(c) ==
    \/ try_dequeue(c) \/ SizeTail(c) \/ SizeHead(c)
    \/ LoadTail(c) \/ LoadOvercommit(c) \/ CheckCount(c) \/ ClaimCount(c) \/ Recheck(c)
    \/ Overcommit(c) \/ TakeIndex(c) \/ LoadHeader(c) \/ LoadLast(c) \/ FindEntry(c)
    \/ LoadBlock(c) \/ ReadElement(c) \/ SetEmpty(c) \/ ClearEntry(c) \/ GiveBlock(c)

Next ==
    \/ \E p \in Producers : Enqueue(p)
    \/ \E c \in Consumers : Dequeue(c)
    \/ pipe_mpmc_delete

Spec == Init /\ [][Next]_vars

\* recv calls try_dequeue again and again, and every thread is scheduled.
FairSpec ==
    /\ Spec
    /\ \A p \in UNION {DOMAIN l : l \in Loads} : WF_vars(p \in Producers /\ Enqueue(p))
    /\ \A c \in Consumers : WF_vars(Dequeue(c))
-----------------------------------------------------------------------------
(* What the queue promises *)

TypeOK ==
    /\ {tailIndex, headIndex, dequeueOptimisticCount, dequeueOvercommit}
            \subseteq [Producers -> 0..(W - 1)]
    /\ tailBlock \in [Producers -> Blocks \cup {NULL}]
    /\ free \subseteq Blocks /\ created \in 0..MaxBlocks
    /\ elementsCompletelyDequeued \in [Blocks -> 0..BLOCK_SIZE]
    /\ fails \in 0..MaxFails
    /\ \A p \in Producers : sent[p] \in 0..load[p]

\* A consumer that has taken an index finds the block of that index, and there the
\* element with that index, which nobody has received before, whatever blocks
\* and indices came and went while it was on its way (dequeue, lines 2478-2486).
ReadsOwn ==
    \A c \in Consumers : At(c, "deq_read") =>
        LET l == local[c]
        IN  /\ l.block # NULL
            /\ \E n \in 0..(sent[l.q] - 1) :
                    /\ elements[l.block][l.index % BLOCK_SIZE] = <<l.q, n>>
                    /\ n % W = l.index /\ <<l.q, n>> \notin received

\* The assertions on the block index and the blocks: a new index has room (line
\* 2827), the last entry of the index is valid, the entry found has the key that
\* was looked for and a block (2855, 2860), and no block is emptied more than
\* once (1513).
Assertions ==
    /\ \A p \in Producers :
          At(p, "insert_new") => entries[p][NewEntry(p)].key = INVALID_BLOCK_BASE
    /\ \A c \in Consumers :
        LET l == local[c] IN
        /\ At(c, "deq_entry") =>
              /\ entries[l.q][headers[l.q][l.header].index[l.tail]].key # INVALID_BLOCK_BASE
              /\ LET e == entries[l.q][EntryFor(l.q, headers[l.q][l.header], l.tail, l.index)]
                 IN  e.key = BlockBase(l.index) /\ e.value # NULL
        /\ At(c, "deq_empty") => elementsCompletelyDequeued[l.block] < BLOCK_SIZE

\* The blocks that a thread has in its hands, and those in a block index.
Held(t) == IF pc[t] \in {"use_block", "deq_clear", "deq_give"} THEN {local[t].block} ELSE {}
Indexed(p) == {e \in 1..Len(entries[p]) : entries[p][e].value # NULL}

\* Each block is in one place: not yet taken from the initial pool, in the free
\* list, in one entry of one block index, or in the hands of one thread (one that
\* is being cleared is still in its entry).  So no two producers write to the same
\* block and none is given back twice.
OneOwner ==
    LET unused == {b \in Blocks : initialBlockPoolIndex < b /\ b <= initialBlockPoolSize}
        given(t) == IF At(t, "deq_clear") THEN {} ELSE Held(t)
    IN  pc # [t \in Threads |-> "deleted"] => \A b \in 1..created :
        Cardinality({1 : x \in unused \cap {b}}) + Cardinality(free \cap {b})
        + Cardinality({t \in Threads : b \in given(t)})
        + Cardinality({<<p, e>> \in Producers \X (1..(2 * MaxBlocks)) :
                          e \in Indexed(p) /\ entries[p][e].value = b}) = 1

\* Of each sub-queue, the elements claimed are those taken, those that were one
\* too many, and those of the consumers on their way; and no element is taken
\* that has not been enqueued.
ClaimsAddUp ==
    \A p \in Producers :
        LET on(labels) == Cardinality({c \in Consumers : local[c].q = p /\ pc[c] \in labels})
            taken == headIndex[p] + dequeueOvercommit[p]
        IN  /\ dequeueOptimisticCount[p]
                    = (taken + on({"deq_recheck", "deq_index", "deq_undo"})) % W
            /\ (tailIndex[p] - headIndex[p]) % W < W \div 2

\* Deleting the pipe frees every block that was ever made, also those of elements
\* nobody received, and none twice (the destructors, lines 766 to 807 and 2343
\* to 2396).
AllFreed ==
    [][pipe_mpmc_delete =>
        /\ \A p \in Producers : Returned(p) \cap free = {}
        /\ \A p, q \in Producers : p # q => Returned(p) \cap Returned(q) = {}
        /\ 1..created \subseteq free' \cup 1..initialBlockPoolSize]_vars

\* Every element enqueued is received, unless the pipe is deleted before: no
\* element stays behind because consumers overcommitted or a sub-queue looked
\* empty (try_dequeue, lines 1054 to 1061).
Received ==
    <>[](\/ \A t \in Threads : At(t, "deleted")
         \/ \A p \in Producers : \A n \in 0..(sent[p] - 1) : <<p, n>> \in received)
=============================================================================

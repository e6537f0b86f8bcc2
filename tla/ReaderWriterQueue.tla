-------------------------- MODULE ReaderWriterQueue -------------------------
(***************************************************************************)
(* The fast pipe between two tasks (pipe_spsc_ in libmoon/src/pipe.cpp): a *)
(* queue without locks for one producer and one consumer                   *)
(* (libmoon/lib/spsc-queue/readerwriterqueue.h).  It is a circle of        *)
(* blocks, each a circular buffer.  The producer owns tailBlock and the    *)
(* tails, the consumer frontBlock and the fronts; each reads what the      *)
(* other owns, one word at a time, and keeps copies (localTail,            *)
(* localFront) that may be stale.                                          *)
(*                                                                         *)
(* A step accesses shared memory once; what a thread owns it may read in   *)
(* the same step.  The stores of a thread become visible in program order, *)
(* which the fences in the code are there for.                             *)
(***************************************************************************)
EXTENDS Integers, Sequences

CONSTANTS
    Pipes,            \* <<capacity, MAX_BLOCK_SIZE>> of the pipes considered; the
                      \* second is 512 in the program
    MaxItems,         \* bound on the objects sent
    MaxNew,           \* bound on the blocks added later
    MaxCounts         \* bound on the calls of size_approx

ASSUME QueueAssumption ==
    /\ \A p \in Pipes : p[1] \in Nat \ {0} /\ \E k \in 1..12 : p[2] = 2^k
    /\ {MaxItems, MaxNew, MaxCounts} \subseteq Nat

VARIABLES
    maxSize, MAX_BLOCK_SIZE,    \* what the pipe was created with
    blocks,             \* the blocks, in order of creation
    frontBlock, tailBlock,
    largestBlockSize,
    pc,                 \* where each of the two threads is
    item,               \* last object offered: objects are numbered
    next,               \* consumer: the block to advance to
    walk,               \* size_approx of each thread: its place and its sum
    counts,             \* calls of size_approx so far
    received, lost,     \* objects received; objects the queue did not take
    seen                \* longest queue this enqueue has met, and whether this
                        \* dequeue has met an empty one

pipe == <<maxSize, MAX_BLOCK_SIZE>>
vars == <<pipe, blocks, frontBlock, tailBlock, largestBlockSize, pc, item, next,
          walk, counts, received, lost, seen>>

shared == <<pipe, frontBlock, tailBlock, largestBlockSize>>
history == <<received, lost>>

Threads == {"producer", "consumer"}

\* A thread that is not in size_approx.
NoWalk == [first |-> 0, block |-> 0, front |-> 0, sum |-> 0, from |-> 0]

\* make_block: an empty block; no object is 0.
make_block(size, succ) ==
    [front |-> 0, localTail |-> 0, tail |-> 0, localFront |-> 0, next |-> succ,
     size |-> size, data |-> [i \in 0..(size - 1) |-> 0]]

\* The smallest power of two that is not less than x.
ceilToPow2(x) ==
    LET e == CHOOSE k \in 0..x : 2^k >= x /\ \A j \in 0..(k - 1) : 2^j < x IN 2^e

\* Mutant: no block to spare.
initialBlockCount_NoSpare(m) == (m + MAX_BLOCK_SIZE - 2) \div (MAX_BLOCK_SIZE - 1)

\* Blocks of a queue that is too large for one block.
initialBlockCount(m) == (m + MAX_BLOCK_SIZE * 2 - 3) \div (MAX_BLOCK_SIZE - 1)

\* Number and size of the blocks a queue begins with.
OneBlock(m) == ceilToPow2(m + 1) <= MAX_BLOCK_SIZE * 2
FirstBlocks(m) == IF OneBlock(m) THEN 1 ELSE initialBlockCount(m)
FirstSize(m) == IF OneBlock(m) THEN ceilToPow2(m + 1) ELSE MAX_BLOCK_SIZE

\* The constructor.
Init ==
    /\ \E p \in Pipes : maxSize = p[1] /\ MAX_BLOCK_SIZE = p[2]
    /\ largestBlockSize = FirstSize(maxSize)
    /\ blocks = [b \in 1..FirstBlocks(maxSize) |->
                    make_block(FirstSize(maxSize), (b % FirstBlocks(maxSize)) + 1)]
    /\ frontBlock = 1 /\ tailBlock = 1
    /\ pc = [t \in Threads |-> "idle"]
    /\ item = 0 /\ next = 0
    /\ walk = [t \in Threads |-> NoWalk]
    /\ counts = 0
    /\ received = <<>> /\ lost = {}
    /\ seen = [longest |-> 0, empty |-> FALSE]
-----------------------------------------------------------------------------
(* The contents of the queue *)

Go(t, label) == pc' = [pc EXCEPT ![t] = label]
At(t, label) == pc[t] = label

\* The slot after slot i of block b.
After(b, i) == (i + 1) % blocks[b].size

\* The number of objects in block b, and the objects, oldest first.
Used(b) == (blocks[b].tail - blocks[b].front) % blocks[b].size
Content(b) ==
    [i \in 1..Used(b) |-> blocks[b].data[(blocks[b].front + i - 1) % blocks[b].size]]

\* The block n steps after block b.
Ahead(b, n) ==
    LET step[k \in 0..n] == IF k = 0 THEN b ELSE blocks[step[k - 1]].next IN step[n]

\* The queue is what the blocks from frontBlock to tailBlock hold.
Queue ==
    LET last == CHOOSE n \in 0..(Len(blocks) - 1) :
                    /\ Ahead(frontBlock, n) = tailBlock
                    /\ \A k \in 0..(n - 1) : Ahead(frontBlock, k) # tailBlock
        cat[n \in 0..last] ==
            IF n = 0 THEN Content(frontBlock) ELSE cat[n - 1] \o Content(Ahead(frontBlock, n))
    IN  cat[last]

LongestSeen == [seen EXCEPT !.longest = IF Len(Queue) > @ THEN Len(Queue) ELSE @]
-----------------------------------------------------------------------------
(* inner_enqueue: the producer *)

EnqueueReturns == Go("producer", "idle") /\ seen' = [seen EXCEPT !.longest = 0]

\* An object is sent with enqueue or with try_enqueue ("alloc" or "full" when
\* there is no room).  The copy of front may say that there is room.
EnqueueBegins ==
    /\ At("producer", "idle") /\ item < MaxItems
    /\ item' = item + 1
    /\ seen' = [seen EXCEPT !.longest = Len(Queue)]
    /\ IF After(tailBlock, blocks[tailBlock].tail) # blocks[tailBlock].localFront
       THEN Go("producer", "write")
       ELSE Go("producer", "load_front")
    /\ UNCHANGED <<shared, blocks, next, walk, counts, history>>

\* The front itself is read: is the tail block full?
LoadFront ==
    /\ At("producer", "load_front")
    /\ blocks' = [blocks EXCEPT ![tailBlock].localFront = blocks[tailBlock].front]
    /\ IF After(tailBlock, blocks[tailBlock].tail) # blocks[tailBlock].front
       THEN Go("producer", "write")
       ELSE Go("producer", "load_frontBlock")
    /\ seen' = LongestSeen
    /\ UNCHANGED <<shared, item, next, walk, counts, history>>

\* Mutant: the element is stored one slot too far.
WriteElement_NextSlot ==
    LET slot == After(tailBlock, blocks[tailBlock].tail)
    IN  /\ At("producer", "write")
        /\ blocks' = [blocks EXCEPT ![tailBlock].data[slot] = item]
        /\ Go("producer", "store_tail")
        /\ UNCHANGED <<shared, item, next, walk, counts, history, seen>>

\* The element is stored in the tail block ...
WriteElement ==
    /\ At("producer", "write")
    /\ blocks' = [blocks EXCEPT ![tailBlock].data[blocks[tailBlock].tail] = item]
    /\ Go("producer", "store_tail")
    /\ UNCHANGED <<shared, item, next, walk, counts, history, seen>>

\* ... and the tail moved.
StoreTail ==
    /\ At("producer", "store_tail")
    /\ blocks' = [blocks EXCEPT ![tailBlock].tail = After(tailBlock, @)]
    /\ EnqueueReturns
    /\ UNCHANGED <<shared, item, next, walk, counts, history>>

\* Is the next block free?
LoadFrontBlock ==
    /\ At("producer", "load_frontBlock")
    /\ IF blocks[tailBlock].next # frontBlock
       THEN Go("producer", "use_next")
       ELSE Go("producer", "no_room")
    /\ seen' = LongestSeen
    /\ UNCHANGED <<shared, blocks, item, next, walk, counts, history>>

\* The next block is free: its front is copied and the element stored in it.
UseNext ==
    LET b == blocks[tailBlock].next
    IN  /\ At("producer", "use_next")
        /\ blocks' = [blocks EXCEPT ![b].localFront = blocks[b].front,
                                    ![b].data[blocks[b].tail] = item]
        /\ Go("producer", "next_tail")
        /\ UNCHANGED <<shared, item, next, walk, counts, history, seen>>

StoreNextTail ==
    LET b == blocks[tailBlock].next
    IN  /\ At("producer", "next_tail")
        /\ blocks' = [blocks EXCEPT ![b].tail = After(b, @)]
        /\ Go("producer", "store_tailBlock")
        /\ UNCHANGED <<shared, item, next, walk, counts, history, seen>>

\* tailBlock moves on to the block after it.
StoreTailBlock ==
    /\ At("producer", "store_tailBlock")
    /\ tailBlock' = blocks[tailBlock].next
    /\ EnqueueReturns
    /\ UNCHANGED <<pipe, blocks, frontBlock, largestBlockSize, item, next, walk,
                   counts, history>>

\* No room.  enqueue makes a block, which holds the element ...
MakeBlock ==
    LET size == IF largestBlockSize >= MAX_BLOCK_SIZE THEN largestBlockSize
                ELSE largestBlockSize * 2
    IN  /\ At("producer", "no_room") /\ Len(blocks) < FirstBlocks(maxSize) + MaxNew
        /\ largestBlockSize' = size
        /\ blocks' = Append(blocks, [make_block(size, blocks[tailBlock].next) EXCEPT
                                        !.tail = 1, !.localTail = 1, !.data[0] = item])
        /\ Go("producer", "link")
        /\ UNCHANGED <<pipe, frontBlock, tailBlock, item, next, walk, counts, history, seen>>

\* ... and links it in after the tail block.
LinkBlock ==
    /\ At("producer", "link")
    /\ blocks' = [blocks EXCEPT ![tailBlock].next = Len(blocks)]
    /\ Go("producer", "store_tailBlock")
    /\ UNCHANGED <<shared, item, next, walk, counts, history, seen>>

\* try_enqueue returns false, or enqueue finds no memory and also returns
\* false, which pipe_spsc_enqueue does not pass on.
Refused ==
    /\ At("producer", "no_room")
    /\ lost' = lost \cup {item}
    /\ EnqueueReturns
    /\ UNCHANGED <<shared, blocks, item, next, walk, counts, received>>
-----------------------------------------------------------------------------
(* try_dequeue: the consumer *)

DequeueReturns == Go("consumer", "idle") /\ seen' = [seen EXCEPT !.empty = FALSE]

\* Is there anything in the front block, by the copy of its tail?
DequeueBegins ==
    /\ At("consumer", "idle")
    /\ seen' = [seen EXCEPT !.empty = (Queue = <<>>)]
    /\ IF blocks[frontBlock].front # blocks[frontBlock].localTail
       THEN Go("consumer", "read")
       ELSE Go("consumer", "load_tail")
    /\ UNCHANGED <<shared, blocks, item, next, walk, counts, history>>

\* The tail of block b is copied; the consumer goes on according to whether the
\* block has an element.
CopyTail(b, some, none) ==
    /\ blocks' = [blocks EXCEPT ![b].localTail = blocks[b].tail]
    /\ Go("consumer", IF blocks[b].front # blocks[b].tail THEN some ELSE none)
    /\ seen' = [seen EXCEPT !.empty = @ \/ Queue = <<>>]
    /\ UNCHANGED <<shared, item, next, walk, counts, history>>

LoadTail == At("consumer", "load_tail") /\ CopyTail(frontBlock, "read", "load_tailBlock")

\* An empty front block that is the tail block: there is nothing to dequeue.
LoadTailBlock ==
    /\ At("consumer", "load_tailBlock")
    /\ IF frontBlock # tailBlock
       THEN Go("consumer", "load_tail_again") /\ UNCHANGED seen
       ELSE DequeueReturns
    /\ UNCHANGED <<shared, blocks, item, next, walk, counts, history>>

\* It is not the tail block: it may have been filled after it was looked at.
LoadTailAgain == At("consumer", "load_tail_again") /\ CopyTail(frontBlock, "read", "load_next")

\* The front block is empty and there is another one.
LoadNext ==
    /\ At("consumer", "load_next")
    /\ next' = blocks[frontBlock].next
    /\ Go("consumer", "load_next_tail")
    /\ UNCHANGED <<shared, blocks, item, walk, counts, history, seen>>

LoadNextTail == At("consumer", "load_next_tail") /\ CopyTail(next, "advance", "assertion")

\* frontBlock moves on, and the element is taken from there.
Advance ==
    /\ At("consumer", "advance")
    /\ frontBlock' = next
    /\ next' = 0
    /\ Go("consumer", "read")
    /\ UNCHANGED <<pipe, blocks, tailBlock, largestBlockSize, item, walk, counts,
                   history, seen>>

\* The element is read ...
ReadElement ==
    /\ At("consumer", "read")
    /\ received' = Append(received, blocks[frontBlock].data[blocks[frontBlock].front])
    /\ Go("consumer", "store_front")
    /\ UNCHANGED <<shared, blocks, item, next, walk, counts, lost, seen>>

\* ... and its slot given back.
StoreFront ==
    /\ At("consumer", "store_front")
    /\ blocks' = [blocks EXCEPT ![frontBlock].front = After(frontBlock, @)]
    /\ DequeueReturns
    /\ UNCHANGED <<shared, item, next, walk, counts, history>>
-----------------------------------------------------------------------------
(* size_approx, in either thread, and the destructor *)

CountBegins(t) ==
    /\ At(t, "idle") /\ counts < MaxCounts
    /\ counts' = counts + 1
    /\ walk' = [walk EXCEPT ![t] = [NoWalk EXCEPT !.first = frontBlock, !.block = frontBlock,
                                                  !.from = Len(Queue)]]
    /\ Go(t, "count_front")
    /\ UNCHANGED <<shared, blocks, item, next, history, seen>>

CountFront(t) ==
    /\ At(t, "count_front")
    /\ walk' = [walk EXCEPT ![t].front = blocks[walk[t].block].front]
    /\ Go(t, "count_tail")
    /\ UNCHANGED <<shared, blocks, item, next, counts, history, seen>>

\* Mutant: the difference is not reduced to the size of the block.
CountTail_NoMask(t) ==
    LET b == blocks[walk[t].block]
    IN  /\ At(t, "count_tail")
        /\ walk' = [walk EXCEPT ![t].sum = @ + (b.tail - walk[t].front)]
        /\ Go(t, "count_next")
        /\ UNCHANGED <<shared, blocks, item, next, counts, history, seen>>

CountTail(t) ==
    LET b == blocks[walk[t].block]
    IN  /\ At(t, "count_tail")
        /\ walk' = [walk EXCEPT ![t].sum = @ + ((b.tail - walk[t].front) % b.size)]
        /\ Go(t, "count_next")
        /\ UNCHANGED <<shared, blocks, item, next, counts, history, seen>>

\* The next block, or the sum is returned.
CountNext(t) ==
    LET b == blocks[walk[t].block].next
    IN  /\ At(t, "count_next")
        /\ IF b = walk[t].first
           THEN walk' = [walk EXCEPT ![t] = NoWalk] /\ Go(t, "idle")
           ELSE walk' = [walk EXCEPT ![t].block = b] /\ Go(t, "count_front")
        /\ UNCHANGED <<shared, blocks, item, next, counts, history, seen>>

\* The blocks the destructor frees: once round the circle, from frontBlock.
Freed == {Ahead(frontBlock, n) : n \in 0..(Len(blocks) - 1)}

\* The pipe is deleted when both threads have finished with it.
pipe_spsc_delete ==
    /\ item = MaxItems /\ \A t \in Threads : At(t, "idle")
    /\ pc' = [t \in Threads |-> "deleted"]
    /\ UNCHANGED <<shared, blocks, item, next, walk, counts, history, seen>>
-----------------------------------------------------------------------------
Produce ==
    \/ EnqueueBegins \/ LoadFront \/ WriteElement \/ StoreTail \/ LoadFrontBlock
    \/ UseNext \/ StoreNextTail \/ StoreTailBlock \/ MakeBlock \/ LinkBlock \/ Refused

Consume ==
    \/ DequeueBegins \/ LoadTail \/ LoadTailBlock \/ LoadTailAgain \/ LoadNext
    \/ LoadNextTail \/ Advance \/ ReadElement \/ StoreFront

Count(t) == CountBegins(t) \/ CountFront(t) \/ CountTail(t) \/ CountNext(t)

CountGoesOn(t) == CountFront(t) \/ CountTail(t) \/ CountNext(t)

Next == Produce \/ Consume \/ (\E t \in Threads : Count(t)) \/ pipe_spsc_delete

Spec == Init /\ [][Next]_vars

\* recv calls try_dequeue again and again, and both threads are scheduled.
FairSpec ==
    /\ Spec
    /\ WF_vars(Produce) /\ WF_vars(Consume)
    /\ \A t \in Threads : WF_vars(CountGoesOn(t))
-----------------------------------------------------------------------------
(* Properties *)

\* Type invariant.
TypeOK ==
    /\ {frontBlock, tailBlock} \subseteq 1..Len(blocks)
    /\ \A b \in 1..Len(blocks) :
          /\ blocks[b].next \in 1..Len(blocks)
          /\ {blocks[b].front, blocks[b].tail, blocks[b].localFront, blocks[b].localTail}
                \subseteq 0..(blocks[b].size - 1)
    /\ item \in 0..MaxItems
    /\ lost \subseteq 1..MaxItems

\* The pipe is a first-in first-out queue: whatever the two threads do, an object
\* enters at the end by one store of the producer and leaves at the front by one
\* store of the consumer.
Fifo == INSTANCE BoundedFifo WITH Item <- 1..MaxItems, Bound <- MaxItems, queue <- Queue
FifoSpec == Fifo!Spec

\* What the consumer has received is what was sent, in order, without the objects
\* the queue refused: no slot is overwritten before it has been read, or read
\* before it has been written.
InOrder ==
    LET n == Len(received)
    IN  n > 0 => received = SelectSeq([i \in 1..received[n] |-> i], LAMBDA i : i \notin lost)

\* "we know there's for sure an element to dequeue on it" (line 251) and "This
\* block must be empty since it's not the head block" (line 457): the assertions
\* of the two functions hold.
Assertions ==
    /\ ~At("consumer", "assertion")
    /\ At("producer", "use_next") =>
          LET b == blocks[blocks[tailBlock].next] IN b.front = b.tail

\* "Constructs a queue that can hold maxSize elements without further
\* allocations" (line 64): no room is reported only by a call during which the
\* queue held that many.  And try_dequeue returns false only if the queue was
\* empty at some moment of the call: no filled block is skipped.
AnswersJustified ==
    [][/\ At("producer", "no_room") => LongestSeen.longest >= maxSize
       /\ At("consumer", "load_tailBlock") /\ pc'["consumer"] = "idle" => seen.empty]_vars

\* size_approx lies between the length of the queue when it was called and the
\* length when it returns; an object that is just being put into the next block
\* may be counted before it can be dequeued.
CountBracketed ==
    [][\A t \in Threads :
          At(t, "count_next") /\ pc'[t] = "idle" =>
             LET n == Len(Queue)
                 m == IF At("producer", "store_tailBlock") THEN n + 1 ELSE n
             IN  IF t = "consumer" THEN walk[t].sum \in walk[t].from .. m
                 ELSE walk[t].sum \in n .. walk[t].from]_vars

\* The destructor reaches every block that was made, however the circle grew.
AllFreed == At("producer", "deleted") => Freed = 1..Len(blocks)

\* Every object that the queue took is received in the end, unless the pipe is
\* deleted first: the consumer is never stuck at an empty block with a filled one
\* ahead.
Received ==
    <>\/ At("producer", "deleted")
      \/ \A i \in 1..MaxItems : i \in lost \/ \E k \in 1..Len(received) : received[k] = i
=============================================================================

------------------------------ MODULE FreeList ------------------------------
(***************************************************************************)
(* The free list of the slow pipes' queue (FreeList in                     *)
(* libmoon/lib/concurrentqueue/concurrentqueue.h): a stack without locks,  *)
(* of blocks that any thread may take and any thread may give back.  Since *)
(* a block can leave the stack and come back while another thread is about *)
(* to exchange the head, each block counts the threads that look at it     *)
(* (freeListRefs), and one that is still looked at is put back by whoever  *)
(* looks away last.                                                        *)
(*                                                                         *)
(* Each step is one atomic access.                                         *)
(***************************************************************************)
EXTENDS Integers, FiniteSets

CONSTANTS
    Threads,
    Nodes,                   \* the blocks
    NULL,
    SHOULD_BE_ON_FREELIST    \* the flag in freeListRefs, 2^31

ASSUME FreeListAssumption ==
    /\ NULL \notin Nodes \cup Threads
    /\ SHOULD_BE_ON_FREELIST \in Nat \ {0}
    /\ IsFiniteSet(Threads) /\ SHOULD_BE_ON_FREELIST > Cardinality(Threads) + 2

VARIABLES
    freeListHead,
    freeListRefs, freeListNext,     \* fields of the blocks
    free,      \* the blocks that nobody has taken
    pc,        \* where each thread is in add or try_get
    local      \* its local variables: head, refs, next of try_get; node, old
               \* (the "head" of add_knowing_refcount_is_zero), and whether it
               \* was called from try_get

vars == <<freeListHead, freeListRefs, freeListNext, free, pc, local>>
list == <<freeListHead, freeListRefs, freeListNext>>

NoLocal == [head |-> NULL, prevHead |-> NULL, refs |-> 0, next |-> NULL, node |-> NULL,
            old |-> NULL, inGet |-> FALSE]

\* The list is empty; the blocks there are have been created for some thread.
Init ==
    /\ freeListHead = NULL
    /\ freeListRefs = [n \in Nodes |-> 0]
    /\ freeListNext = [n \in Nodes |-> NULL]
    /\ free = {}
    /\ pc = [t \in Threads |-> "idle"]
    /\ local = [t \in Threads |-> NoLocal]

At(t, label) == pc[t] = label

\* Thread t goes on at a label with locals l; it returns to its caller.
Go(t, label, l) == pc' = [pc EXCEPT ![t] = label] /\ local' = [local EXCEPT ![t] = l]
Return(t) == Go(t, "idle", NoLocal)
-----------------------------------------------------------------------------
(* add *)

\* A block that some try_get has returned comes back.  The flag is set;
\* add_knowing_refcount_is_zero is for a block nobody looks at.
add(t, n) ==
    /\ At(t, "idle") /\ n \notin free
    /\ \A u \in Threads : At(u, "get_got") => local[u].head # n
    /\ free' = free \cup {n}
    /\ freeListRefs' = [freeListRefs EXCEPT ![n] = @ + SHOULD_BE_ON_FREELIST]
    /\ IF freeListRefs[n] = 0
       THEN Go(t, "zero_head", [local[t] EXCEPT !.node = n])
       ELSE Return(t)
    /\ UNCHANGED <<freeListHead, freeListNext>>
-----------------------------------------------------------------------------
(* try_get *)

\* The loop goes on with h for a head, or ends.
Loop(t, h) == IF h = NULL THEN Return(t) ELSE Go(t, "get_refs", [NoLocal EXCEPT !.head = h])

try_get(t) == At(t, "idle") /\ Loop(t, freeListHead) /\ UNCHANGED <<list, free>>

ReloadHead(t) == At(t, "get_head") /\ Loop(t, freeListHead) /\ UNCHANGED <<list, free>>

\* The count of the head; a block without any count has been taken meanwhile.
LoadRefs(t) ==
    LET refs == freeListRefs[local[t].head]
    IN  /\ At(t, "get_refs")
        /\ IF refs % SHOULD_BE_ON_FREELIST = 0
           THEN Go(t, "get_head", NoLocal)
           ELSE Go(t, "get_count", [local[t] EXCEPT !.refs = refs])
        /\ UNCHANGED <<list, free>>

\* The count is increased, unless it has changed.
CountMe(t) ==
    LET h == local[t].head
    IN  /\ At(t, "get_count")
        /\ IF freeListRefs[h] = local[t].refs
           THEN /\ freeListRefs' = [freeListRefs EXCEPT ![h] = @ + 1]
                /\ Go(t, "get_next", local[t])
           ELSE /\ Go(t, "get_head", NoLocal)
                /\ UNCHANGED freeListRefs
        /\ UNCHANGED <<freeListHead, freeListNext, free>>

LoadNext(t) ==
    /\ At(t, "get_next")
    /\ Go(t, "get_pop", [local[t] EXCEPT !.next = freeListNext[local[t].head]])
    /\ UNCHANGED <<list, free>>

\* Mutant: the head is replaced although it has changed.
PopHead_Store(t) ==
    LET h == local[t].head
    IN  /\ At(t, "get_pop")
        /\ freeListHead' = local[t].next
        /\ free' = free \ {h}
        /\ Go(t, "get_got", [NoLocal EXCEPT !.head = h])
        /\ UNCHANGED <<freeListRefs, freeListNext>>

\* The head is replaced by the next block and the block is ours; or the head has
\* changed and is read.
PopHead(t) ==
    LET h == local[t].head
    IN  /\ At(t, "get_pop")
        /\ IF freeListHead = h
           THEN /\ freeListHead' = local[t].next
                /\ free' = free \ {h}
                /\ Go(t, "get_got", [NoLocal EXCEPT !.head = h])
           ELSE /\ Go(t, "get_failed", [NoLocal EXCEPT !.prevHead = h, !.head = freeListHead])
                /\ UNCHANGED <<freeListHead, free>>
        /\ UNCHANGED <<freeListRefs, freeListNext>>

\* Our count and the count of the list are given up.
DropBoth(t) ==
    /\ At(t, "get_got")
    /\ freeListRefs' = [freeListRefs EXCEPT ![local[t].head] = @ - 2]
    /\ Return(t)
    /\ UNCHANGED <<freeListHead, freeListNext, free>>

\* Mutant: a block that should be on the list is left to others.
DropMine_Forget(t) ==
    LET p == local[t].prevHead
    IN  /\ At(t, "get_failed")
        /\ freeListRefs' = [freeListRefs EXCEPT ![p] = @ - 1]
        /\ Loop(t, local[t].head)
        /\ UNCHANGED <<freeListHead, freeListNext, free>>

\* Our count is given up; if it was the last one of a block that should be on
\* the list, we put it there.
DropMine(t) ==
    LET p == local[t].prevHead
    IN  /\ At(t, "get_failed")
        /\ freeListRefs' = [freeListRefs EXCEPT ![p] = @ - 1]
        /\ IF freeListRefs[p] = SHOULD_BE_ON_FREELIST + 1
           THEN Go(t, "zero_head", [local[t] EXCEPT !.node = p, !.inGet = TRUE])
           ELSE Loop(t, local[t].head)
        /\ UNCHANGED <<freeListHead, freeListNext, free>>
-----------------------------------------------------------------------------
(* add_knowing_refcount_is_zero *)

LoadHead(t) ==
    /\ At(t, "zero_head")
    /\ Go(t, "zero_next", [local[t] EXCEPT !.old = freeListHead])
    /\ UNCHANGED <<list, free>>

StoreNext(t) ==
    /\ At(t, "zero_next")
    /\ freeListNext' = [freeListNext EXCEPT ![local[t].node] = local[t].old]
    /\ Go(t, "zero_refs", local[t])
    /\ UNCHANGED <<freeListHead, freeListRefs, free>>

\* The count of the list, and no flag.
StoreRefs(t) ==
    /\ At(t, "zero_refs")
    /\ freeListRefs' = [freeListRefs EXCEPT ![local[t].node] = 1]
    /\ Go(t, "zero_push", local[t])
    /\ UNCHANGED <<freeListHead, freeListNext, free>>

\* Back to add or into the loop of try_get.
ZeroReturns(t) == IF local[t].inGet THEN Loop(t, local[t].head) ELSE Return(t)

\* The block becomes the head; or the head has changed and is read.
PushHead(t) ==
    /\ At(t, "zero_push")
    /\ IF freeListHead = local[t].old
       THEN freeListHead' = local[t].node /\ ZeroReturns(t)
       ELSE /\ Go(t, "zero_failed", [local[t] EXCEPT !.old = freeListHead])
            /\ UNCHANGED freeListHead
    /\ UNCHANGED <<freeListRefs, freeListNext, free>>

\* The list's count is exchanged for the flag.  Somebody may look at the block
\* by now, and will then be the one to try again.
SetFlag(t) ==
    LET n == local[t].node
    IN  /\ At(t, "zero_failed")
        /\ freeListRefs' = [freeListRefs EXCEPT ![n] = @ + SHOULD_BE_ON_FREELIST - 1]
        /\ IF freeListRefs[n] = 1 THEN Go(t, "zero_next", local[t]) ELSE ZeroReturns(t)
        /\ UNCHANGED <<freeListHead, freeListNext, free>>
-----------------------------------------------------------------------------
TryGet(t) ==
    \/ ReloadHead(t) \/ LoadRefs(t) \/ CountMe(t) \/ LoadNext(t) \/ PopHead(t)
    \/ DropBoth(t) \/ DropMine(t)

AddZero(t) == LoadHead(t) \/ StoreNext(t) \/ StoreRefs(t) \/ PushHead(t) \/ SetFlag(t)

Next ==
    \E t \in Threads :
        try_get(t) \/ TryGet(t) \/ AddZero(t) \/ \E n \in Nodes : add(t, n)

Spec == Init /\ [][Next]_vars
-----------------------------------------------------------------------------
(* Properties *)

\* The set has the first block, and after every block of it the next.
Follows(A) ==
    /\ freeListHead # NULL => freeListHead \in A
    /\ \A b \in A : freeListNext[b] # NULL => freeListNext[b] \in A

\* The blocks on the list.
OnList == {n \in Nodes : \A A \in SUBSET Nodes : Follows(A) => n \in A}

\* Type invariant.
TypeOK ==
    /\ freeListHead \in Nodes \cup {NULL}
    /\ freeListRefs \in [Nodes -> 0..(2 * SHOULD_BE_ON_FREELIST - 1)]
    /\ freeListNext \in [Nodes -> Nodes \cup {NULL}]
    /\ free \subseteq Nodes

\* The list is a pool of blocks: what one thread takes is free before, and is
\* nobody else's until it is given back, although a block may come back to the list while
\* others are about to exchange the head.
TakenBy == [t \in Threads |-> IF At(t, "get_got") THEN local[t].head ELSE NULL]
Pool == INSTANCE BlockPool WITH Thread <- Threads, Block <- Nodes, NoBlock <- NULL, taken <- TakenBy
PoolSpec == Pool!Spec

\* The threads that have counted themselves in the count of block n.
Watchers(n) ==
    {t \in Threads :
        \/ pc[t] \in {"get_next", "get_pop", "get_got"} /\ local[t].head = n
        \/ At(t, "get_failed") /\ local[t].prevHead = n}

\* A block that is free is on the list, or somebody is about to put it there, or
\* somebody looks at it who will find the flag set: with no call under way, the
\* list has exactly the free blocks.
NothingLost ==
    \A n \in free :
        \/ n \in OnList
        \/ \E t \in Threads : local[t].node = n
        \/ Watchers(n) # {} /\ freeListRefs[n] >= SHOULD_BE_ON_FREELIST

\* "shouldBeOnFreeList must be false no matter the refcount" (line 1396): the
\* assertion of try_get holds; and "we run only one copy of this method per node
\* at a time" (line 1424), of add_knowing_refcount_is_zero.
Claimed ==
    /\ \A t \in Threads :
          At(t, "get_got") => freeListRefs[local[t].head] < SHOULD_BE_ON_FREELIST
    /\ \A t, u \in Threads :
          local[t].node # NULL /\ local[t].node = local[u].node => t = u
=============================================================================

-------------------------- MODULE FreeListProofs --------------------------
(***************************************************************************)
(* The free list implements a pool of blocks and loses none of them, for   *)
(* any number of threads and blocks.                                       *)
(***************************************************************************)
EXTENDS FreeList, TLAPS

S == SHOULD_BE_ON_FREELIST

Labels ==
    {"idle", "get_head", "get_refs", "get_count", "get_next", "get_pop", "get_got", "get_failed",
     "zero_head", "zero_next", "zero_refs", "zero_push", "zero_failed"}

Locals ==
    [head : Nodes \cup {NULL}, prevHead : Nodes \cup {NULL}, refs : Nat, next : Nodes \cup {NULL},
     node : Nodes \cup {NULL}, old : Nodes \cup {NULL}, inGet : BOOLEAN]

\* What there is to know of the size of a set of threads.
SizeOf(A) ==
    /\ Cardinality(A) \in Nat
    /\ Cardinality(A) + 2 < S
    /\ Cardinality(A) = 0 <=> A = {}
    /\ \A x \in Threads : x \notin A => Cardinality(A \cup {x}) = Cardinality(A) + 1
    /\ \A x \in A : Cardinality(A \ {x}) = Cardinality(A) - 1

\* The types of all variables.  The first conjunct says nothing of the state: it is
\* shown once, of the initial states, and the steps find it here.
Types ==
    /\ \A A \in SUBSET Threads : SizeOf(A)
    /\ freeListHead \in Nodes \cup {NULL}
    /\ freeListRefs \in [Nodes -> Nat]
    /\ freeListNext \in [Nodes -> Nodes \cup {NULL}]
    /\ free \subseteq Nodes
    /\ pc \in [Threads -> Labels]
    /\ local \in [Threads -> Locals]

Getting == {"get_refs", "get_count", "get_next", "get_pop", "get_got"}
Adding == {"zero_head", "zero_next", "zero_refs", "zero_push", "zero_failed"}

\* What the locals of a thread hold at each label.
Threaded(t) ==
    /\ pc[t] \in Getting => local[t].head # NULL
    /\ At(t, "get_failed") => local[t].prevHead # NULL
    /\ pc[t] \in Adding <=> local[t].node # NULL
    /\ At(t, "get_count") => local[t].refs % S # 0
    /\ At(t, "get_pop") => local[t].next = freeListNext[local[t].head]
    /\ At(t, "get_got") => local[t].head \notin free
    /\ local[t].node # NULL => local[t].node \in free
    /\ pc[t] \in {"zero_refs", "zero_push"} => freeListNext[local[t].node] = local[t].old

\* No two threads take, or put back, the same block.
Alone ==
    /\ \A t, u \in Threads :
          At(t, "get_got") /\ At(u, "get_got") /\ local[t].head = local[u].head => t = u
    /\ \A t, u \in Threads :
          local[t].node # NULL /\ local[t].node = local[u].node => t = u

Count(n) == Cardinality(Watchers(n))

Added(n) == \E t \in Threads : local[t].node = n
Unseen(n) ==
    \E t \in Threads : local[t].node = n /\ pc[t] \in {"zero_head", "zero_next", "zero_refs"}
Taking(n) == \E t \in Threads : At(t, "get_got") /\ local[t].head = n

\* The blocks that are on the list.
Listed(n) == n \in free /\ freeListRefs[n] < S /\ ~Added(n)

\* What the count of a block says: who looks at it, and the list or the flag.
Counted(n) ==
    /\ n \notin free /\ ~Taking(n) => freeListRefs[n] = Count(n)
    /\ Taking(n) => freeListRefs[n] = Count(n) + 1
    /\ Unseen(n) => freeListRefs[n] = S /\ Count(n) = 0
    /\ Added(n) /\ ~Unseen(n) => freeListRefs[n] = Count(n) + 1
    /\ Listed(n) => freeListRefs[n] = Count(n) + 1
    /\ n \in free /\ ~Added(n) /\ ~Listed(n) => freeListRefs[n] = S + Count(n) /\ Count(n) > 0

\* The list begins with a block that is on it, and goes on with such blocks; no two
\* of them have the same successor and none leads back to the first.
Linked ==
    /\ freeListHead # NULL => Listed(freeListHead)
    /\ \A n \in Nodes : Listed(n) /\ freeListNext[n] # NULL =>
          /\ Listed(freeListNext[n])
          /\ freeListNext[n] # freeListHead
          /\ \A m \in Nodes : Listed(m) /\ freeListNext[m] = freeListNext[n] => m = n

\* Every such block is reached from the head.
Reached == \A n \in Nodes : Listed(n) => n \in OnList

\* The inductive invariant.
IInv ==
    /\ Types
    /\ \A t \in Threads : Threaded(t)
    /\ Alone
    /\ \A n \in Nodes : Counted(n)
    /\ Linked
    /\ Reached
-----------------------------------------------------------------------------
(* Facts about the counts *)

LEMMA FlagPositive == S \in Nat /\ S > 0 /\ S % S = 0
<1>1. S \in Nat /\ S > 0
  BY FreeListAssumption DEF S
<1>2. \A s \in Nat : s > 0 => s % s = 0
  BY SMT
<1> QED BY <1>1, <1>2, Zenon

LEMMA NoNode == NULL \notin Nodes
BY FreeListAssumption, Zenon

LEMMA Sizes ==
    ASSUME Types, NEW A \in SUBSET Threads
    PROVE  SizeOf(A)
BY Zenon DEF Types

\* A thread at this label with these locals has counted itself in the count of n.
Looks(label, l, n) ==
    \/ label \in {"get_next", "get_pop", "get_got"} /\ l.head = n
    \/ label = "get_failed" /\ l.prevHead = n

\* What a step of one thread does to the counts of those who look at a block.
LEMMA Moved ==
    ASSUME Types, NEW t \in Threads, NEW label, NEW l, Go(t, label, l)
    PROVE  /\ pc'[t] = label /\ local'[t] = l
           /\ \A u \in Threads \ {t} : pc'[u] = pc[u] /\ local'[u] = local[u]
BY Zenon DEF Types, Go

LEMMA Recounted ==
    ASSUME Types, NEW t \in Threads, NEW label, NEW l, Go(t, label, l), NEW n
    PROVE  /\ Count(n) \in Nat /\ Count(n) + 2 < S
           /\ Count(n)' \in Nat /\ Count(n)' + 2 < S
           /\ Looks(pc[t], local[t], n) => Count(n) > 0
           /\ (Looks(label, l, n) <=> Looks(pc[t], local[t], n)) => Count(n)' = Count(n)
           /\ Looks(label, l, n) /\ ~Looks(pc[t], local[t], n) => Count(n)' = Count(n) + 1
           /\ ~Looks(label, l, n) /\ Looks(pc[t], local[t], n) => Count(n)' = Count(n) - 1
<1> DEFINE A == Watchers(n)
           B == Watchers(n)'
<1>1. /\ A \in SUBSET Threads /\ B \in SUBSET Threads
      /\ t \in A <=> Looks(pc[t], local[t], n)
      /\ t \in B <=> Looks(label, l, n)
      /\ A \ {t} = B \ {t}
  BY Moved DEF Watchers, Looks, At
<1>2. /\ Cardinality(A) \in Nat /\ Cardinality(A) + 2 < S
      /\ Cardinality(B) \in Nat /\ Cardinality(B) + 2 < S
      /\ Cardinality(A) = 0 <=> A = {}
  BY <1>1, Sizes, Zenon DEF SizeOf
<1>3. CASE t \in A <=> t \in B
  <2>1. A = B
    BY <1>1, <1>3
  <2> QED BY <1>1, <1>2, <1>3, <2>1 DEF Count
<1>4. CASE t \in A /\ t \notin B
  <2>1. B = A \ {t}
    BY <1>1, <1>4, Zenon
  <2>2. Cardinality(B) = Cardinality(A) - 1
    BY <1>1, <1>4, <2>1, Sizes DEF SizeOf
  <2> QED BY <1>1, <1>2, <1>4, <2>2 DEF Count
<1>5. CASE t \notin A /\ t \in B
  <2>1. B = A \cup {t}
    BY <1>1, <1>5, Zenon
  <2>2. Cardinality(B) = Cardinality(A) + 1
    BY <1>1, <1>5, <2>1, Sizes DEF SizeOf
  <2> QED BY <1>1, <1>2, <1>5, <2>2, Zenon DEF Count
<1> QED BY <1>3, <1>4, <1>5, Zenon

-----------------------------------------------------------------------------
(* Steps *)

Hidden == {"zero_head", "zero_next", "zero_refs"}

\* A step that does not change the count of a block, nor the part the thread has in
\* it, keeps what the count says.
LEMMA Others ==
    ASSUME Types, NEW t \in Threads, NEW label, NEW l, Go(t, label, l),
           NEW n \in Nodes, Counted(n),
           freeListRefs'[n] = freeListRefs[n], n \in free' <=> n \in free,
           Looks(label, l, n) <=> Looks(pc[t], local[t], n),
           l.node = n <=> local[t].node = n,
           l.node = n => (label \in Hidden <=> pc[t] \in Hidden),
           label = "get_got" /\ l.head = n <=> pc[t] = "get_got" /\ local[t].head = n
    PROVE  Counted(n)' /\ (Listed(n)' <=> Listed(n))
<1>1. /\ pc'[t] = label /\ local'[t] = l
      /\ \A u \in Threads \ {t} : pc'[u] = pc[u] /\ local'[u] = local[u]
      /\ Count(n)' = Count(n)
  BY Moved, Recounted
<1>2. Added(n)' <=> Added(n)
  BY <1>1, Zenon DEF Added
<1>3. Unseen(n)' <=> Unseen(n)
  BY <1>1, Zenon DEF Unseen, Hidden
<1>4. Taking(n)' <=> Taking(n)
  BY <1>1, Zenon DEF Taking, At
<1>5. Listed(n)' <=> Listed(n)
  BY <1>2, Zenon DEF Listed
<1> HIDE DEF Added, Unseen, Taking, Listed, Count
<1> QED BY <1>1, <1>2, <1>3, <1>4, <1>5, Zenon DEF Counted

\* A step leaves the block that a thread is about to take, or is putting back, alone.
Undisturbed(u) ==
    /\ At(u, "get_pop") => freeListNext'[local[u].head] = freeListNext[local[u].head]
    /\ At(u, "get_got") => local[u].head \notin free'
    /\ local[u].node # NULL =>
          /\ local[u].node \in free'
          /\ freeListNext'[local[u].node] = freeListNext[local[u].node]

\* The threads other than the one that takes a step.
LEMMA OthersThreaded ==
    ASSUME Types, NEW t \in Threads, NEW label, NEW l, Go(t, label, l),
           NEW u \in Threads \ {t}, Threaded(u), Undisturbed(u)
    PROVE  Threaded(u)'
<1>1. pc'[u] = pc[u] /\ local'[u] = local[u]
  BY Moved, Zenon
<1>2. local[u].node = NULL \/ local[u].node # NULL
  BY Zenon
<1> QED BY <1>1, Zenon DEF Threaded, At, Getting, Adding, Types, Labels, Undisturbed

\* All threads, in a step that changes no successor and neither takes a block nor
\* gives one back.
LEMMA AllThreaded ==
    ASSUME IInv, NEW t \in Threads, NEW label, NEW l, Go(t, label, l),
           UNCHANGED <<freeListNext, free>>, Threaded(t)'
    PROVE  \A u \in Threads : Threaded(u)'
<1> SUFFICES ASSUME NEW u \in Threads \ {t} PROVE Threaded(u)'
  BY Zenon
<1>1. Types /\ Threaded(u)
  BY Zenon DEF IInv
<1>2. Undisturbed(u)
  BY <1>1, Zenon DEF Undisturbed, Threaded
<1> QED BY <1>1, <1>2, OthersThreaded, Zenon

\* The list does not change: it has no more blocks, and every block of it keeps its
\* successor.
LEMMA ReachedKept ==
    ASSUME IInv, freeListHead' = freeListHead,
           \A n \in Nodes : Listed(n)' <=> Listed(n),
           \A n \in Nodes : Listed(n) => freeListNext'[n] = freeListNext[n]
    PROVE  Reached'
<1> SUFFICES ASSUME NEW n \in Nodes, Listed(n), NEW A \in SUBSET Nodes, Follows(A)'
             PROVE  n \in A
  BY Zenon DEF Reached, OnList
<1> DEFINE B == {b \in A : Listed(b)}
<1>1. B \in SUBSET Nodes /\ Follows(B)
  <2>1. freeListHead # NULL => freeListHead \in B
    BY Zenon DEF IInv, Linked, Follows
  <2>2. ASSUME NEW b \in B, freeListNext[b] # NULL PROVE freeListNext[b] \in B
    <3>1. b \in Nodes /\ Listed(b) /\ freeListNext'[b] = freeListNext[b]
      BY <2>2, Zenon
    <3>2. freeListNext[b] \in A
      BY <2>2, <3>1, Zenon DEF Follows
    <3>3. Listed(freeListNext[b])
      BY <2>2, <3>1, Zenon DEF IInv, Linked
    <3> QED BY <3>2, <3>3, Zenon
  <2> QED BY <2>1, <2>2, Zenon DEF Follows
<1>2. n \in OnList
  BY Zenon DEF IInv, Reached
<1>3. n \in B
  BY <1>1, <1>2, Zenon DEF OnList
<1> QED BY <1>3, Zenon

\* A block before the first one: a set with it and what follows has the whole list.
LEMMA ReachedPush ==
    ASSUME IInv, NEW n \in Nodes, freeListHead' = n, freeListNext[n] = freeListHead,
           UNCHANGED freeListNext, \A m \in Nodes \ {n} : Listed(m)' <=> Listed(m)
    PROVE  Reached'
<1> SUFFICES ASSUME NEW m \in Nodes, Listed(m)', NEW A \in SUBSET Nodes, Follows(A)'
             PROVE  m \in A
  BY Zenon DEF Reached, OnList
<1>1. n \in A /\ Follows(A)
  BY NoNode, Zenon DEF Follows
<1>2. CASE m # n
  <2>1. m \in OnList
    BY <1>2, Zenon DEF IInv, Reached
  <2> QED BY <1>1, <2>1, Zenon DEF OnList
<1> QED BY <1>1, <1>2, Zenon

\* The first block is gone: a set with what follows has, together with the block, the
\* whole list.
LEMMA ReachedPop ==
    ASSUME IInv, NEW h \in Nodes, freeListHead = h, freeListHead' = freeListNext[h],
           UNCHANGED freeListNext, ~Listed(h)',
           \A m \in Nodes \ {h} : Listed(m)' <=> Listed(m)
    PROVE  Reached'
<1> SUFFICES ASSUME NEW m \in Nodes, Listed(m)', NEW A \in SUBSET Nodes, Follows(A)'
             PROVE  m \in A
  BY Zenon DEF Reached, OnList
<1>1. A \cup {h} \in SUBSET Nodes /\ Follows(A \cup {h})
  BY Zenon DEF Follows
<1>2. m # h /\ m \in OnList
  BY Zenon DEF IInv, Reached
<1>3. m \in A \cup {h}
  BY <1>1, <1>2, Zenon DEF OnList
<1> QED BY <1>2, <1>3, Zenon

\* A step that changes neither the list nor the part of its thread in it.
LEMMA Quiet ==
    ASSUME IInv, NEW t \in Threads, NEW label \in Labels, NEW l \in Locals, Go(t, label, l),
           UNCHANGED <<list, free>>, Threaded(t)',
           \A n \in Nodes : Looks(label, l, n) <=> Looks(pc[t], local[t], n),
           l.node = local[t].node, label \in Hidden <=> pc[t] \in Hidden,
           label # "get_got", pc[t] # "get_got"
    PROVE  IInv'
<1>1. Types'
  BY Zenon DEF IInv, Types, list, Go
<1>2. \A u \in Threads : Threaded(u)'
  BY AllThreaded, Zenon DEF list
<1>3. Alone'
  <2>1. /\ pc'[t] = label /\ local'[t] = l
        /\ \A u \in Threads \ {t} : pc'[u] = pc[u] /\ local'[u] = local[u]
    BY Moved, Zenon DEF IInv
  <2> QED BY <2>1 DEF IInv, Alone, At
<1>4. \A n \in Nodes : Counted(n)' /\ (Listed(n)' <=> Listed(n))
  <2> SUFFICES ASSUME NEW n \in Nodes PROVE Counted(n)' /\ (Listed(n)' <=> Listed(n))
    BY Zenon
  <2> QED BY Others, Zenon DEF IInv, list
<1>5. Linked'
  BY <1>4, Zenon DEF IInv, Linked, list, Types
<1>6. Reached'
  BY <1>4, ReachedKept, Zenon DEF list
<1> QED BY <1>1, <1>2, <1>3, <1>4, <1>5, <1>6, Zenon DEF IInv

LEMMA NoLocals ==
    /\ NoLocal \in Locals
    /\ \A h \in Nodes : [NoLocal EXCEPT !.head = h] \in Locals
BY Zenon DEF NoLocal, Locals

\* The loop of try_get, entered by a thread that has no part in any block.
LEMMA LoopStep ==
    ASSUME IInv, NEW t \in Threads, pc[t] \in {"idle", "get_head"},
           Loop(t, freeListHead), UNCHANGED <<list, free>>
    PROVE  IInv'
<1>1. Types /\ Threaded(t)
  BY Zenon DEF IInv
<1>2. CASE freeListHead = NULL
  <2>1. Go(t, "idle", NoLocal)
    BY <1>2, Zenon DEF Loop, Return
  <2>2. Threaded(t)'
    BY <1>1, <2>1, Moved DEF Threaded, At, Getting, Adding, NoLocal
  <2> QED
    BY <1>1, <2>1, <2>2, NoLocals, Quiet, Zenon
    DEF Looks, Hidden, Labels, NoLocal, Threaded, Adding
<1>3. CASE freeListHead # NULL
  <2> DEFINE l == [NoLocal EXCEPT !.head = freeListHead]
  <2>1. Go(t, "get_refs", l) /\ l \in Locals /\ l.head # NULL /\ l.node = NULL
    BY <1>1, <1>3, NoLocals, Zenon DEF Loop, Types, NoLocal
  <2> HIDE DEF l
  <2>2. Threaded(t)'
    BY <1>1, <2>1, Moved DEF Threaded, At, Getting, Adding
  <2> QED
    BY <1>1, <2>1, <2>2, Quiet, Zenon
    DEF Looks, Hidden, Labels, Threaded, Adding
<1> QED BY <1>2, <1>3, Zenon

LEMMA LoadRefsStep ==
    ASSUME IInv, NEW t \in Threads, LoadRefs(t)
    PROVE  IInv'
<1>1. Types /\ Threaded(t) /\ At(t, "get_refs") /\ UNCHANGED <<list, free>>
  BY Zenon DEF IInv, LoadRefs
<1> DEFINE refs == freeListRefs[local[t].head]
<1>2. CASE refs % S = 0
  <2>1. Go(t, "get_head", NoLocal)
    BY <1>2, Zenon DEF LoadRefs, S
  <2>2. Threaded(t)'
    BY <1>1, <2>1, Moved DEF Threaded, At, Getting, Adding, NoLocal
  <2> QED
    BY <1>1, <2>1, <2>2, NoLocals, Quiet, Zenon
    DEF Looks, Hidden, Labels, NoLocal, Threaded, Adding, At
<1>3. CASE refs % S # 0
  <2> DEFINE l == [local[t] EXCEPT !.refs = refs]
  <2>1. Go(t, "get_count", l)
    BY <1>3, Zenon DEF LoadRefs, S
  <2>2. /\ l \in Locals /\ l.head = local[t].head /\ l.node = local[t].node
        /\ l.prevHead = local[t].prevHead /\ l.refs = refs
    BY <1>1, Zenon DEF Types, Locals, Threaded, Getting, At
  <2> HIDE DEF l
  <2>3. Threaded(t)'
    BY <1>1, <1>3, <2>1, <2>2, Moved DEF Threaded, At, Getting, Adding, list
  <2> QED
    BY <1>1, <2>1, <2>2, <2>3, Quiet, Zenon
    DEF Looks, Hidden, Labels, Threaded, Adding, At
<1> QED BY <1>2, <1>3, Zenon

LEMMA LoadHeadStep ==
    ASSUME IInv, NEW t \in Threads, LoadHead(t)
    PROVE  IInv'
<1>1. Types /\ Threaded(t) /\ At(t, "zero_head") /\ UNCHANGED <<list, free>>
  BY Zenon DEF IInv, LoadHead
<1> DEFINE l == [local[t] EXCEPT !.old = freeListHead]
<1>2. Go(t, "zero_next", l)
  BY Zenon DEF LoadHead
<1>3. l \in Locals /\ l.head = local[t].head /\ l.node = local[t].node
  BY <1>1, ZenonT(60) DEF Types, Locals
<1> HIDE DEF l
<1>4. Threaded(t)'
  BY <1>1, <1>2, <1>3, Moved, SMTT(60) DEF Threaded, At, Getting, Adding, list
<1> QED
  BY <1>1, <1>2, <1>3, <1>4, Quiet, Zenon DEF Looks, Hidden, Labels, Threaded, Adding, At

LEMMA LoadNextStep ==
    ASSUME IInv, NEW t \in Threads, LoadNext(t)
    PROVE  IInv'
<1>1. Types /\ Threaded(t) /\ At(t, "get_next") /\ UNCHANGED <<list, free>>
  BY Zenon DEF IInv, LoadNext
<1> DEFINE l == [local[t] EXCEPT !.next = freeListNext[local[t].head]]
<1>2. Go(t, "get_pop", l)
  BY Zenon DEF LoadNext
<1>3. /\ l \in Locals /\ l.head = local[t].head /\ l.node = local[t].node
      /\ l.prevHead = local[t].prevHead /\ l.next = freeListNext[local[t].head]
  BY <1>1, Zenon DEF Types, Locals, Threaded, Getting, At
<1> HIDE DEF l
<1>4. Threaded(t)'
  BY <1>1, <1>2, <1>3, Moved DEF Threaded, At, Getting, Adding, list
<1> QED
  BY <1>1, <1>2, <1>3, <1>4, Quiet DEF Looks, Hidden, Labels, Threaded, Adding, At

\* A thread that looks at the head of the list counts itself.
LEMMA CountMeStep ==
    ASSUME IInv, NEW t \in Threads, CountMe(t)
    PROVE  IInv'
<1>0. Types /\ Threaded(t) /\ At(t, "get_count") /\ local[t].head \in Nodes
  BY Zenon DEF IInv, CountMe, Threaded, Getting, At, Types, Locals
<1> PICK h \in Nodes : h = local[t].head
  BY <1>0, Zenon
<1>1. Types /\ Threaded(t) /\ At(t, "get_count") /\ h = local[t].head /\ Counted(h)
  BY <1>0, Zenon DEF IInv
<1>2. CASE freeListRefs[h] = local[t].refs
  <2>1. /\ freeListRefs' = [freeListRefs EXCEPT ![h] = @ + 1]
        /\ Go(t, "get_next", local[t]) /\ UNCHANGED <<freeListHead, freeListNext, free>>
    BY <1>2, Zenon DEF CountMe
  <2>2. local[t].node = NULL
    BY <1>1, Zenon DEF Threaded, Adding, At
  <2>3. Types'
    BY <1>1, <2>1 DEF Types, Labels, Go
  <2>4. Threaded(t)'
    BY <1>1, <2>1, <2>2, Moved DEF Threaded, At, Getting, Adding
  <2>5. \A u \in Threads : Threaded(u)'
    BY <1>1, <2>1, <2>4, AllThreaded, Zenon
  <2>6. Alone'
    BY <1>1, <2>1, <2>2, Moved DEF IInv, Alone, At
  <2>7. \A n \in Nodes \ {h} : Counted(n)' /\ (Listed(n)' <=> Listed(n))
    <3> SUFFICES ASSUME NEW n \in Nodes \ {h} PROVE Counted(n)' /\ (Listed(n)' <=> Listed(n))
      BY Zenon
    <3>1. Counted(n) /\ freeListRefs'[n] = freeListRefs[n]
      BY <1>1, <2>1, Zenon DEF IInv, Types
    <3> QED BY <1>1, <2>1, <2>2, <3>1, NoNode, Others DEF Looks, At
  <2>8. Counted(h)' /\ (Listed(h)' <=> Listed(h))
    <3>1. /\ Count(h) \in Nat /\ Count(h) + 2 < S /\ Count(h)' = Count(h) + 1
      BY <1>1, <2>1, Recounted DEF Looks, At
    <3>2. freeListRefs'[h] = freeListRefs[h] + 1 /\ freeListRefs[h] \in Nat
      BY <1>1, <2>1, Zenon DEF Types
    <3>3. freeListRefs[h] # S
      BY <1>1, <1>2, FlagPositive, Zenon DEF Threaded, At
    <3>4. Added(h)' <=> Added(h)
      BY <1>1, <2>1, Moved DEF Added
    <3>5. Unseen(h)' <=> Unseen(h)
      BY <1>1, <2>1, <2>2, NoNode, Moved DEF Unseen
    <3>6. Taking(h)' <=> Taking(h)
      BY <1>1, <2>1, Moved DEF Taking, At
    <3>7. ~Unseen(h)
      BY <1>1, <3>3, Zenon DEF Counted
    <3>8. Listed(h)' <=> Listed(h)
      <4>1. h \in free /\ ~Added(h) => (freeListRefs'[h] < S <=> freeListRefs[h] < S)
        BY <1>1, <3>1, <3>2, FlagPositive DEF Counted, Listed
      <4> QED BY <2>1, <3>4, <4>1, Zenon DEF Listed
    <3> QED
      BY <1>1, <2>1, <3>1, <3>2, <3>4, <3>5, <3>6, <3>7, <3>8, FlagPositive DEF Counted
  <2>9. Linked'
    BY <2>1, <2>7, <2>8 DEF IInv, Linked, Types
  <2>10. Reached'
    BY <2>1, <2>7, <2>8, ReachedKept, Zenon
  <2> QED BY <2>3, <2>5, <2>6, <2>7, <2>8, <2>9, <2>10, Zenon DEF IInv
<1>3. CASE freeListRefs[h] # local[t].refs
  <2>1. Go(t, "get_head", NoLocal) /\ UNCHANGED <<list, free>>
    BY <1>3, Zenon DEF CountMe, list
  <2>2. Threaded(t)'
    BY <1>1, <2>1, Moved DEF Threaded, At, Getting, Adding, NoLocal
  <2> QED
    BY <1>1, <2>1, <2>2, NoLocals, Quiet, Zenon
    DEF Looks, Hidden, Labels, NoLocal, Threaded, Adding, At
<1> QED BY <1>2, <1>3, Zenon

\* A step of the thread to this label with these locals leaves every block but h alone:
\* its count and its place, and whatever part the thread has in it.
Spares(t, label, l, h) ==
    \A n \in Nodes \ {h} :
        /\ freeListRefs'[n] = freeListRefs[n] /\ (n \in free' <=> n \in free)
        /\ ~Looks(label, l, n) /\ ~Looks(pc[t], local[t], n)
        /\ l.node # n /\ local[t].node # n

\* What a step does to the blocks it leaves alone.
LEMMA Rest ==
    ASSUME IInv, NEW t \in Threads, NEW label, NEW l, Go(t, label, l),
           NEW h, Spares(t, label, l, h)
    PROVE  \A n \in Nodes \ {h} : Counted(n)' /\ (Listed(n)' <=> Listed(n))
<1> SUFFICES ASSUME NEW n \in Nodes \ {h} PROVE Counted(n)' /\ (Listed(n)' <=> Listed(n))
  BY Zenon
<1>1. Types /\ Counted(n)
  BY Zenon DEF IInv
<1>2. /\ freeListRefs'[n] = freeListRefs[n] /\ (n \in free' <=> n \in free)
      /\ ~Looks(label, l, n) /\ ~Looks(pc[t], local[t], n)
      /\ l.node # n /\ local[t].node # n
  BY Zenon DEF Spares
<1>3. ~(label = "get_got" /\ l.head = n) /\ ~(pc[t] = "get_got" /\ local[t].head = n)
  BY <1>2, Zenon DEF Looks
<1> QED BY <1>1, <1>2, <1>3, Others, Zenon

\* A thread that does not come to own a block by its step leaves the owners alone.
LEMMA AloneKept ==
    ASSUME IInv, NEW t \in Threads, NEW label, NEW l, Go(t, label, l),
           label # "get_got",
           l.node # NULL => \A u \in Threads \ {t} : local[u].node # l.node
    PROVE  Alone'
<1>1. /\ pc'[t] = label /\ local'[t] = l
      /\ \A u \in Threads \ {t} : pc'[u] = pc[u] /\ local'[u] = local[u]
  BY Moved, Zenon DEF IInv
<1>2. \A u, v \in Threads :
          At(u, "get_got")' /\ At(v, "get_got")' /\ local'[u].head = local'[v].head => u = v
  BY <1>1 DEF IInv, Alone, At
<1>3. \A u, v \in Threads :
          local'[u].node # NULL /\ local'[u].node = local'[v].node => u = v
  BY <1>1 DEF IInv, Alone
<1> QED BY <1>2, <1>3, Zenon DEF Alone, At

LEMMA Watched ==
    ASSUME Types, NEW u \in Threads, NEW n, Looks(pc[u], local[u], n)
    PROVE  Count(n) \in Nat /\ Count(n) > 0
<1>1. u \in Watchers(n) /\ Watchers(n) \in SUBSET Threads
  BY Zenon DEF Watchers, Looks, At
<1>2. Cardinality(Watchers(n)) \in Nat /\ Cardinality(Watchers(n)) # 0
  BY <1>1, Sizes, Zenon DEF SizeOf
<1> QED BY <1>2 DEF Count

\* A thread that leaves, or begins the loop of try_get anew.
LEMMA Away ==
    ASSUME Types, NEW t \in Threads, NEW h \in Nodes \cup {NULL},
           Loop(t, h) \/ Return(t)
    PROVE  \E label \in {"idle", "get_refs"}, l \in Locals :
              Go(t, label, l) /\ l.node = NULL /\ (label = "get_refs" => l.head # NULL)
<1>1. CASE Go(t, "idle", NoLocal)
  BY <1>1, NoLocals, Zenon DEF NoLocal
<1>2. CASE h # NULL /\ Go(t, "get_refs", [NoLocal EXCEPT !.head = h])
  <2>1. [NoLocal EXCEPT !.head = h] \in Locals
    BY <1>2, NoLocals, Zenon
  <2>2. [NoLocal EXCEPT !.head = h].node = NULL /\ [NoLocal EXCEPT !.head = h].head # NULL
    BY <1>2, Zenon DEF NoLocal
  <2> QED BY <1>2, <2>1, <2>2, Zenon
<1> QED BY <1>1, <1>2, Zenon DEF Loop, Return

LEMMA AwayThreaded ==
    ASSUME Types, NEW t \in Threads, NEW label \in {"idle", "get_refs"}, NEW l \in Locals,
           Go(t, label, l), l.node = NULL, label = "get_refs" => l.head # NULL
    PROVE  Threaded(t)'
BY Moved DEF Threaded, At, Getting, Adding

LEMMA AddStep ==
    ASSUME IInv, NEW t \in Threads, NEW n \in Nodes, add(t, n)
    PROVE  IInv'
<1>1. /\ Types /\ Threaded(t) /\ At(t, "idle") /\ n \notin free /\ Counted(n)
      /\ local[t].node = NULL /\ free' = free \cup {n}
      /\ freeListRefs' = [freeListRefs EXCEPT ![n] = @ + S]
      /\ UNCHANGED <<freeListHead, freeListNext>>
  BY Zenon DEF IInv, add, Threaded, At, Adding, S
<1>2. ~Taking(n) /\ ~Added(n) /\ ~Unseen(n) /\ ~Listed(n)
  BY <1>1, NoNode DEF IInv, add, Taking, Added, Unseen, Listed, Threaded, At
<1>3. /\ freeListRefs[n] = Count(n) /\ freeListRefs'[n] = Count(n) + S
      /\ Count(n) \in Nat
  BY <1>1, <1>2, Zenon DEF Counted, Types
<1>4. PICK label \in {"idle", "zero_head"}, l \in Locals :
          /\ Go(t, label, l)
          /\ Count(n) = 0 => label = "zero_head" /\ l.node = n
          /\ Count(n) # 0 => label = "idle" /\ l.node = NULL
  <2>1. CASE Count(n) = 0
    <3> DEFINE m == [local[t] EXCEPT !.node = n]
    <3>1. m \in Locals /\ m.node = n
      BY <1>1 DEF Types, Locals
    <3>2. Go(t, "zero_head", m)
      BY <1>3, <2>1, Zenon DEF add
    <3> QED BY <2>1, <3>1, <3>2, Zenon
  <2>2. CASE Count(n) # 0
    <3>1. Go(t, "idle", NoLocal)
      BY <1>3, <2>2, Zenon DEF add, Return
    <3> QED BY <2>2, <3>1, NoLocals, Zenon DEF NoLocal
  <2> QED BY <2>1, <2>2, Zenon
<1>5. label \in Labels /\ (l.node = n \/ l.node = NULL) /\ label # "get_got"
  BY <1>4, Zenon DEF Labels
<1>6. Threaded(t)'
  BY <1>1, <1>4, NoNode, Moved DEF Threaded, At, Getting, Adding
<1>7. \A m \in Nodes \ {n} : Counted(m)' /\ (Listed(m)' <=> Listed(m))
  <2>1. \A m \in Nodes \ {n} : freeListRefs'[m] = freeListRefs[m] /\ (m \in free' <=> m \in free)
    BY <1>1, Zenon DEF Types
  <2>2. \A m \in Nodes \ {n} : ~Looks(label, l, m) /\ ~Looks(pc[t], local[t], m)
    BY <1>1, <1>4, Zenon DEF Looks, At
  <2>3. \A m \in Nodes \ {n} : l.node # m /\ local[t].node # m
    BY <1>1, <1>5, NoNode, Zenon
  <2>4. Spares(t, label, l, n)
    BY <2>1, <2>2, <2>3, Zenon DEF Spares
  <2> QED BY <1>4, <2>4, Rest, Zenon
<1>8. Types'
  BY <1>1, <1>4, <1>5, FlagPositive DEF Types, Go
<1>9. \A u \in Threads : Threaded(u)'
  <2> SUFFICES ASSUME NEW u \in Threads \ {t} PROVE Threaded(u)'
    BY <1>6, Zenon
  <2>1. Threaded(u) /\ (At(u, "get_got") => local[u].head # n)
    BY Zenon DEF IInv, add
  <2>2. Undisturbed(u)
    BY <1>1, <2>1, Zenon DEF Undisturbed, Threaded
  <2> QED BY <1>1, <1>4, <2>1, <2>2, OthersThreaded, Zenon
<1>10. Alone'
  BY <1>2, <1>4, <1>5, AloneKept, Zenon DEF Added
<1>11. Counted(n)' /\ ~Listed(n)'
  <2>1. Count(n)' = Count(n)
    BY <1>1, <1>4, Recounted DEF Looks, At
  <2>2. ~Taking(n)' /\ (Added(n)' <=> Count(n) = 0) /\ (Unseen(n)' <=> Count(n) = 0)
    BY <1>1, <1>2, <1>4, NoNode, Moved DEF Taking, Added, Unseen, At
  <2>3. ~Listed(n)' /\ n \in free'
    BY <1>1, <1>3, FlagPositive DEF Listed
  <2> QED BY <1>3, <2>1, <2>2, <2>3, FlagPositive DEF Counted
<1>12. Linked'
  BY <1>1, <1>2, <1>7, <1>11 DEF IInv, Linked, Types
<1>13. Reached'
  BY <1>1, <1>2, <1>7, <1>11, ReachedKept, Zenon
<1> QED BY <1>7, <1>8, <1>9, <1>10, <1>11, <1>12, <1>13, Zenon DEF IInv

\* What is known of a block that a thread is putting back.
LEMMA Adder ==
    ASSUME IInv, NEW t \in Threads, pc[t] \in Adding
    PROVE  \E n \in Nodes :
              /\ n = local[t].node /\ n \in free /\ Counted(n) /\ Added(n) /\ ~Listed(n)
              /\ ~Taking(n)
              /\ \A u \in Threads \ {t} : local[u].node # n
              /\ Unseen(n) <=> pc[t] \in Hidden
<1>1. PICK n \in Nodes : n = local[t].node
  BY Zenon DEF IInv, Types, Locals, Threaded
<1>2. n \in free /\ Counted(n) /\ Added(n) /\ \A u \in Threads \ {t} : local[u].node # n
  BY <1>1, NoNode, Zenon DEF IInv, Threaded, Alone, Added
<1>3. ~Listed(n) /\ ~Taking(n)
  BY <1>2, Zenon DEF IInv, Listed, Taking, Threaded, At
<1>4. Unseen(n) <=> pc[t] \in Hidden
  BY <1>1, <1>2, Zenon DEF Unseen, Hidden
<1> QED BY <1>1, <1>2, <1>3, <1>4, Zenon

LEMMA StoreNextStep ==
    ASSUME IInv, NEW t \in Threads, StoreNext(t)
    PROVE  IInv'
<1>1. /\ Types /\ Threaded(t) /\ At(t, "zero_next")
      /\ Go(t, "zero_refs", local[t]) /\ UNCHANGED <<freeListHead, freeListRefs, free>>
      /\ pc[t] \in Adding /\ pc[t] \in Hidden
  BY Zenon DEF IInv, StoreNext, At, Adding, Hidden
<1>2. PICK n \in Nodes :
          /\ n = local[t].node /\ n \in free /\ Counted(n) /\ Added(n) /\ ~Listed(n)
          /\ ~Taking(n)
          /\ \A u \in Threads \ {t} : local[u].node # n
          /\ Unseen(n) <=> pc[t] \in Hidden
  BY <1>1, Adder, Zenon
<1>3. PICK l \in Locals : l = local[t]
  BY <1>1, Zenon DEF Types
<1>4. /\ Go(t, "zero_refs", l) /\ l.node = n /\ "zero_refs" \in Labels
      /\ freeListNext' = [freeListNext EXCEPT ![n] = l.old] /\ l.old \in Nodes \cup {NULL}
  BY <1>1, <1>2, <1>3, Zenon DEF StoreNext, Labels, Locals
<1>5. Count(n) = 0
  BY <1>1, <1>2, Zenon DEF Counted
<1>6. Threaded(t)'
  BY <1>1, <1>2, <1>4, NoNode, Moved DEF Threaded, At, Getting, Adding, Types
<1>7. \A m \in Nodes : Counted(m)' /\ (Listed(m)' <=> Listed(m))
  <2> SUFFICES ASSUME NEW m \in Nodes PROVE Counted(m)' /\ (Listed(m)' <=> Listed(m))
    BY Zenon
  <2>1. Counted(m)
    BY Zenon DEF IInv
  <2>2. freeListRefs'[m] = freeListRefs[m] /\ (m \in free' <=> m \in free)
    BY <1>1, Zenon
  <2>3. ~Looks("zero_refs", l, m) /\ ~Looks(pc[t], local[t], m)
    BY <1>1, Zenon DEF Looks, At
  <2>4. pc[t] # "get_got" /\ "zero_refs" \in Hidden /\ pc[t] \in Hidden
    BY <1>1, Zenon DEF At, Hidden
  <2> QED BY <1>1, <1>3, <1>4, <2>1, <2>2, <2>3, <2>4, Others, Zenon
<1>8. Types'
  BY <1>1, <1>4, ZenonT(60) DEF Types, Go
<1>9. \A u \in Threads : Threaded(u)'
  <2> SUFFICES ASSUME NEW u \in Threads \ {t} PROVE Threaded(u)'
    BY <1>6, Zenon
  <2>1. Threaded(u) /\ ~Looks(pc[u], local[u], n)
    BY <1>5, Watched DEF IInv
  <2>2. At(u, "get_pop") => local[u].head # n
    BY <2>1, Zenon DEF Looks, At
  <2>3. Undisturbed(u)
    BY <1>1, <1>2, <1>4, <2>1, <2>2 DEF Undisturbed, Threaded, Types
  <2> QED BY <1>1, <1>4, <2>1, <2>3, OthersThreaded, Zenon
<1>10. Alone'
  BY <1>2, <1>4, AloneKept, Zenon
<1>11. Linked'
  BY <1>1, <1>2, <1>4, <1>7 DEF IInv, Linked, Types
<1>12. Reached'
  BY <1>1, <1>2, <1>4, <1>7, ReachedKept, Zenon DEF Types
<1> QED BY <1>7, <1>8, <1>9, <1>10, <1>11, <1>12, Zenon DEF IInv

LEMMA StoreRefsStep ==
    ASSUME IInv, NEW t \in Threads, StoreRefs(t)
    PROVE  IInv'
<1>1. /\ Types /\ Threaded(t) /\ At(t, "zero_refs")
      /\ Go(t, "zero_push", local[t]) /\ UNCHANGED <<freeListHead, freeListNext, free>>
      /\ pc[t] \in Adding /\ pc[t] \in Hidden
  BY Zenon DEF IInv, StoreRefs, At, Adding, Hidden
<1>2. PICK n \in Nodes :
          /\ n = local[t].node /\ n \in free /\ Counted(n) /\ Added(n) /\ ~Listed(n)
          /\ ~Taking(n)
          /\ \A u \in Threads \ {t} : local[u].node # n
          /\ Unseen(n) <=> pc[t] \in Hidden
  BY <1>1, Adder, Zenon
<1>3. PICK l \in Locals : l = local[t]
  BY <1>1, Zenon DEF Types
<1>4. /\ Go(t, "zero_push", l) /\ l.node = n /\ "zero_push" \in Labels
      /\ freeListRefs' = [freeListRefs EXCEPT ![n] = 1] /\ freeListRefs'[n] = 1
  BY <1>1, <1>2, <1>3, Zenon DEF StoreRefs, Labels, Types
<1>5. Count(n) = 0
  BY <1>1, <1>2, Zenon DEF Counted
<1>6. Threaded(t)'
  BY <1>1, <1>2, <1>3, <1>4, NoNode, Moved DEF Threaded, At, Getting, Adding
<1>7. \A m \in Nodes \ {n} : Counted(m)' /\ (Listed(m)' <=> Listed(m))
  <2>1. \A m \in Nodes \ {n} : freeListRefs'[m] = freeListRefs[m] /\ (m \in free' <=> m \in free)
    BY <1>1, <1>4, Zenon DEF Types
  <2>2. \A m \in Nodes \ {n} : ~Looks("zero_push", l, m) /\ ~Looks(pc[t], local[t], m)
    BY <1>1, Zenon DEF Looks, At
  <2>3. \A m \in Nodes \ {n} : l.node # m /\ local[t].node # m
    BY <1>2, <1>4, Zenon
  <2>4. Spares(t, "zero_push", l, n)
    BY <2>1, <2>2, <2>3, Zenon DEF Spares
  <2> QED BY <1>4, <2>4, Rest, Zenon
<1>8. Types'
  BY <1>1, <1>4 DEF Types, Go
<1>9. \A u \in Threads : Threaded(u)'
  BY <1>1, <1>4, <1>6, AllThreaded, Zenon
<1>10. Alone'
  BY <1>2, <1>4, AloneKept, Zenon
<1>11. Counted(n)' /\ ~Listed(n)'
  <2>1. Count(n)' = Count(n)
    BY <1>1, <1>3, <1>4, Recounted DEF Looks, At
  <2>2. ~Taking(n)' /\ Added(n)' /\ ~Unseen(n)'
    BY <1>1, <1>2, <1>4, Moved DEF Taking, Added, Unseen, At
  <2>3. ~Listed(n)' /\ n \in free'
    BY <1>1, <1>2, <2>2, Zenon DEF Listed
  <2> QED BY <1>4, <1>5, <2>1, <2>2, <2>3 DEF Counted
<1>12. Linked'
  BY <1>1, <1>2, <1>7, <1>11, Zenon DEF IInv, Linked, Types
<1>13. Reached'
  BY <1>1, <1>2, <1>7, <1>11, ReachedKept, Zenon
<1> QED BY <1>7, <1>8, <1>9, <1>10, <1>11, <1>12, <1>13, Zenon DEF IInv

LEMMA SetFlagStep ==
    ASSUME IInv, NEW t \in Threads, SetFlag(t)
    PROVE  IInv'
<1>1. /\ Types /\ Threaded(t) /\ At(t, "zero_failed")
      /\ UNCHANGED <<freeListHead, freeListNext, free>>
      /\ pc[t] \in Adding /\ pc[t] \notin Hidden
  BY Zenon DEF IInv, SetFlag, At, Adding, Hidden
<1>2. PICK n \in Nodes :
          /\ n = local[t].node /\ n \in free /\ Counted(n) /\ Added(n) /\ ~Listed(n)
          /\ ~Taking(n)
          /\ \A u \in Threads \ {t} : local[u].node # n
          /\ Unseen(n) <=> pc[t] \in Hidden
  BY <1>1, Adder, Zenon
<1>3. Count(n) \in Nat
  BY <1>1, Sizes, Zenon DEF Count, Watchers, SizeOf
<1>4. /\ freeListRefs[n] = Count(n) + 1 /\ freeListRefs'[n] = Count(n) + S
      /\ freeListRefs' = [freeListRefs EXCEPT ![n] = @ + S - 1]
  BY <1>1, <1>2, <1>3, FlagPositive DEF Counted, SetFlag, S, Types
<1>5. PICK label \in {"idle", "get_refs", "zero_next"}, l \in Locals :
          /\ Go(t, label, l)
          /\ Count(n) = 0 => label = "zero_next" /\ l.node = n
          /\ Count(n) # 0 => /\ label # "zero_next" /\ l.node = NULL
                             /\ label = "get_refs" => l.head # NULL
  <2>1. CASE Count(n) = 0
    <3>1. Go(t, "zero_next", local[t])
      BY <1>2, <1>4, <2>1 DEF SetFlag
    <3> QED BY <1>1, <1>2, <2>1, <3>1, Zenon DEF Types
  <2>2. CASE Count(n) # 0
    <3>1. local[t].head \in Nodes \cup {NULL}
      BY <1>1, Zenon DEF Types, Locals
    <3>2. Loop(t, local[t].head) \/ Return(t)
      BY <1>2, <1>3, <1>4, <2>2 DEF SetFlag, ZeroReturns
    <3> QED BY <1>1, <2>2, <3>1, <3>2, Away, Zenon
  <2> QED BY <2>1, <2>2, Zenon
<1>6. label \in Labels /\ label # "get_got" /\ (l.node = n \/ l.node = NULL)
  BY <1>5, Zenon DEF Labels
<1>7. Threaded(t)'
  BY <1>1, <1>2, <1>5, NoNode, Moved DEF Threaded, At, Getting, Adding
<1>8. \A m \in Nodes \ {n} : Counted(m)' /\ (Listed(m)' <=> Listed(m))
  <2>1. \A m \in Nodes \ {n} : freeListRefs'[m] = freeListRefs[m] /\ (m \in free' <=> m \in free)
    BY <1>1, <1>4, Zenon DEF Types
  <2>2. \A m \in Nodes \ {n} : ~Looks(label, l, m) /\ ~Looks(pc[t], local[t], m)
    BY <1>1, Zenon DEF Looks, At
  <2>3. \A m \in Nodes \ {n} : l.node # m /\ local[t].node # m
    BY <1>2, <1>6, NoNode, Zenon
  <2>4. Spares(t, label, l, n)
    BY <2>1, <2>2, <2>3, Zenon DEF Spares
  <2> QED BY <1>5, <2>4, Rest, Zenon
<1>9. Types'
  <2>1. freeListRefs' \in [Nodes -> Nat]
    BY <1>1, <1>4, FlagPositive DEF Types
  <2> QED BY <1>1, <1>5, <1>6, <2>1, Zenon DEF Types, Go
<1>10. \A u \in Threads : Threaded(u)'
  BY <1>1, <1>5, <1>7, AllThreaded, Zenon
<1>11. Alone'
  BY <1>2, <1>5, <1>6, AloneKept, Zenon
<1>12. Counted(n)' /\ ~Listed(n)'
  <2>1. Count(n)' = Count(n)
    BY <1>1, <1>5, Recounted DEF Looks, At
  <2>2. ~Taking(n)' /\ (Added(n)' <=> Count(n) = 0) /\ (Unseen(n)' <=> Count(n) = 0)
    BY <1>1, <1>2, <1>5, NoNode, Moved DEF Taking, Added, Unseen, At
  <2>3. ~Listed(n)' /\ n \in free'
    BY <1>1, <1>2, <1>3, <1>4, FlagPositive DEF Listed
  <2> QED BY <1>3, <1>4, <2>1, <2>2, <2>3, FlagPositive DEF Counted
<1>13. Linked'
  BY <1>1, <1>2, <1>8, <1>12, Zenon DEF IInv, Linked, Types
<1>14. Reached'
  BY <1>1, <1>2, <1>8, <1>12, ReachedKept, Zenon
<1> QED BY <1>8, <1>9, <1>10, <1>11, <1>12, <1>13, <1>14, Zenon DEF IInv

LEMMA PushHeadStep ==
    ASSUME IInv, NEW t \in Threads, PushHead(t)
    PROVE  IInv'
<1>1. /\ Types /\ Threaded(t) /\ At(t, "zero_push")
      /\ UNCHANGED <<freeListRefs, freeListNext, free>>
      /\ pc[t] \in Adding /\ pc[t] \notin Hidden
  BY Zenon DEF IInv, PushHead, At, Adding, Hidden
<1>2. PICK n \in Nodes :
          /\ n = local[t].node /\ n \in free /\ Counted(n) /\ Added(n) /\ ~Listed(n)
          /\ ~Taking(n)
          /\ \A u \in Threads \ {t} : local[u].node # n
          /\ Unseen(n) <=> pc[t] \in Hidden
  BY <1>1, Adder, Zenon
<1>3. CASE freeListHead = local[t].old
  <2>1. freeListHead' = n /\ freeListNext[n] = freeListHead
    BY <1>1, <1>2, <1>3, Zenon DEF PushHead, Threaded, At
  <2>2. PICK label \in {"idle", "get_refs"}, l \in Locals :
            Go(t, label, l) /\ l.node = NULL /\ (label = "get_refs" => l.head # NULL)
    <3>1. local[t].head \in Nodes \cup {NULL}
      BY <1>1, Zenon DEF Types, Locals
    <3>2. Loop(t, local[t].head) \/ Return(t)
      BY <1>3, Zenon DEF PushHead, ZeroReturns
    <3> QED BY <1>1, <3>1, <3>2, Away, Zenon
  <2>3. label \in Labels /\ label # "get_got"
    BY Zenon DEF Labels
  <2>4. Threaded(t)'
    BY <1>1, <2>2, AwayThreaded, Zenon
  <2>5. \A m \in Nodes \ {n} : Counted(m)' /\ (Listed(m)' <=> Listed(m))
    <3>1. \A m \in Nodes \ {n} : freeListRefs'[m] = freeListRefs[m] /\ (m \in free' <=> m \in free)
      BY <1>1, Zenon
    <3>2. \A m \in Nodes \ {n} : ~Looks(label, l, m) /\ ~Looks(pc[t], local[t], m)
      BY <1>1, Zenon DEF Looks, At
    <3>3. \A m \in Nodes \ {n} : l.node # m /\ local[t].node # m
      BY <1>2, <2>2, NoNode, Zenon
    <3>4. Spares(t, label, l, n)
      BY <3>1, <3>2, <3>3, Zenon DEF Spares
    <3> QED BY <2>2, <3>4, Rest, Zenon
  <2>6. Types'
    BY <1>1, <2>1, <2>2, <2>3, Zenon DEF Types, Go
  <2>7. \A u \in Threads : Threaded(u)'
    BY <1>1, <2>2, <2>4, AllThreaded, Zenon
  <2>8. Alone'
    BY <2>2, <2>3, AloneKept, Zenon
  <2>9. Counted(n)' /\ Listed(n)'
    <3>1. Count(n)' = Count(n) /\ Count(n) \in Nat /\ Count(n) + 2 < S
      BY <1>1, <2>2, Recounted, Zenon DEF Looks, At
    <3>2. ~Taking(n)' /\ ~Added(n)' /\ ~Unseen(n)'
      BY <1>1, <1>2, <2>2, NoNode, Moved DEF Taking, Added, Unseen, At
    <3>3. freeListRefs'[n] = Count(n) + 1
      BY <1>1, <1>2, Zenon DEF Counted
    <3>4. Listed(n)'
      BY <1>1, <1>2, <3>1, <3>2, <3>3, FlagPositive DEF Listed
    <3> QED BY <1>1, <1>2, <3>1, <3>2, <3>3, <3>4, Zenon DEF Counted
  <2>10. Linked'
    BY <1>1, <1>2, <2>1, <2>5, <2>9, NoNode, Zenon DEF IInv, Linked, Types
  <2>11. Reached'
    BY <1>1, <1>2, <2>1, <2>5, <2>9, NoNode, ReachedPush, Zenon
  <2> QED BY <2>5, <2>6, <2>7, <2>8, <2>9, <2>10, <2>11, Zenon DEF IInv
<1>4. CASE freeListHead # local[t].old
  <2>1. PICK l \in Locals : l = [local[t] EXCEPT !.old = freeListHead]
    BY <1>1, Zenon DEF Types, Locals
  <2>2. /\ Go(t, "zero_failed", l) /\ UNCHANGED <<list, free>>
        /\ l.node = local[t].node /\ "zero_failed" \in Labels
    BY <1>1, <1>4, <2>1, Zenon DEF PushHead, list, Labels, Types, Locals
  <2>3. Threaded(t)'
    BY <1>1, <2>2, Moved DEF Threaded, At, Getting, Adding, list
  <2> QED BY <1>1, <2>2, <2>3, Quiet, Zenon DEF Looks, Hidden, At
<1> QED BY <1>3, <1>4, Zenon

LEMMA PopHeadStep ==
    ASSUME IInv, NEW t \in Threads, PopHead(t)
    PROVE  IInv'
<1>1. /\ Types /\ Threaded(t) /\ At(t, "get_pop")
      /\ local[t].head \in Nodes /\ local[t].node = NULL
      /\ UNCHANGED <<freeListRefs, freeListNext>>
  BY DEF IInv, PopHead, Threaded, Getting, Adding, At, Types, Locals
<1>2. PICK h \in Nodes : h = local[t].head
  BY <1>1, Zenon
<1>3. CASE freeListHead = h
  <2>1. /\ freeListHead' = freeListNext[h] /\ free' = free \ {h}
        /\ Listed(h) /\ Counted(h) /\ h \in free /\ ~Added(h)
    BY <1>1, <1>2, <1>3, NoNode, Zenon DEF IInv, PopHead, Threaded, At, Linked, Listed
  <2>2. PICK l \in Locals : l = [NoLocal EXCEPT !.head = h]
    BY NoLocals, Zenon
  <2>3. /\ Go(t, "get_got", l) /\ l.head = h /\ l.node = NULL /\ "get_got" \in Labels
    BY <1>2, <1>3, <2>2, Zenon DEF PopHead, NoLocal, Labels
  <2>4. Threaded(t)'
    BY <1>1, <2>1, <2>3, NoNode, Moved DEF Threaded, At, Getting, Adding
  <2>5. \A m \in Nodes \ {h} : Counted(m)' /\ (Listed(m)' <=> Listed(m))
    <3>1. \A m \in Nodes \ {h} : freeListRefs'[m] = freeListRefs[m] /\ (m \in free' <=> m \in free)
      BY <1>1, <2>1, Zenon
    <3>2. \A m \in Nodes \ {h} : ~Looks("get_got", l, m) /\ ~Looks(pc[t], local[t], m)
      BY <1>1, <1>2, <2>3, Zenon DEF Looks, At
    <3>3. \A m \in Nodes \ {h} : l.node # m /\ local[t].node # m
      BY <1>1, <2>3, NoNode, Zenon
    <3>4. Spares(t, "get_got", l, h)
      BY <3>1, <3>2, <3>3, Zenon DEF Spares
    <3> QED BY <2>3, <3>4, Rest, Zenon
  <2>6. Types'
    BY <1>1, <2>1, <2>3, Zenon DEF Types, Go
  <2>7. \A u \in Threads : Threaded(u)'
    <3> SUFFICES ASSUME NEW u \in Threads \ {t} PROVE Threaded(u)'
      BY <2>4, Zenon
    <3>1. Threaded(u) /\ local[u].node # h
      BY <2>1, Zenon DEF IInv, Added
    <3>2. Undisturbed(u)
      BY <1>1, <2>1, <3>1, Zenon DEF Undisturbed, Threaded
    <3> QED BY <1>1, <2>3, <3>1, <3>2, OthersThreaded, Zenon
  <2>8. \A u \in Threads : At(u, "get_got") => local[u].head # h
    BY <2>1, Zenon DEF IInv, Threaded
  <2>9. Alone'
    BY <1>1, <2>3, <2>8, Moved, SMTT(60) DEF IInv, Alone, At
  <2>10. Counted(h)' /\ ~Listed(h)'
    <3>1. Count(h)' = Count(h)
      BY <1>1, <1>2, <2>3, Recounted DEF Looks, At
    <3>2. Taking(h)' /\ ~Added(h)'
      BY <1>1, <2>1, <2>3, NoNode, Moved DEF Taking, Added, At
    <3>3. ~Unseen(h)'
      BY <3>2, Zenon DEF Unseen, Added
    <3>4. h \notin free' /\ ~Listed(h)'
      BY <2>1, Zenon DEF Listed
    <3> QED BY <1>1, <2>1, <3>1, <3>2, <3>3, <3>4, Zenon DEF Counted
  <2>11. Linked'
    BY <1>1, <1>3, <2>1, <2>5, <2>10, NoNode, Zenon DEF IInv, Linked, Types
  <2>12. Reached'
    BY <1>1, <1>3, <2>1, <2>5, <2>10, NoNode, ReachedPop, Zenon
  <2> QED BY <2>5, <2>6, <2>7, <2>9, <2>10, <2>11, <2>12, Zenon DEF IInv
<1>4. CASE freeListHead # h
  <2>1. PICK l \in Locals : l = [NoLocal EXCEPT !.prevHead = h, !.head = freeListHead]
    BY <1>1, Zenon DEF Types, Locals, NoLocal
  <2>2. /\ Go(t, "get_failed", l) /\ UNCHANGED <<list, free>>
        /\ l.node = NULL /\ l.prevHead = h /\ "get_failed" \in Labels
    BY <1>1, <1>2, <1>4, <2>1, Zenon DEF PopHead, list, Labels, NoLocal
  <2>3. Threaded(t)'
    BY <1>1, <2>2, NoNode, Moved DEF Threaded, At, Getting, Adding
  <2> QED BY <1>1, <1>2, <2>2, <2>3, Quiet DEF Looks, Hidden, At
<1> QED BY <1>3, <1>4, Zenon

LEMMA DropBothStep ==
    ASSUME IInv, NEW t \in Threads, DropBoth(t)
    PROVE  IInv'
<1>1. /\ Types /\ Threaded(t) /\ At(t, "get_got")
      /\ local[t].head \in Nodes /\ local[t].node = NULL
      /\ UNCHANGED <<freeListHead, freeListNext, free>>
  BY DEF IInv, DropBoth, Threaded, Getting, Adding, At, Types, Locals
<1>2. PICK h \in Nodes : h = local[t].head
  BY <1>1, Zenon
<1>3. h \notin free /\ Counted(h) /\ Taking(h) /\ ~Listed(h) /\ ~Added(h) /\ ~Unseen(h)
  BY <1>1, <1>2, NoNode, Zenon DEF IInv, Threaded, Taking, Listed, Added, Unseen
<1>4. PICK label \in {"idle", "get_refs"}, l \in Locals :
          Go(t, label, l) /\ l.node = NULL /\ (label = "get_refs" => l.head # NULL)
  BY <1>1, Away, Zenon DEF DropBoth
<1>5. label \in Labels /\ label # "get_got"
  BY Zenon DEF Labels
<1>6. /\ Count(h) \in Nat /\ Count(h) > 0 /\ Count(h)' = Count(h) - 1
  BY <1>1, <1>2, <1>4, Recounted, Zenon DEF Looks, At
<1>7. /\ freeListRefs' = [freeListRefs EXCEPT ![h] = @ - 2] /\ freeListRefs[h] = Count(h) + 1
      /\ freeListRefs'[h] = Count(h)' /\ freeListRefs'[h] \in Nat
  BY <1>1, <1>2, <1>3, <1>6 DEF DropBoth, Counted, Types
<1>8. Threaded(t)'
  BY <1>1, <1>4, AwayThreaded, Zenon
<1>9. \A m \in Nodes \ {h} : Counted(m)' /\ (Listed(m)' <=> Listed(m))
  <2>1. \A m \in Nodes \ {h} : freeListRefs'[m] = freeListRefs[m] /\ (m \in free' <=> m \in free)
    BY <1>1, <1>7, Zenon DEF Types
  <2>2. \A m \in Nodes \ {h} : ~Looks(label, l, m) /\ ~Looks(pc[t], local[t], m)
    BY <1>1, <1>2, Zenon DEF Looks, At
  <2>3. \A m \in Nodes \ {h} : l.node # m /\ local[t].node # m
    BY <1>1, <1>4, NoNode, Zenon
  <2>4. Spares(t, label, l, h)
    BY <2>1, <2>2, <2>3, Zenon DEF Spares
  <2> QED BY <1>4, <2>4, Rest, Zenon
<1>10. Types'
  <2>1. freeListRefs' \in [Nodes -> Nat]
    BY <1>1, <1>7, Zenon DEF Types
  <2> QED BY <1>1, <1>4, <1>5, <2>1, Zenon DEF Types, Go
<1>11. \A u \in Threads : Threaded(u)'
  BY <1>1, <1>4, <1>8, AllThreaded, Zenon
<1>12. Alone'
  BY <1>4, <1>5, AloneKept, Zenon
<1>13. Counted(h)' /\ ~Listed(h)'
  <2>1. ~Taking(h)'
    BY <1>1, <1>2, <1>4, Moved DEF IInv, Alone, Taking, At
  <2>2. ~Added(h)' /\ ~Unseen(h)'
    BY <1>1, <1>3, <1>4, NoNode, Moved DEF Added, Unseen
  <2>3. h \notin free' /\ ~Listed(h)'
    BY <1>1, <1>3, Zenon DEF Listed
  <2> QED BY <1>7, <2>1, <2>2, <2>3, Zenon DEF Counted
<1>14. Linked'
  BY <1>1, <1>3, <1>9, <1>13, ZenonT(60) DEF IInv, Linked, Types
<1>15. Reached'
  BY <1>1, <1>3, <1>9, <1>13, ReachedKept, Zenon
<1> QED BY <1>9, <1>10, <1>11, <1>12, <1>13, <1>14, <1>15, Zenon DEF IInv

LEMMA AdderLocal ==
    ASSUME NEW r \in Locals, NEW p \in Nodes
    PROVE  /\ [r EXCEPT !.node = p, !.inGet = TRUE] \in Locals
           /\ [r EXCEPT !.node = p, !.inGet = TRUE].node = p
BY Zenon DEF Locals

LEMMA DropMineStep ==
    ASSUME IInv, NEW t \in Threads, DropMine(t)
    PROVE  IInv'
<1>1. /\ Types /\ Threaded(t) /\ At(t, "get_failed")
      /\ local[t].prevHead \in Nodes /\ local[t].node = NULL
      /\ UNCHANGED <<freeListHead, freeListNext, free>>
  BY DEF IInv, DropMine, Threaded, Getting, Adding, At, Types, Locals
<1>2. PICK p \in Nodes : p = local[t].prevHead
  BY <1>1, Zenon
<1>3. Counted(p) /\ freeListRefs[p] \in Nat
  BY <1>1, Zenon DEF IInv, Types
<1>4. PICK label \in {"idle", "get_refs", "zero_head"}, l \in Locals :
          /\ Go(t, label, l)
          /\ freeListRefs[p] = S + 1 => label = "zero_head" /\ l.node = p
          /\ freeListRefs[p] # S + 1 => /\ label # "zero_head" /\ l.node = NULL
                                        /\ label = "get_refs" => l.head # NULL
  <2>1. CASE freeListRefs[p] = S + 1
    <3>1. PICK l \in Locals : l = [local[t] EXCEPT !.node = p, !.inGet = TRUE]
      BY <1>1, AdderLocal, Zenon DEF Types
    <3>2. l.node = p
      BY <1>1, <3>1, AdderLocal, Zenon DEF Types
    <3>3. Go(t, "zero_head", l)
      BY <1>2, <2>1, <3>1, Zenon DEF DropMine, S
    <3> QED BY <2>1, <3>2, <3>3, Zenon
  <2>2. CASE freeListRefs[p] # S + 1
    <3>1. local[t].head \in Nodes \cup {NULL}
      BY <1>1, Zenon DEF Types, Locals
    <3>2. Loop(t, local[t].head)
      BY <1>2, <2>2, Zenon DEF DropMine, S
    <3> QED BY <1>1, <2>2, <3>1, <3>2, Away, Zenon
  <2> QED BY <2>1, <2>2, Zenon
<1>5. label \in Labels /\ label # "get_got" /\ (l.node = p \/ l.node = NULL)
  BY <1>4, Zenon DEF Labels
<1>6. /\ Count(p) \in Nat /\ Count(p) > 0 /\ Count(p)' = Count(p) - 1 /\ Count(p) + 2 < S
  BY <1>1, <1>2, <1>4, Recounted, Zenon DEF Looks, At
<1>7. ~Unseen(p) /\ freeListRefs[p] > 0
  BY <1>3, <1>6, FlagPositive DEF Counted, Unseen, Added, Listed, Taking
<1>8. /\ freeListRefs' = [freeListRefs EXCEPT ![p] = @ - 1]
      /\ freeListRefs'[p] = freeListRefs[p] - 1 /\ freeListRefs'[p] \in Nat
  BY <1>1, <1>2, <1>3, <1>7 DEF DropMine, Types
<1>9. freeListRefs[p] >= S => p \in free /\ ~Added(p) /\ ~Listed(p) /\ ~Taking(p)
  <2>1. Taking(p) => p \notin free
    BY Zenon DEF IInv, Taking, Threaded
  <2> QED BY <1>3, <1>6, <1>7, <2>1, FlagPositive DEF Counted
<1>10. Threaded(t)'
  BY <1>1, <1>4, <1>9, NoNode, FlagPositive, Moved DEF Threaded, At, Getting, Adding
<1>11. \A m \in Nodes \ {p} : Counted(m)' /\ (Listed(m)' <=> Listed(m))
  <2>1. \A m \in Nodes \ {p} : freeListRefs'[m] = freeListRefs[m] /\ (m \in free' <=> m \in free)
    BY <1>1, <1>8, Zenon DEF Types
  <2>2. \A m \in Nodes \ {p} : ~Looks(label, l, m) /\ ~Looks(pc[t], local[t], m)
    BY <1>1, <1>2, Zenon DEF Looks, At
  <2>3. \A m \in Nodes \ {p} : l.node # m /\ local[t].node # m
    BY <1>1, <1>5, NoNode, Zenon
  <2>4. Spares(t, label, l, p)
    BY <2>1, <2>2, <2>3, Zenon DEF Spares
  <2> QED BY <1>4, <2>4, Rest, Zenon
<1>12. Types'
  <2>1. freeListRefs' \in [Nodes -> Nat]
    BY <1>1, <1>8, Zenon DEF Types
  <2> QED BY <1>1, <1>4, <1>5, <2>1, Zenon DEF Types, Go
<1>13. \A u \in Threads : Threaded(u)'
  BY <1>1, <1>4, <1>10, AllThreaded, Zenon
<1>14. Alone'
  <2>1. freeListRefs[p] = S + 1 => \A u \in Threads : local[u].node # p
    BY <1>9, FlagPositive DEF Added
  <2> QED BY <1>4, <1>5, <2>1, AloneKept, Zenon
<1>15. Counted(p)' /\ (Listed(p)' <=> Listed(p))
  <2>1. Taking(p)' <=> Taking(p)
    BY <1>1, <1>4, <1>5, Moved DEF Taking, At
  <2>2. CASE freeListRefs[p] = S + 1
    <3>1. Added(p)' /\ Unseen(p)'
      BY <1>1, <1>4, <2>2, Moved DEF Added, Unseen
    <3>2. p \in free' /\ ~Listed(p)' /\ ~Listed(p) /\ ~Taking(p) /\ ~Added(p)
      BY <1>1, <1>9, <2>2, <3>1, FlagPositive DEF Listed
    <3>3. freeListRefs'[p] = S /\ Count(p)' = 0
      BY <1>1, <1>3, <1>6, <1>8, <2>2, <3>2, FlagPositive DEF Counted
    <3> QED BY <2>1, <3>1, <3>2, <3>3, Zenon DEF Counted
  <2>3. CASE freeListRefs[p] # S + 1
    <3>1. Added(p)' <=> Added(p)
      <4>1. local'[t] = l /\ \A u \in Threads \ {t} : local'[u] = local[u]
        BY <1>1, <1>4, Moved, Zenon
      <4>2. l.node # p /\ local[t].node # p
        BY <1>1, <1>4, <2>3, NoNode, Zenon
      <4> QED BY <4>1, <4>2, Zenon DEF Added
    <3>2. ~Unseen(p)'
      BY <1>1, <1>4, <1>7, <2>3, NoNode, Moved DEF Unseen
    <3>3. p \in free /\ ~Added(p) => (freeListRefs'[p] < S <=> freeListRefs[p] < S)
      BY <1>3, <1>6, <1>8, <2>3, FlagPositive DEF Counted, Listed
    <3>4. Listed(p)' <=> Listed(p)
      BY <1>1, <3>1, <3>3, Zenon DEF Listed
    <3> QED
      BY <1>1, <1>3, <1>6, <1>7, <1>8, <2>1, <2>3, <3>1, <3>2, <3>4, FlagPositive, SMTT(60) DEF Counted
  <2> QED BY <2>2, <2>3, Zenon
<1>16. Linked'
  BY <1>1, <1>11, <1>15, SMTT(60) DEF IInv, Linked, Types
<1>17. Reached'
  BY <1>1, <1>11, <1>15, ReachedKept, Zenon
<1> QED BY <1>11, <1>12, <1>13, <1>14, <1>15, <1>16, <1>17, Zenon DEF IInv
-----------------------------------------------------------------------------
(* Theorems *)

LEMMA Preserved == IInv /\ [Next]_vars => IInv'
<1> SUFFICES ASSUME IInv, [Next]_vars PROVE IInv'
  BY Zenon
<1>1. CASE UNCHANGED vars
  <2>1. Types'
    BY <1>1, Zenon DEF IInv, Types, vars
  <2>2. (\A t \in Threads : Threaded(t)') /\ Alone'
    BY <1>1, Zenon DEF IInv, vars, Threaded, Alone, At
  <2>3. ASSUME NEW n \in Nodes PROVE Counted(n)' /\ (Listed(n)' <=> Listed(n))
    <3>1. /\ Count(n)' = Count(n) /\ Taking(n)' = Taking(n) /\ Added(n)' = Added(n)
          /\ Unseen(n)' = Unseen(n) /\ Listed(n)' = Listed(n)
      BY <1>1, Zenon DEF vars, Count, Watchers, Taking, Added, Unseen, Listed, At
    <3>2. Counted(n)
      BY Zenon DEF IInv
    <3> QED BY <1>1, <3>1, <3>2, Zenon DEF vars, Counted
  <2>4. Linked'
    BY <1>1, <2>3, Zenon DEF IInv, Linked, Types, vars
  <2>5. Reached'
    BY <1>1, <2>3, ReachedKept, Zenon DEF vars
  <2> QED BY <2>1, <2>2, <2>3, <2>4, <2>5, Zenon DEF IInv
<1>2. ASSUME NEW t \in Threads, NEW n \in Nodes, add(t, n) PROVE IInv'
  BY <1>2, AddStep, Zenon
<1>3. ASSUME NEW t \in Threads, try_get(t) \/ ReloadHead(t) PROVE IInv'
  BY <1>3, LoopStep, Zenon DEF try_get, ReloadHead, At
<1>4. ASSUME NEW t \in Threads, TryGet(t) PROVE IInv'
  BY <1>3, <1>4, LoadRefsStep, CountMeStep, LoadNextStep, PopHeadStep, DropBothStep, DropMineStep, Zenon
  DEF TryGet
<1>5. ASSUME NEW t \in Threads, AddZero(t) PROVE IInv'
  BY <1>5, LoadHeadStep, StoreNextStep, StoreRefsStep, PushHeadStep, SetFlagStep, Zenon DEF AddZero
<1> QED BY <1>1, <1>2, <1>3, <1>4, <1>5, Zenon DEF Next

\* Every step is one of the pool, or none that it sees.
LEMMA PoolStep == IInv /\ [Next]_vars => [Pool!Next]_(Pool!poolVars)
<1> SUFFICES ASSUME IInv, [Next]_vars PROVE Pool!Next \/ UNCHANGED Pool!poolVars
  BY Zenon
<1>1. Types /\ TakenBy \in [Threads -> Nodes \cup {NULL}]
  BY Zenon DEF IInv, Types, TakenBy, Locals
<1>2. CASE UNCHANGED vars
  BY <1>2, Zenon DEF vars, Pool!poolVars, TakenBy, At
<1>3. ASSUME NEW t \in Threads, NEW label, NEW l, Go(t, label, l)
      PROVE  TakenBy' = [TakenBy EXCEPT ![t] = IF label = "get_got" THEN l.head ELSE NULL]
  <2>1. \A u \in Threads : TakenBy'[u] =
            IF u = t THEN (IF label = "get_got" THEN l.head ELSE NULL) ELSE TakenBy[u]
    BY <1>1, <1>3, Moved DEF TakenBy, At
  <2>2. DOMAIN TakenBy' = Threads /\ TakenBy' = [u \in Threads |-> TakenBy'[u]]
    BY Zenon DEF TakenBy
  <2> QED BY <1>1, <2>1, <2>2, Zenon
<1>4. ASSUME NEW t \in Threads, NEW label, NEW l, Go(t, label, l), UNCHANGED free,
             pc[t] # "get_got", label # "get_got"
      PROVE  UNCHANGED Pool!poolVars
  <2>1. TakenBy[t] = NULL
    BY <1>4, Zenon DEF TakenBy, At
  <2> QED BY <1>1, <1>3, <1>4, <2>1 DEF Pool!poolVars
<1>5. ASSUME NEW t \in Threads, try_get(t) \/ AddZero(t) \/ (TryGet(t) /\ ~PopHead(t) /\ ~DropBoth(t))
      PROVE  UNCHANGED Pool!poolVars
  <2>1. UNCHANGED free
    BY <1>5, Zenon DEF try_get, AddZero, TryGet, ReloadHead, LoadRefs, CountMe, LoadNext, DropMine,
                LoadHead, StoreNext, StoreRefs, PushHead, SetFlag
  <2>2. pc[t] # "get_got"
    BY <1>5, Zenon DEF try_get, AddZero, TryGet, ReloadHead, LoadRefs, CountMe, LoadNext, DropMine,
                LoadHead, StoreNext, StoreRefs, PushHead, SetFlag, At
  <2>3. \E label, l : Go(t, label, l) /\ label # "get_got"
    <3>1. ASSUME NEW h, Loop(t, h) \/ Return(t)
          PROVE  \E label, l : Go(t, label, l) /\ label # "get_got"
      BY <3>1 DEF Loop, Return
    <3>2. CASE try_get(t) \/ ReloadHead(t)
      BY <3>1, <3>2, Zenon DEF try_get, ReloadHead
    <3>3. CASE LoadRefs(t) \/ CountMe(t) \/ LoadNext(t)
      BY <3>3 DEF LoadRefs, CountMe, LoadNext
    <3>4. CASE DropMine(t)
      BY <3>1, <3>4 DEF DropMine
    <3>5. CASE LoadHead(t) \/ StoreNext(t) \/ StoreRefs(t)
      BY <3>5 DEF LoadHead, StoreNext, StoreRefs
    <3>6. CASE PushHead(t) \/ SetFlag(t)
      BY <3>1, <3>6 DEF PushHead, SetFlag, ZeroReturns
    <3> QED BY <1>5, <3>2, <3>3, <3>4, <3>5, <3>6, Zenon DEF AddZero, TryGet
  <2> QED BY <1>4, <2>1, <2>2, <2>3, Zenon
<1>6. ASSUME NEW t \in Threads, NEW n \in Nodes, add(t, n) PROVE Pool!Next
  <2>1. n \in Nodes \ free /\ free' = free \cup {n} /\ pc[t] = "idle"
    BY <1>6, Zenon DEF add, At
  <2>2. \A u \in Threads : TakenBy[u] # n
    BY <1>6, NoNode, Zenon DEF add, TakenBy
  <2>3. \E label, l : Go(t, label, l) /\ label # "get_got"
    BY <1>6 DEF add, Return
  <2>4. TakenBy' = TakenBy
    <3>1. TakenBy[t] = NULL
      BY <2>1, Zenon DEF TakenBy, At
    <3> QED BY <1>1, <1>3, <2>3, <3>1
  <2> QED BY <2>1, <2>2, <2>4, Zenon DEF Pool!Next, Pool!Give
<1>7. ASSUME NEW t \in Threads, PopHead(t) PROVE Pool!Next \/ UNCHANGED Pool!poolVars
  <2>1. PICK h \in Nodes : h = local[t].head /\ pc[t] = "get_pop"
    BY <1>7, Zenon DEF IInv, PopHead, Threaded, Getting, At, Types, Locals
  <2>2. TakenBy[t] = NULL
    BY <2>1, Zenon DEF TakenBy, At
  <2>3. CASE freeListHead = h
    <3>1. h \in free /\ free' = free \ {h}
      BY <1>7, <2>1, <2>3, NoNode, Zenon DEF IInv, PopHead, Linked, Listed
    <3>2. Go(t, "get_got", [NoLocal EXCEPT !.head = h])
      BY <1>7, <2>1, <2>3, Zenon DEF PopHead
    <3>3. [NoLocal EXCEPT !.head = h].head = h
      BY Zenon DEF NoLocal
    <3>4. TakenBy' = [TakenBy EXCEPT ![t] = h]
      BY <1>3, <3>2, <3>3, ZenonT(40)
    <3> QED BY <2>2, <3>1, <3>4, Zenon DEF Pool!Next, Pool!Take
  <2>4. CASE freeListHead # h
    <3>1. UNCHANGED free /\ \E l : Go(t, "get_failed", l)
      BY <1>7, <2>1, <2>4, Zenon DEF PopHead
    <3> QED BY <1>4, <2>1, <3>1, Zenon
  <2> QED BY <2>3, <2>4, Zenon
<1>8. ASSUME NEW t \in Threads, DropBoth(t) PROVE Pool!Next
  <2>1. TakenBy[t] # NULL
    BY <1>8, Zenon DEF IInv, DropBoth, Threaded, Getting, TakenBy, At
  <2>2. UNCHANGED free /\ Go(t, "idle", NoLocal)
    BY <1>8, Zenon DEF DropBoth, Return
  <2>3. TakenBy' = [TakenBy EXCEPT ![t] = NULL]
    BY <1>3, <2>2
  <2> QED BY <2>1, <2>2, <2>3, Zenon DEF Pool!Next, Pool!Leave
<1> QED BY <1>2, <1>5, <1>6, <1>7, <1>8, Zenon DEF Next
-----------------------------------------------------------------------------
(* The size of a set of threads, and the theorems *)

INSTANCE FiniteSetTheorems

LEMMA SizesOfThreads == \A A \in SUBSET Threads : SizeOf(A)
<1> SUFFICES ASSUME NEW A \in SUBSET Threads PROVE SizeOf(A)
  BY Zenon
<1>1. IsFiniteSet(Threads) /\ Cardinality(Threads) \in Nat
  BY FreeListAssumption, FS_CardinalityType, Zenon
<1>2. IsFiniteSet(A) /\ Cardinality(A) <= Cardinality(Threads)
  BY <1>1, FS_Subset, Zenon
<1>3. Cardinality(A) \in Nat
  BY <1>2, FS_CardinalityType, Zenon
<1>4. Cardinality(A) = 0 <=> A = {}
  BY <1>2, FS_EmptySet, Zenon
<1>5. \A x : x \notin A => Cardinality(A \cup {x}) = Cardinality(A) + 1
  BY <1>2, FS_AddElement, Zenon
<1>6. \A x \in A : Cardinality(A \ {x}) = Cardinality(A) - 1
  BY <1>2, FS_RemoveElement, Zenon
<1>7. Cardinality(A) + 2 < S
  BY <1>1, <1>2, <1>3, FreeListAssumption DEF S
<1> QED BY <1>3, <1>4, <1>5, <1>6, <1>7, Zenon DEF SizeOf

LEMMA Initially == Init => IInv
<1> SUFFICES ASSUME Init PROVE IInv
  BY Zenon
<1>1. Types
  BY SizesOfThreads, Zenon DEF Init, Types, Labels, Locals, NoLocal
<1>2. \A t \in Threads : Threaded(t)
  BY Zenon DEF Init, Threaded, Getting, Adding, At, NoLocal
<1>3. Alone
  BY Zenon DEF Init, Alone, At, NoLocal
<1>4. \A n \in Nodes : Counted(n)
  <2>1. \A n \in Nodes : Watchers(n) = {}
    BY Zenon DEF Init, Watchers, At
  <2>2. \A n \in Nodes : Count(n) = 0
    BY <2>1, FS_EmptySet, Zenon DEF Count
  <2>3. \A n \in Nodes : ~Taking(n) /\ ~Added(n) /\ ~Unseen(n) /\ ~Listed(n)
    BY FreeListAssumption, Zenon DEF Init, Taking, Added, Unseen, Listed, At, NoLocal
  <2> QED BY <2>2, <2>3, Zenon DEF Init, Counted
<1>5. Linked /\ Reached
  BY Zenon DEF Init, Linked, Reached, Listed
<1> QED BY <1>1, <1>2, <1>3, <1>4, <1>5, Zenon DEF IInv

\* The counts of the blocks are right and the list is well formed, always: the
\* inductive invariant.
THEOREM Invariant == Spec => []IInv
BY Initially, Preserved, PTL DEF Spec

\* The assertion of try_get holds, and at most one thread puts a block back at a
\* time, for any number of threads and blocks.
THEOREM ClaimedAlways == Spec => []Claimed
<1>1. IInv => Claimed
  <2> SUFFICES ASSUME IInv PROVE Claimed
    BY Zenon
  <2>1. ASSUME NEW t \in Threads, At(t, "get_got")
        PROVE  freeListRefs[local[t].head] < S
    <3>1. PICK h \in Nodes : h = local[t].head
      BY <2>1, Zenon DEF IInv, Threaded, Getting, At, Types, Locals
    <3>2. Taking(h) /\ Counted(h)
      BY <2>1, <3>1, Zenon DEF Taking, IInv
    <3>3. Count(h) \in Nat /\ Count(h) + 2 < S
      BY Sizes, Zenon DEF Count, Watchers, SizeOf, IInv
    <3> QED BY <3>1, <3>2, <3>3, FlagPositive DEF Counted
  <2> QED BY <2>1, Zenon DEF Claimed, IInv, Alone, S
<1> QED BY <1>1, Invariant, PTL

\* Every free block is on the list, or is being put there, or has somebody who will put
\* it there, for any number of threads and blocks.
THEOREM NothingEverLost == Spec => []NothingLost
<1>1. IInv => NothingLost
  <2> SUFFICES ASSUME IInv, NEW n \in free, ~Added(n), ~Listed(n)
               PROVE  Watchers(n) # {} /\ freeListRefs[n] >= S
    BY Zenon DEF NothingLost, IInv, Types, Reached, Added, S
  <2>1. Types /\ n \in Nodes /\ Counted(n)
    BY Zenon DEF IInv, Types
  <2>2. freeListRefs[n] = S + Count(n) /\ Count(n) > 0
    BY <2>1, Zenon DEF Counted
  <2>3. Watchers(n) \in SUBSET Threads
    BY Zenon DEF Watchers
  <2>4. Count(n) \in Nat /\ (Count(n) = 0 <=> Watchers(n) = {})
    BY <2>1, <2>3, Sizes, Zenon DEF Count, SizeOf
  <2> QED BY <2>2, <2>4, FlagPositive
<1> QED BY <1>1, Invariant, PTL

\* A block changes hands only as in a pool of blocks: whoever takes one finds it
\* free, although it may have left the list and come back since the thread read
\* its successor.
THEOREM ImplementsPool == Spec => PoolSpec
<1>1. Init => Pool!Init
  BY Zenon DEF Init, Pool!Init, TakenBy, At
<1> QED BY <1>1, PoolStep, Invariant, PTL DEF Spec, PoolSpec, Pool!Spec
=============================================================================

---------------------------- MODULE ProducerHash ----------------------------
(***************************************************************************)
(* How a thread that sends into a slow pipe finds its sub-queue            *)
(* (get_or_add_implicit_producer of libmoon/lib/concurrentqueue/           *)
(* concurrentqueue.h): a hash table without locks from threads to          *)
(* producers.  A table that fills up is followed by a larger one; entries  *)
(* of old tables are copied when their threads look for them.  One counter *)
(* reserves the room in all of the tables.  A new producer is linked into  *)
(* the list by which consumers find it.                                    *)
(*                                                                         *)
(* Each step accesses shared memory once.  No producer becomes inactive    *)
(* (MOODYCAMEL_CPP11_THREAD_LOCAL_SUPPORTED is not defined), so the search *)
(* for one to recycle finds none.                                          *)
(***************************************************************************)
EXTENDS Integers, Sequences, FiniteSets

CONSTANTS
    Threads,
    hash_thread_id,                         \* the hash of each thread
    INITIAL_IMPLICIT_PRODUCER_HASH_SIZE,    \* 32
    MaxFails,                               \* bound on the allocations that fail
    MaxCalls,                               \* bound on the calls
    NULL

ASSUME HashAssumption ==
    /\ hash_thread_id \in [Threads -> Nat]
    /\ INITIAL_IMPLICIT_PRODUCER_HASH_SIZE \in Nat \ {0} /\ {MaxFails, MaxCalls} \subseteq Nat
    /\ NULL \notin Threads \cup Nat

VARIABLES
    tables,         \* the hash tables, each after its prev
    implicitProducerHashCount,
    implicitProducerHashResizeInProgress,
    producers,      \* next of each producer created
    producerListTail,
    pc, local,      \* of each thread
    fails,          \* allocations failed so far
    calls,          \* calls so far
    got             \* the producers each thread has been given

hash == <<tables, implicitProducerHashCount, implicitProducerHashResizeInProgress>>
list == <<producers, producerListTail>>
vars == <<hash, list, pc, local, fails, calls, got>>

NoCall == [main |-> 0, hash |-> 0, index |-> 0, newCount |-> 0, value |-> NULL, prev |-> NULL]

Table(capacity) ==
    [capacity |-> capacity, entries |-> [i \in 0..(capacity - 1) |-> [key |-> NULL, value |-> NULL]]]

Init ==
    /\ tables = <<Table(INITIAL_IMPLICIT_PRODUCER_HASH_SIZE)>>
    /\ implicitProducerHashCount = 0 /\ implicitProducerHashResizeInProgress = FALSE
    /\ producers = <<>> /\ producerListTail = NULL
    /\ pc = [t \in Threads |-> "idle"] /\ local = [t \in Threads |-> NoCall]
    /\ fails = 0 /\ got = [t \in Threads |-> {}]
    /\ calls = 0

implicitProducerHash == Len(tables)

At(t, label) == pc[t] = label
Go(t, label, l) == pc' = [pc EXCEPT ![t] = label] /\ local' = [local EXCEPT ![t] = l]

\* The entry of table n at which a thread is, for indices that run on.
Slot(t, n) == local[t].index % tables[n].capacity
Key(t, n) == tables[n].entries[Slot(t, n)].key

Return(t, producer) ==
    /\ Go(t, "idle", NoCall)
    /\ got' = [got EXCEPT ![t] = IF producer = NULL THEN @ ELSE @ \cup {producer}]

\* An allocation fails.
Fail == fails < MaxFails /\ fails' = fails + 1
-----------------------------------------------------------------------------
(* Looking for the thread in the current table and all before it *)

get_or_add_implicit_producer(t) ==
    LET main == implicitProducerHash
    IN  /\ At(t, "idle") /\ calls < MaxCalls
        /\ calls' = calls + 1
        /\ Go(t, "probe", [NoCall EXCEPT !.main = main, !.hash = main, !.index = hash_thread_id[t]])
        /\ UNCHANGED <<hash, list, fails, got>>

Step(t, label, l) == Go(t, label, l) /\ UNCHANGED <<hash, list, fails, got>>

\* A free slot: the thread is not in this table.
NextTable(t) ==
    LET l == local[t]
    IN  /\ At(t, "probe") /\ Key(t, l.hash) = NULL
        /\ IF l.hash > 1
           THEN Step(t, "probe", [l EXCEPT !.hash = @ - 1, !.index = hash_thread_id[t]])
           ELSE Step(t, "count", [l EXCEPT !.hash = 0, !.index = 0])

NextSlot(t) ==
    LET l == local[t]
    IN  /\ At(t, "probe") /\ Key(t, l.hash) \notin {NULL, t}
        /\ Step(t, "probe", [l EXCEPT !.index = (@ + 1) % tables[l.hash].capacity])

\* Mutant: the value is read from the current table.
Found_MainHash(t) ==
    LET l == local[t]
        value == tables[l.main].entries[Slot(t, l.main)].value
    IN  /\ At(t, "probe") /\ Key(t, l.hash) = t
        /\ IF l.hash = l.main THEN Return(t, value)
           ELSE /\ Go(t, "insert", [l EXCEPT !.value = value, !.hash = 0,
                                             !.index = hash_thread_id[t]])
                /\ UNCHANGED got
        /\ UNCHANGED <<hash, list, fails>>

\* Found; an entry of an old table is copied to the current one.
Found(t) ==
    LET l == local[t]
        value == tables[l.hash].entries[Slot(t, l.hash)].value
    IN  /\ At(t, "probe") /\ Key(t, l.hash) = t
        /\ IF l.hash = l.main THEN Return(t, value)
           ELSE /\ Go(t, "insert", [l EXCEPT !.value = value, !.hash = 0,
                                             !.index = hash_thread_id[t]])
                /\ UNCHANGED got
        /\ UNCHANGED <<hash, list, fails>>
-----------------------------------------------------------------------------
(* Room for a new one *)

Reserve(t) ==
    /\ At(t, "count")
    /\ implicitProducerHashCount' = implicitProducerHashCount + 1
    /\ Go(t, "full", [local[t] EXCEPT !.newCount = implicitProducerHashCount + 1])
    /\ UNCHANGED <<tables, implicitProducerHashResizeInProgress, list, fails, got>>

Capacity(t) == tables[local[t].main].capacity
HalfFull(t) == local[t].newCount >= Capacity(t) \div 2

\* The table is half full: the first thread to see it gets the lock.
CheckFull(t) ==
    /\ At(t, "full")
    /\ IF HalfFull(t) /\ ~implicitProducerHashResizeInProgress
       THEN implicitProducerHashResizeInProgress' = TRUE /\ Go(t, "locked", local[t])
       ELSE Go(t, "room", local[t]) /\ UNCHANGED implicitProducerHashResizeInProgress
    /\ UNCHANGED <<tables, implicitProducerHashCount, list, fails, got>>

ReloadTable(t) ==
    LET l == [local[t] EXCEPT !.main = implicitProducerHash]
    IN  /\ At(t, "locked")
        /\ Step(t, IF l.newCount >= tables[l.main].capacity \div 2 THEN "resize" ELSE "unlock", l)

\* The least capacity that is less than half full, twice the old one or more.
NewCapacity(capacity, n) ==
    LET doubled[k \in 0..(n + 1)] == IF k = 0 THEN capacity ELSE 2 * doubled[k - 1]
        larger == {doubled[k] : k \in 1..(n + 1)}
    IN  CHOOSE c \in larger : n < c \div 2 /\ \A d \in larger : n < d \div 2 => c <= d

Resize(t) ==
    /\ At(t, "resize")
    /\ tables' = Append(tables, Table(NewCapacity(Capacity(t), local[t].newCount)))
    /\ Go(t, "unlock", [local[t] EXCEPT !.main = Len(tables) + 1])
    /\ UNCHANGED <<implicitProducerHashCount, implicitProducerHashResizeInProgress, list, fails,
                   got>>

\* No memory: the room is given back, and the lock; no producer.
NoTable(t) ==
    /\ At(t, "resize") /\ Fail
    /\ implicitProducerHashCount' = implicitProducerHashCount - 1
    /\ Go(t, "no_table", NoCall)
    /\ UNCHANGED <<tables, implicitProducerHashResizeInProgress, list, got>>

\* Mutant: the lock is kept when there is no memory.
Unlock_NotFailed(t) ==
    /\ \/ /\ At(t, "unlock")
          /\ implicitProducerHashResizeInProgress' = FALSE
          /\ Go(t, "room", local[t]) /\ UNCHANGED got
       \/ /\ At(t, "no_table") /\ Return(t, NULL)
          /\ UNCHANGED implicitProducerHashResizeInProgress
    /\ UNCHANGED <<tables, implicitProducerHashCount, list, fails>>

Unlock(t) ==
    /\ implicitProducerHashResizeInProgress' = FALSE
    /\ \/ At(t, "unlock") /\ Go(t, "room", local[t]) /\ UNCHANGED got
       \/ At(t, "no_table") /\ Return(t, NULL)
    /\ UNCHANGED <<tables, implicitProducerHashCount, list, fails>>

\* Less than three quarters full.
HasRoom(t) == local[t].newCount < (Capacity(t) \div 2) + (Capacity(t) \div 4)

\* Without room the thread waits for the one that resizes.
CheckRoom(t) ==
    /\ At(t, "room")
    /\ IF HasRoom(t) THEN Step(t, "create", local[t])
       ELSE Step(t, "full", [local[t] EXCEPT !.main = implicitProducerHash])
-----------------------------------------------------------------------------
(* recycle_or_create_producer, add_producer *)

\* The new producer is created, and the tail of the list is read.
CreateProducer(t) ==
    /\ At(t, "create")
    /\ producers' = Append(producers, producerListTail)
    /\ Go(t, "link", [local[t] EXCEPT !.value = Len(producers) + 1, !.prev = producerListTail])
    /\ UNCHANGED <<hash, producerListTail, fails, got>>

NoProducer(t) ==
    /\ At(t, "create") /\ Fail
    /\ implicitProducerHashCount' = implicitProducerHashCount - 1
    /\ Return(t, NULL)
    /\ UNCHANGED <<tables, implicitProducerHashResizeInProgress, list>>

\* The compare and exchange that makes it the tail, or has it linked to another.
LinkProducer(t) ==
    LET l == local[t]
    IN  /\ At(t, "link")
        /\ IF producerListTail = l.prev
           THEN /\ producerListTail' = l.value
                /\ Go(t, "insert", [l EXCEPT !.prev = NULL, !.index = hash_thread_id[t]])
                /\ UNCHANGED producers
           ELSE /\ producers' = [producers EXCEPT ![l.value] = producerListTail]
                /\ Go(t, "link", [l EXCEPT !.prev = producerListTail])
                /\ UNCHANGED producerListTail
        /\ UNCHANGED <<hash, fails, got>>
-----------------------------------------------------------------------------
(* Entering the thread in the current table, for the first time or again *)

InsertProbe(t) ==
    LET l == local[t]
    IN  /\ At(t, "insert")
        /\ IF Key(t, l.main) = NULL THEN Step(t, "exchange", l)
           ELSE Step(t, "insert", [l EXCEPT !.index = (@ + 1) % Capacity(t)])

InsertExchange(t) ==
    LET l == local[t]
    IN  /\ At(t, "exchange")
        /\ IF Key(t, l.main) = NULL
           THEN /\ tables' = [tables EXCEPT ![l.main].entries[Slot(t, l.main)] =
                                                [key |-> t, value |-> l.value]]
                /\ Return(t, l.value)
           ELSE /\ Go(t, "insert", [l EXCEPT !.index = (@ + 1) % Capacity(t)])
                /\ UNCHANGED <<tables, got>>
        /\ UNCHANGED <<implicitProducerHashCount, implicitProducerHashResizeInProgress, list, fails>>
-----------------------------------------------------------------------------
GoesOn(t) ==
    \/ NextTable(t) \/ NextSlot(t) \/ Found(t)
    \/ Reserve(t) \/ CheckFull(t) \/ ReloadTable(t) \/ Resize(t) \/ NoTable(t) \/ Unlock(t)
    \/ CheckRoom(t) \/ CreateProducer(t) \/ NoProducer(t) \/ LinkProducer(t)
    \/ InsertProbe(t) \/ InsertExchange(t)

Next ==
    \E t \in Threads : get_or_add_implicit_producer(t) \/ (GoesOn(t) /\ UNCHANGED calls)

Spec == Init /\ [][Next]_vars

\* A thread that has begun is scheduled until it is done.
FairSpec == Spec /\ \A t \in Threads : WF_vars(GoesOn(t) /\ UNCHANGED calls)
-----------------------------------------------------------------------------
TypeOK ==
    /\ implicitProducerHashCount \in 0..Cardinality(Threads)
    /\ implicitProducerHashResizeInProgress \in BOOLEAN
    /\ producerListTail \in DOMAIN producers \cup {NULL}
    /\ \A p \in DOMAIN producers : producers[p] \in DOMAIN producers \cup {NULL}
    /\ fails \in 0..MaxFails

\* A thread always gets the same producer, in whatever table it was entered and
\* however often the table was replaced, and no two threads share one: a producer
\* has a single writer (the comment on lines 3288 to 3290 and that on
\* ImplicitProducerKVP::value).
OneProducer ==
    /\ \A t \in Threads : Cardinality(got[t]) <= 1
    /\ \A t, u \in Threads : t # u => got[t] \cap got[u] = {}

\* "Not an infinite loop because at least one slot is free in the hash table" (line
\* 3305), "there's guaranteed to be room in the current hash table" (3312): in
\* every table, also an old one that late threads still fill.
FreeSlot ==
    \A n \in DOMAIN tables : \E i \in DOMAIN tables[n].entries : tables[n].entries[i].key = NULL

\* The counter is the number of threads that are in some table or on their way
\* into one: no path on which memory runs out leaves room reserved or takes it
\* away from another thread.
CountExact ==
    LET entered == {t \in Threads : \E n \in DOMAIN tables : \E i \in DOMAIN tables[n].entries :
                                        tables[n].entries[i].key = t}
        onTheWay == {t \in Threads : local[t].newCount > 0}
    IN  implicitProducerHashCount = Cardinality(entered \cup onTheWay)

\* The producers that are k links from the tail.
Linked[k \in Nat] ==
    IF k = 0 THEN producerListTail
    ELSE IF Linked[k - 1] = NULL THEN NULL ELSE producers[Linked[k - 1]]

\* Consumers reach the producer of every thread that has one by way of the list,
\* which ends: concurrent add_producer calls lose none.
AllListed ==
    /\ \A t \in Threads : \A p \in got[t] : \E k \in 0..Len(producers) : Linked[k] = p
    /\ Linked[Len(producers)] = NULL

\* Every call returns, also when threads wait for another one to replace the table
\* and that one runs out of memory (there are at most MaxCalls calls).
Returns == <>[](\A t \in Threads : pc[t] = "idle")
=============================================================================

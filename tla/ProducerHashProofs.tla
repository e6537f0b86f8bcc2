------------------------ MODULE ProducerHashProofs ------------------------
(***************************************************************************)
(* A thread always finds the sub-queue it was given first, and no two      *)
(* threads share one: for any number of threads, every hash function,      *)
(* every order of their steps and however often the table is replaced.     *)
(***************************************************************************)
EXTENDS ProducerHash, FiniteSetTheorems, TLAPS

(* The way of a search *)

\* A set of indices has the first one of a search and, with every index that the
\* search goes on from, the next one.
Closed(first, on, next, A) == first \in A /\ \A x \in A \cap on : next[x] \in A

\* The indices that a search meets.
Way(first, on, next) == {x \in Nat : \A A \in SUBSET Nat : Closed(first, on, next, A) => x \in A}

\* The search is where it goes to, and meets nothing else.
LEMMA WayHas ==
    ASSUME NEW first \in Nat, NEW on, NEW next \in [Nat -> Nat]
    PROVE  /\ Way(first, on, next) \in SUBSET Nat
           /\ Closed(first, on, next, Way(first, on, next))
<1>1. Way(first, on, next) \in SUBSET Nat
  BY Zenon DEF Way
<1>2. first \in Way(first, on, next)
  BY Zenon DEF Way, Closed
<1>3. ASSUME NEW x \in Way(first, on, next) \cap on PROVE next[x] \in Way(first, on, next)
  <2>1. x \in Nat /\ next[x] \in Nat
    BY <1>1, <1>3, Zenon
  <2>2. ASSUME NEW A \in SUBSET Nat, Closed(first, on, next, A) PROVE next[x] \in A
    <3>1. x \in A
      BY <1>3, <2>2, Zenon DEF Way
    <3> QED BY <1>3, <2>2, <3>1, Zenon DEF Closed
  <2> QED BY <2>1, <2>2, Zenon DEF Way
<1> QED BY <1>1, <1>2, <1>3, Zenon DEF Closed

\* Every closed set has all that the search meets.
LEMMA WayLeast ==
    ASSUME NEW first, NEW on, NEW next, NEW A \in SUBSET Nat, Closed(first, on, next, A)
    PROVE  Way(first, on, next) \subseteq A
BY Zenon DEF Way

\* A search that goes on from more indices meets more.
LEMMA WayGrows ==
    ASSUME NEW first, NEW on, NEW next, NEW more, on \subseteq more
    PROVE  Way(first, on, next) \subseteq Way(first, more, next)
<1>1. \A A \in SUBSET Nat : Closed(first, more, next, A) => Closed(first, on, next, A)
  BY Zenon DEF Closed
<1> QED BY <1>1, Zenon DEF Way

\* A search ends at one index.
LEMMA OneEnd ==
    ASSUME NEW first \in Nat, NEW on, NEW next \in [Nat -> Nat],
           NEW x \in Way(first, on, next), NEW y \in Way(first, on, next), x \notin on, y \notin on
    PROVE  x = y
<1> DEFINE A == {z \in Nat : x \in Way(z, on, next)}
<1>1. first \in A
  BY Zenon
<1>2. ASSUME NEW z \in A \cap on PROVE next[z] \in A
  <2>1. z \in Nat /\ z # x /\ next[z] \in Nat /\ x \in Way(z, on, next) /\ x \in Nat
    BY <1>2, WayHas, Zenon
  <2>2. ASSUME x \notin Way(next[z], on, next) PROVE FALSE
    <3> DEFINE B == Way(next[z], on, next) \cup {z}
    <3>1. /\ Way(next[z], on, next) \in SUBSET Nat
          /\ Closed(next[z], on, next, Way(next[z], on, next))
      BY <2>1, WayHas, Zenon
    <3>2. B \in SUBSET Nat /\ Closed(z, on, next, B)
      BY <2>1, <3>1, Zenon DEF Closed
    <3>3. x \in B
      <4> HIDE DEF B
      <4> QED BY <2>1, <3>2, WayLeast, Zenon
    <3> QED BY <2>1, <2>2, <3>3, Zenon
  <2> QED BY <2>1, <2>2, Zenon
<1>3. y \in A
  <2>1. A \in SUBSET Nat /\ Closed(first, on, next, A)
    BY <1>1, <1>2, Zenon DEF Closed
  <2> HIDE DEF A
  <2> QED BY <2>1, WayLeast, Zenon
<1>4. y \in Nat /\ Closed(y, on, next, {y})
  BY <1>3, Zenon DEF Closed
<1>5. x \in Way(y, on, next)
  BY <1>3, Zenon
<1> DEFINE C == {y}
<1>6. C \in SUBSET Nat /\ Closed(y, on, next, C)
  BY <1>4, Zenon
<1> HIDE DEF C
<1>7. x \in C
  BY <1>5, <1>6, WayLeast, Zenon
<1> QED BY <1>7, Zenon DEF C

-----------------------------------------------------------------------------
(* The inductive invariant *)

Entries == [key : Threads \cup {NULL}, value : Nat \cup {NULL}]
AnyTable ==
    {T \in [capacity : Nat \ {0}, entries : UNION {[0..(c - 1) -> Entries] : c \in Nat}] :
        T.entries \in [0..(T.capacity - 1) -> Entries]}
Calls == [main : Nat, hash : Nat, index : Nat, newCount : Int,
          value : Nat \cup {NULL}, prev : Nat \cup {NULL}]

\* The labels at which a thread knows that it is in no table, and those at which it
\* enters the current one.
Adding == {"count", "full", "locked", "resize", "unlock", "room", "create", "link"}
Entering == {"insert", "exchange"}
Labels == {"idle", "probe", "no_table"} \cup Adding \cup Entering

\* The types of the variables.
Types ==
    /\ tables \in Seq(AnyTable) /\ Len(tables) > 0
    /\ implicitProducerHashCount \in Int
    /\ producers \in Seq(Nat \cup {NULL}) /\ producerListTail \in Nat \cup {NULL}
    /\ pc \in [Threads -> Labels]
    /\ local \in [Threads -> Calls]
    /\ got \in [Threads -> SUBSET Nat]

Tabs == 1..Len(tables)
Places(n) == 0..(tables[n].capacity - 1)

\* The search for thread t in table n: it goes on from entries of other threads.
On(t, n) == {x \in Nat : tables[n].entries[x % tables[n].capacity].key \notin {NULL, t}}
Following(n) == [x \in Nat |-> (x + 1) % tables[n].capacity]
Search(t, n) == Way(hash_thread_id[t], On(t, n), Following(n))

In(t, n) == \E i \in Places(n) : tables[n].entries[i].key = t

\* Every entry is on the way of the search for its thread, and has a producer.
Entered ==
    \A n \in Tabs : \A i \in Places(n) : \A t \in Threads :
       tables[n].entries[i].key = t =>
          /\ \E x \in Search(t, n) : x % tables[n].capacity = i
          /\ tables[n].entries[i].value \in Nat

\* What each label knows: in which tables the thread is not, and that it is on
\* its way through the table it looks at.
Place(t) ==
    /\ pc[t] = "probe" =>
          /\ local[t].main \in Tabs /\ local[t].hash \in 1..local[t].main
          /\ \A n \in Tabs : n > local[t].hash => ~In(t, n)
          /\ local[t].index \in Search(t, local[t].hash)
    /\ pc[t] \in Adding => local[t].main \in Tabs /\ \A n \in Tabs : ~In(t, n)
    /\ pc[t] = "resize" => local[t].newCount \in Nat
    /\ pc[t] \in Entering =>
          /\ local[t].main \in Tabs /\ ~In(t, local[t].main)
          /\ local[t].index \in Search(t, local[t].main)

\* The producers of a thread in the tables, and the one it is about to enter.
Held(t) ==
    {v \in Nat : \E n \in Tabs : \E i \in Places(n) :
        tables[n].entries[i].key = t /\ tables[n].entries[i].value = v}
Carried(t) == IF pc[t] \in {"link"} \cup Entering THEN {local[t].value} ELSE {}
Mine(t) == Held(t) \cup Carried(t)

\* A thread has one producer and shares it with no other thread.
Owned ==
    /\ \A t \in Threads : got[t] \subseteq Held(t)
    /\ \A t \in Threads : \A v \in Mine(t) : v \in 1..Len(producers)
    /\ \A t, u \in Threads : \A v \in Mine(t) : \A w \in Mine(u) : v = w <=> t = u

Inv == Types /\ Entered /\ Owned /\ \A t \in Threads : Place(t)

-----------------------------------------------------------------------------
(* The capacity of the next table *)

INSTANCE WellFoundedInduction

\* A nonempty set of naturals has a least element.
LEMMA LeastOf ==
    ASSUME NEW T \in SUBSET Nat, T # {}
    PROVE  \E x \in T : \A y \in T : x <= y
<1> DEFINE R == OpToRel(<, Nat)
<1>1. IsWellFoundedOn(R, Nat)
  BY NatLessThanWellFounded, Zenon
<1>2. \A x, y \in Nat : x < y => <<x, y>> \in R
  BY Zenon DEF OpToRel
<1> HIDE DEF R
<1>3. PICK x \in T : \A y \in T : ~(<<y, x>> \in R)
  BY <1>1, WFMin, Zenon
<1>4. \A y \in T : ~(y < x)
  BY <1>2, <1>3, Zenon
<1>5. \A y \in T : x <= y
  BY <1>4
<1> QED BY <1>5, Zenon

\* The capacity doubled again and again, n + 1 times.
Doubled(v, capacity, n) ==
    v = [k \in 0..(n + 1) |-> IF k = 0 THEN capacity ELSE 2 * v[k - 1]]

\* The least of the capacities v that is less than half full with n entries.
Fits(v, n) ==
    LET larger == {v[k] : k \in 1..(n + 1)}
    IN  CHOOSE c \in larger : n < c \div 2 /\ \A d \in larger : n < d \div 2 => c <= d

\* NewCapacity is the least of the capacities that its definition describes.
LEMMA CapacityChosen ==
    ASSUME NEW capacity, NEW n
    PROVE  NewCapacity(capacity, n) = Fits(CHOOSE v : Doubled(v, capacity, n), n)
BY Zenon DEF NewCapacity, Doubled, Fits

\* Doubling is defined for every number of times.
LEMMA DoubledExists ==
    ASSUME NEW capacity \in Nat \ {0}, NEW m \in Nat
    PROVE  \E v : Doubled(v, capacity, m)
<1> DEFINE Up(n, v) == /\ v \in [0..n -> Nat] /\ v[0] = capacity
                       /\ \A i \in 1..n : v[i] = 2 * v[i - 1]
<1>1. \A n \in Nat : \E v : Up(n, v)
  <2> SUFFICES ASSUME {n \in Nat : ~\E v : Up(n, v)} # {} PROVE FALSE
    BY Zenon
  <2>1. PICK n \in Nat : /\ ~\E v : Up(n, v)
                         /\ \A y \in Nat : (~\E v : Up(y, v)) => n <= y
    <3> DEFINE T == {y \in Nat : ~\E v : Up(y, v)}
    <3>1. T \in SUBSET Nat /\ T # {}
      BY Zenon
    <3> HIDE DEF Up
    <3>2. PICK x \in T : \A y \in T : x <= y
      <4> HIDE DEF T
      <4> QED BY <3>1, LeastOf, Zenon
    <3> QED BY <3>2, Zenon
  <2>2. Up(0, [i \in 0..0 |-> capacity])
    OBVIOUS
  <2>3. n # 0
    <3> HIDE DEF Up
    <3> QED BY <2>1, <2>2, Zenon
  <2>4. PICK v : Up(n - 1, v)
    <3> HIDE DEF Up
    <3> QED BY <2>1, <2>3
  <2> DEFINE w == [i \in 0..n |-> IF i = n THEN 2 * v[n - 1] ELSE v[i]]
  <2>5. v[n - 1] \in Nat
    BY <2>3, <2>4
  <2>6. w \in [0..n -> Nat] /\ w[0] = capacity
    BY <2>3, <2>4, <2>5
  <2>7. ASSUME NEW i \in 1..n PROVE w[i] = 2 * w[i - 1]
    BY <2>3, <2>4
  <2>8. Up(n, w)
    BY <2>6, <2>7, Zenon
  <2> HIDE DEF Up, w
  <2> QED BY <2>1, <2>8, Zenon
<1>2. m + 1 \in Nat
  OBVIOUS
<1>3. PICK v : Up(m + 1, v)
  <2> HIDE DEF Up
  <2> QED BY <1>1, <1>2, Zenon
<1>4. \A i \in 0..(m + 1) : v[i] = IF i = 0 THEN capacity ELSE 2 * v[i - 1]
  BY <1>3
<1>5. v = [i \in 0..(m + 1) |-> v[i]]
  BY <1>3, Zenon
<1> QED BY <1>4, <1>5, Zenon DEF Doubled

\* The capacity of the next table is a natural number and not 0.
LEMMA CapacityType ==
    ASSUME NEW capacity \in Nat \ {0}, NEW n \in Nat
    PROVE  NewCapacity(capacity, n) \in Nat \ {0}
<1> DEFINE v == CHOOSE x : Doubled(x, capacity, n)
<1>1. Doubled(v, capacity, n)
  BY DoubledExists, Zenon
<1>2. NewCapacity(capacity, n) = Fits(v, n)
  BY CapacityChosen, Zenon
<1> HIDE DEF v
<1>3. \A k \in 0..(n + 1) : v[k] = IF k = 0 THEN capacity ELSE 2 * v[k - 1]
  BY <1>1, Zenon DEF Doubled
<1> DEFINE Bad == {k \in 0..(n + 1) : ~(v[k] \in Nat /\ v[k] >= k + 1)}
<1>4. Bad = {}
  <2> SUFFICES ASSUME Bad # {} PROVE FALSE
    BY Zenon
  <2>1. Bad \in SUBSET Nat
    OBVIOUS
  <2>2. PICK k \in Bad : \A y \in Bad : k <= y
    <3> HIDE DEF Bad
    <3> QED BY <2>1, LeastOf, Zenon
  <2>3. k \in 0..(n + 1) /\ ~(v[k] \in Nat /\ v[k] >= k + 1)
    BY <2>2, Zenon
  <2>4. k # 0
    BY <1>3, <2>3
  <2>5. k - 1 \in 0..(n + 1) /\ k - 1 \notin Bad
    BY <2>2, <2>3, <2>4
  <2>6. v[k - 1] \in Nat /\ v[k - 1] >= k
    BY <2>3, <2>5
  <2>7. v[k] = 2 * v[k - 1]
    BY <1>3, <2>3, <2>4
  <2> HIDE DEF Bad
  <2> QED BY <2>3, <2>4, <2>6, <2>7
<1>5. \A k \in 0..(n + 1) : v[k] \in Nat /\ v[k] >= k + 1
  BY <1>4, Zenon
<1> HIDE DEF Bad
<1> DEFINE larger == {v[k] : k \in 1..(n + 1)}
           fit == {c \in larger : n < c \div 2}
<1>6. larger \in SUBSET (Nat \ {0})
  BY <1>5
<1>7. v[n + 1] = 2 * v[n] /\ v[n] \in Nat /\ v[n] >= n + 1
  BY <1>3, <1>5
<1>8. v[n + 1] \in larger
  OBVIOUS
<1>9. n < v[n + 1] \div 2
  BY <1>7
<1>10. fit \in SUBSET Nat /\ fit # {}
  BY <1>6, <1>8, <1>9, Zenon
<1>11. PICK c \in fit : \A d \in fit : c <= d
  <2> HIDE DEF fit
  <2> QED BY <1>10, LeastOf, Zenon
<1>12. \E e \in larger : n < e \div 2 /\ \A d \in larger : n < d \div 2 => e <= d
  BY <1>11, Zenon
<1>13. Fits(v, n) \in larger
  BY <1>12, Zenon DEF Fits
<1> HIDE DEF larger
<1> QED BY <1>2, <1>6, <1>13, Zenon

-----------------------------------------------------------------------------
(* Searches *)

\* The parts of a table have their types, and an index is taken into it.
LEMMA TableType ==
    ASSUME Types, NEW n \in Tabs
    PROVE  /\ tables[n] \in AnyTable
           /\ tables[n].capacity \in Nat \ {0} /\ tables[n].entries \in [Places(n) -> Entries]
           /\ Following(n) \in [Nat -> Nat]
           /\ \A x \in Nat : x % tables[n].capacity \in Places(n)
<1>1. tables[n] \in AnyTable
  BY DEF Types, Tabs
<1>2. tables[n].capacity \in Nat \ {0} /\ tables[n].entries \in [Places(n) -> Entries]
  BY <1>1, Zenon DEF AnyTable, Places
<1>3. \A x \in Nat : x % tables[n].capacity \in Places(n) /\ (x + 1) % tables[n].capacity \in Nat
  BY <1>2 DEF Places
<1> QED BY <1>1, <1>2, <1>3, Zenon DEF Following

\* A search begins at the hash of the thread and goes on from the entries of others.
LEMMA SearchHas ==
    ASSUME Types, NEW n \in Tabs, NEW t \in Threads
    PROVE  /\ Search(t, n) \in SUBSET Nat /\ hash_thread_id[t] \in Search(t, n)
           /\ \A x \in Search(t, n) :
                 tables[n].entries[x % tables[n].capacity].key \notin {NULL, t} =>
                    (x + 1) % tables[n].capacity \in Search(t, n)
<1>1. hash_thread_id[t] \in Nat /\ Following(n) \in [Nat -> Nat]
  BY HashAssumption, TableType, Zenon
<1>2. Search(t, n) \in SUBSET Nat /\ Closed(hash_thread_id[t], On(t, n), Following(n), Search(t, n))
  BY <1>1, WayHas, Zenon DEF Search
<1>3. ASSUME NEW x \in Search(t, n),
             tables[n].entries[x % tables[n].capacity].key \notin {NULL, t}
      PROVE  (x + 1) % tables[n].capacity \in Search(t, n)
  <2>1. x \in Nat /\ x \in On(t, n)
    BY <1>2, <1>3, Zenon DEF On
  <2>2. Following(n)[x] \in Search(t, n)
    BY <1>2, <2>1, Zenon DEF Closed
  <2> QED BY <2>1, <2>2, Zenon DEF Following
<1> QED BY <1>2, <1>3, Zenon DEF Closed

\* A search that meets a free slot shows that the thread is not in the table.
LEMMA FreeIsOut ==
    ASSUME Types, Entered, NEW n \in Tabs, NEW t \in Threads, NEW x \in Search(t, n),
           tables[n].entries[x % tables[n].capacity].key = NULL
    PROVE  ~In(t, n)
<1> SUFFICES ASSUME NEW i \in Places(n), tables[n].entries[i].key = t PROVE FALSE
  BY Zenon DEF In
<1>1. PICK y \in Search(t, n) : y % tables[n].capacity = i
  BY Zenon DEF Entered
<1>2. hash_thread_id[t] \in Nat /\ Following(n) \in [Nat -> Nat] /\ NULL # t
  BY HashAssumption, TableType, Zenon
<1>3. x \notin On(t, n) /\ y \notin On(t, n)
  BY <1>1, Zenon DEF On
<1>4. x = y
  BY <1>1, <1>2, <1>3, OneEnd, Zenon DEF Search
<1> QED BY <1>1, <1>2, <1>4, Zenon

-----------------------------------------------------------------------------
(* What a step of one thread leaves to the others *)

\* The tables are still there, the searches meet as much as before, and only t has
\* been entered.
Grows(t) ==
    /\ \A n \in Tabs : n \in Tabs'
    /\ \A n \in Tabs : \A u \in Threads : Search(u, n) \subseteq Search(u, n)'
    /\ \A u \in Threads \ {t} : \A n \in Tabs' : In(u, n)' => n \in Tabs /\ In(u, n)

\* The other threads are where they were.
Others(t) == \A u \in Threads \ {t} : pc'[u] = pc[u] /\ local'[u] = local[u] /\ got'[u] = got[u]

\* Threads that take no step keep what their labels know.
LEMMA PlaceOthers ==
    ASSUME NEW t \in Threads, Grows(t), Others(t), NEW u \in Threads \ {t}, Place(u)
    PROVE  Place(u)'
<1>1. /\ pc'[u] = pc[u] /\ local'[u] = local[u]
      /\ \A n \in Tabs : n \in Tabs' /\ Search(u, n) \subseteq Search(u, n)'
      /\ \A n \in Tabs' : In(u, n)' => n \in Tabs /\ In(u, n)
  BY Zenon DEF Others, Grows
<1>2. ASSUME pc[u] = "probe"
      PROVE  /\ local[u].main \in Tabs' /\ local[u].hash \in 1..local[u].main
             /\ \A n \in Tabs' : n > local[u].hash => ~In(u, n)'
             /\ local[u].index \in Search(u, local[u].hash)'
  <2>1. /\ local[u].main \in Tabs /\ local[u].hash \in 1..local[u].main
        /\ \A n \in Tabs : n > local[u].hash => ~In(u, n)
        /\ local[u].index \in Search(u, local[u].hash)
    BY <1>2, Zenon DEF Place
  <2>2. local[u].hash \in Tabs
    BY <2>1 DEF Tabs
  <2> QED BY <1>1, <2>1, <2>2, Zenon
<1>3. ASSUME pc[u] \in Adding PROVE local[u].main \in Tabs' /\ \A n \in Tabs' : ~In(u, n)'
  BY <1>1, <1>3, Zenon DEF Place
<1>4. ASSUME pc[u] \in Entering
      PROVE  /\ local[u].main \in Tabs' /\ ~In(u, local[u].main)'
             /\ local[u].index \in Search(u, local[u].main)'
  <2>1. /\ local[u].main \in Tabs /\ ~In(u, local[u].main)
        /\ local[u].index \in Search(u, local[u].main)
    BY <1>4, Zenon DEF Place
  <2> QED BY <1>1, <2>1, Zenon
<1>5. pc[u] = "resize" => local[u].newCount \in Nat
  BY Zenon DEF Place
<1> QED BY <1>1, <1>2, <1>3, <1>4, <1>5, Zenon DEF Place

\* A step after which no thread has more than before leaves every producer with its
\* thread.
LEMMA OwnedKept ==
    ASSUME Owned, Types, \A u \in Threads : Mine(u)' \subseteq Mine(u) /\ got'[u] \subseteq Held(u)',
           Len(producers') = Len(producers)
    PROVE  Owned'
<1>1. \A u \in Threads : \A v \in Mine(u)' : v \in 1..Len(producers')
  BY Zenon DEF Owned
<1>2. ASSUME NEW t \in Threads, NEW u \in Threads, NEW v \in Mine(t)', NEW w \in Mine(u)'
      PROVE  v = w <=> t = u
  <2>1. v \in Mine(t) /\ w \in Mine(u)
    BY <1>2, Zenon
  <2>2. \A x \in Mine(t) : \A y \in Mine(u) : x = y <=> t = u
    BY Zenon DEF Owned
  <2> QED BY <2>1, <2>2, Zenon
<1> QED BY <1>1, <1>2, Zenon DEF Owned

\* The same tables hold the same producers.
LEMMA HeldSame ==
    ASSUME tables' = tables PROVE \A u : Held(u)' = Held(u)
BY Zenon DEF Held, Tabs, Places

\* In tables that stay the same every entry is still on the way of its search.
LEMMA EnteredSame ==
    ASSUME Entered, tables' = tables PROVE Entered'
<1>1. Tabs' = Tabs /\ \A n : Places(n)' = Places(n) /\ \A u : Search(u, n)' = Search(u, n)
  BY Zenon DEF Tabs, Places, Search, On, Following
<1>2. ASSUME NEW n \in Tabs', NEW i \in Places(n)', NEW u \in Threads, tables'[n].entries[i].key = u
      PROVE  /\ \E x \in Search(u, n)' : x % tables'[n].capacity = i
             /\ tables'[n].entries[i].value \in Nat
  <2>1. n \in Tabs /\ i \in Places(n) /\ tables[n].entries[i].key = u
    BY <1>1, <1>2, Zenon
  <2>2. /\ \E x \in Search(u, n) : x % tables[n].capacity = i
        /\ tables[n].entries[i].value \in Nat
    BY <2>1, Zenon DEF Entered
  <2> QED BY <1>1, <2>2, Zenon
<1> QED BY <1>2, Zenon DEF Entered

\* A step that leaves the tables alone, of a thread that goes to a place it knows
\* enough for, with a producer of its own if any.
LEMMA Moves ==
    ASSUME Inv, Types', NEW t \in Threads, tables' = tables, Len(producers') = Len(producers),
           Others(t), Place(t)', Carried(t)' \subseteq Mine(t), got'[t] \subseteq Held(t)
    PROVE  Inv'
<1>1. Types /\ Entered /\ Owned /\ \A u \in Threads : Place(u)
  BY Zenon DEF Inv
<1>2. /\ Tabs' = Tabs
      /\ \A n : Places(n)' = Places(n) /\ Following(n)' = Following(n)
      /\ \A n, u : On(u, n)' = On(u, n)
  BY Zenon DEF Tabs, Places, Following, On
<1>3. /\ \A n, u : Search(u, n)' = Search(u, n)
      /\ \A n, u : In(u, n)' <=> In(u, n)
      /\ \A u : Held(u)' = Held(u)
  BY <1>2, HeldSame, Zenon DEF Search, In
<1>4. Entered'
  BY <1>1, EnteredSame, Zenon
<1>5. Grows(t)
  BY <1>2, <1>3, Zenon DEF Grows
<1>6. \A u \in Threads : Place(u)'
  BY <1>1, <1>5, PlaceOthers, Zenon
<1>7. ASSUME NEW u \in Threads PROVE Mine(u)' \subseteq Mine(u) /\ got'[u] \subseteq Held(u)'
  <2>1. CASE u = t
    BY <1>3, <2>1, Zenon DEF Mine
  <2>2. CASE u # t
    <3>1. pc'[u] = pc[u] /\ local'[u] = local[u] /\ got'[u] = got[u]
      BY <2>2, Zenon DEF Others
    <3>2. Carried(u)' = Carried(u)
      BY <3>1, Zenon DEF Carried
    <3> QED BY <1>1, <1>3, <3>1, <3>2, Zenon DEF Mine, Owned
  <2> QED BY <2>1, <2>2, Zenon
<1>8. Owned'
  BY <1>1, <1>7, OwnedKept, Zenon
<1> QED BY <1>4, <1>6, <1>8, Zenon DEF Inv


-----------------------------------------------------------------------------
(* The steps of a search *)

\* The call of a thread that goes on is replaced, and no other.
LEMMA GoSets ==
    ASSUME Types, NEW t \in Threads, NEW label \in Labels, NEW l \in Calls, Go(t, label, l)
    PROVE  /\ pc' \in [Threads -> Labels] /\ local' \in [Threads -> Calls]
           /\ pc'[t] = label /\ local'[t] = l
           /\ \A u \in Threads \ {t} : pc'[u] = pc[u] /\ local'[u] = local[u]
<1>1. pc \in [Threads -> Labels] /\ local \in [Threads -> Calls]
  BY Zenon DEF Types, Labels
<1> QED BY <1>1, Zenon DEF Go

\* The list of producers may be linked in another way, but none is added.
ListKept ==
    /\ producers' \in Seq(Nat \cup {NULL}) /\ producerListTail' \in Nat \cup {NULL}
    /\ Len(producers') = Len(producers)

\* A step that leaves the list alone keeps it.
LEMMA ListSame ==
    ASSUME Types, UNCHANGED list PROVE ListKept
BY Zenon DEF Types, ListKept, list

\* Tables that stay the same are searched in the same way.
LEMMA SearchSame ==
    ASSUME tables' = tables
    PROVE  /\ Tabs' = Tabs
           /\ \A n, u : Search(u, n)' = Search(u, n) /\ (In(u, n)' <=> In(u, n))
BY Zenon DEF Tabs, Search, On, Following, In, Places

\* A step that replaces the call of its thread and does not change the tables.
LEMMA StepMoves ==
    ASSUME Inv, NEW t \in Threads, NEW label \in Labels, NEW l \in Calls, Go(t, label, l),
           UNCHANGED <<tables, got>>, ListKept, implicitProducerHashCount' \in Int,
           pc'[t] = label /\ local'[t] = l => Place(t)',
           label \in {"link"} \cup Entering => l.value \in Mine(t)
    PROVE  Inv'
<1>1. Types /\ Owned
  BY Zenon DEF Inv
<1>2. /\ pc' \in [Threads -> Labels] /\ local' \in [Threads -> Calls]
      /\ pc'[t] = label /\ local'[t] = l
      /\ \A u \in Threads \ {t} : pc'[u] = pc[u] /\ local'[u] = local[u]
  BY <1>1, GoSets, Zenon
<1>3. Types'
  BY <1>1, <1>2, Zenon DEF Types, Labels, ListKept
<1>4. Others(t)
  BY <1>2, Zenon DEF Others
<1>5. Place(t)'
  BY <1>2, Zenon
<1>6. Carried(t)' \subseteq Mine(t)
  BY <1>2, Zenon DEF Carried
<1>7. got'[t] \subseteq Held(t)
  BY <1>1, Zenon DEF Owned
<1>8. tables' = tables /\ Len(producers') = Len(producers)
  BY Zenon DEF ListKept
<1> QED BY <1>3, <1>4, <1>5, <1>6, <1>7, <1>8, Moves, Zenon

\* A call returns with a producer that its thread has in a table, or with none.
LEMMA ReturnMoves ==
    ASSUME Inv, NEW t \in Threads, NEW producer \in Held(t) \cup {NULL}, Return(t, producer),
           UNCHANGED <<tables, list>>, implicitProducerHashCount' \in Int
    PROVE  Inv'
<1>1. Types /\ Owned
  BY Zenon DEF Inv
<1>2. NoCall \in Calls /\ "idle" \in Labels
  BY DEF NoCall, Calls, Labels
<1>3. Go(t, "idle", NoCall)
  BY Zenon DEF Return
<1>4. /\ pc' \in [Threads -> Labels] /\ local' \in [Threads -> Calls] /\ pc'[t] = "idle"
      /\ \A u \in Threads \ {t} : pc'[u] = pc[u] /\ local'[u] = local[u]
  BY <1>1, <1>2, <1>3, GoSets, Zenon
<1>5. Held(t) \subseteq Nat /\ got \in [Threads -> SUBSET Nat] /\ got[t] \subseteq Held(t)
  BY <1>1, Zenon DEF Held, Types, Owned
<1>6. /\ got' \in [Threads -> SUBSET Nat] /\ got'[t] \subseteq Held(t)
      /\ \A u \in Threads \ {t} : got'[u] = got[u]
  <2>1. CASE producer = NULL
    <3>1. got' = [got EXCEPT ![t] = got[t]]
      BY <2>1, Zenon DEF Return
    <3> QED BY <1>5, <3>1, Zenon
  <2>2. CASE producer # NULL
    <3>1. got' = [got EXCEPT ![t] = got[t] \cup {producer}] /\ producer \in Held(t)
      BY <2>2, Zenon DEF Return
    <3> QED BY <1>5, <3>1, Zenon
  <2> QED BY <2>1, <2>2, Zenon
<1>7. Types'
  BY <1>1, <1>4, <1>6, Zenon DEF Types, Labels, list
<1>8. Others(t)
  BY <1>4, <1>6, Zenon DEF Others
<1>9. Place(t)' /\ Carried(t)' = {}
  BY <1>4 DEF Place, Carried, Adding, Entering
<1>10. tables' = tables /\ Len(producers') = Len(producers)
  BY Zenon DEF list
<1> QED BY <1>6, <1>7, <1>8, <1>9, <1>10, Moves, Zenon


\* What a thread that searches has to know.
LEMMA ProbePlace ==
    ASSUME NEW t \in Threads, NEW l, tables' = tables, pc'[t] = "probe", local'[t] = l,
           l.main \in Tabs, l.hash \in 1..l.main, \A n \in Tabs : n > l.hash => ~In(t, n),
           l.index \in Search(t, l.hash)
    PROVE  Place(t)'
<1>1. "probe" \notin Entering \cup Adding /\ "probe" # "resize"
  BY Zenon DEF Entering, Adding
<1>2. Tabs' = Tabs /\ Search(t, l.hash)' = Search(t, l.hash) /\ \A n : In(t, n)' <=> In(t, n)
  BY SearchSame, Zenon
<1> QED BY <1>1, <1>2, Zenon DEF Place

\* What a thread that adds itself has to know.
LEMMA AddPlace ==
    ASSUME NEW t \in Threads, NEW label \in Adding, NEW l, tables' = tables, pc'[t] = label,
           local'[t] = l, l.main \in Tabs, \A n \in Tabs : ~In(t, n),
           label = "resize" => l.newCount \in Nat
    PROVE  Place(t)'
<1>1. label \notin Entering \cup {"probe"}
  BY Zenon DEF Entering, Adding
<1>2. Tabs' = Tabs /\ \A n : In(t, n)' <=> In(t, n)
  BY SearchSame, Zenon
<1> QED BY <1>1, <1>2, Zenon DEF Place

\* What a thread that enters the current table has to know.
LEMMA EnterPlace ==
    ASSUME NEW t \in Threads, NEW label \in Entering, NEW l, tables' = tables, pc'[t] = label,
           local'[t] = l, l.main \in Tabs, ~In(t, l.main), l.index \in Search(t, l.main)
    PROVE  Place(t)'
<1>1. label \notin Adding \cup {"probe"} /\ label # "resize"
  BY Zenon DEF Entering, Adding
<1>2. /\ Tabs' = Tabs /\ (In(t, l.main)' <=> In(t, l.main))
      /\ Search(t, l.main)' = Search(t, l.main)
  BY SearchSame, Zenon
<1> QED BY <1>1, <1>2, Zenon DEF Place


\* A call begins its search in the current table.
LEMMA BeginStep ==
    ASSUME Inv, NEW t \in Threads, get_or_add_implicit_producer(t) PROVE Inv'
<1>1. Types
  BY Zenon DEF Inv
<1> DEFINE l == [NoCall EXCEPT !.main = implicitProducerHash, !.hash = implicitProducerHash,
                               !.index = hash_thread_id[t]]
<1>2. /\ Go(t, "probe", l) /\ UNCHANGED <<tables, got>> /\ UNCHANGED list
      /\ implicitProducerHashCount' = implicitProducerHashCount
  BY Zenon DEF get_or_add_implicit_producer, hash
<1>3. hash_thread_id[t] \in Nat /\ Len(tables) \in Nat \ {0} /\ implicitProducerHashCount \in Int
  BY <1>1, HashAssumption DEF Types
<1>4. /\ l \in Calls /\ l.main = Len(tables) /\ l.hash = Len(tables) /\ l.index = hash_thread_id[t]
      /\ "probe" \in Labels /\ "probe" \notin {"link"} \cup Entering \cup Adding /\ "probe" # "resize"
  <2>1. NoCall \in Calls /\ implicitProducerHash = Len(tables)
    BY DEF NoCall, Calls, implicitProducerHash
  <2>2. /\ "probe" \in Labels /\ "probe" \notin {"link"} \cup Entering \cup Adding
        /\ "probe" # "resize"
    BY Zenon DEF Labels, Entering, Adding
  <2>3. l \in Calls /\ l.main = Len(tables) /\ l.hash = Len(tables) /\ l.index = hash_thread_id[t]
    BY <1>3, <2>1, Zenon DEF Calls
  <2> QED BY <2>2, <2>3, Zenon
<1>5. /\ Len(tables) \in Tabs /\ Len(tables) \in 1..Len(tables)
      /\ \A n \in Tabs : ~(n > Len(tables))
  BY <1>3 DEF Tabs
<1>6. hash_thread_id[t] \in Search(t, Len(tables))
  BY <1>1, <1>5, SearchHas, Zenon
<1> HIDE DEF l
<1>8. ASSUME pc'[t] = "probe", local'[t] = l PROVE Place(t)'
  BY <1>2, <1>4, <1>5, <1>6, <1>8, ProbePlace, Zenon
<1>9. ListKept
  BY <1>1, <1>2, ListSame, Zenon
<1> QED BY <1>2, <1>3, <1>4, <1>8, <1>9, StepMoves, Zenon

\* A thread that searches is in a table, at an index of its way.
LEMMA Probing ==
    ASSUME Inv, NEW t \in Threads, pc[t] = "probe"
    PROVE  /\ Types /\ Entered /\ local[t] \in Calls
           /\ local[t].main \in Tabs /\ local[t].hash \in Tabs /\ local[t].hash <= local[t].main
           /\ \A n \in Tabs : n > local[t].hash => ~In(t, n)
           /\ local[t].index \in Search(t, local[t].hash) /\ local[t].index \in Nat
           /\ Slot(t, local[t].hash) \in Places(local[t].hash)
<1>1. Types /\ Entered /\ Place(t)
  BY Zenon DEF Inv
<1>2. local[t] \in Calls /\ Len(tables) \in Nat
  BY <1>1 DEF Types
<1>3. /\ local[t].main \in Tabs /\ local[t].hash \in 1..local[t].main
      /\ \A n \in Tabs : n > local[t].hash => ~In(t, n)
      /\ local[t].index \in Search(t, local[t].hash)
  BY <1>1, Zenon DEF Place
<1>4. local[t].hash \in Tabs /\ local[t].hash <= local[t].main
  BY <1>2, <1>3 DEF Tabs
<1>5. local[t].index \in Nat
  BY <1>2, Zenon DEF Calls
<1>6. Slot(t, local[t].hash) \in Places(local[t].hash)
  BY <1>1, <1>4, <1>5, TableType, Zenon DEF Slot
<1> QED BY <1>1, <1>2, <1>3, <1>4, <1>5, <1>6, Zenon

\* The search goes to the table before, or the thread is in none.
LEMMA NextTableStep ==
    ASSUME Inv, NEW t \in Threads, NextTable(t) PROVE Inv'
<1>1. /\ pc[t] = "probe" /\ tables[local[t].hash].entries[Slot(t, local[t].hash)].key = NULL
  BY Zenon DEF NextTable, At, Key
<1>2. /\ Types /\ Entered /\ local[t] \in Calls
      /\ local[t].main \in Tabs /\ local[t].hash \in Tabs /\ local[t].hash <= local[t].main
      /\ \A n \in Tabs : n > local[t].hash => ~In(t, n)
      /\ local[t].index \in Search(t, local[t].hash)
  BY <1>1, Probing, Zenon
<1>3. ~In(t, local[t].hash)
  BY <1>1, <1>2, FreeIsOut, Zenon DEF Slot
<1>4. hash_thread_id[t] \in Nat /\ implicitProducerHashCount \in Int /\ Len(tables) \in Nat
  BY <1>2, HashAssumption DEF Types
<1>5. CASE local[t].hash > 1
  <2> DEFINE l == [local[t] EXCEPT !.hash = @ - 1, !.index = hash_thread_id[t]]
  <2>1. /\ Go(t, "probe", l) /\ UNCHANGED <<tables, got>> /\ UNCHANGED list
        /\ implicitProducerHashCount' = implicitProducerHashCount
    BY <1>5, Zenon DEF NextTable, Step, hash
  <2>2. /\ local[t].hash - 1 \in Tabs /\ local[t].hash - 1 \in 1..local[t].main
        /\ local[t].hash - 1 \in Nat
        /\ \A n \in Tabs : n > local[t].hash - 1 => n = local[t].hash \/ n > local[t].hash
    BY <1>2, <1>4, <1>5, SMTT(30) DEF Tabs
  <2>3. /\ l \in Calls /\ l.main = local[t].main /\ l.hash = local[t].hash - 1
        /\ l.index = hash_thread_id[t]
    BY <1>2, <1>4, <2>2, Zenon DEF Calls
  <2>4. /\ "probe" \in Labels /\ "probe" \notin {"link"} \cup Entering \cup Adding
        /\ "probe" # "resize"
    BY Zenon DEF Labels, Entering, Adding
  <2>5. \A n \in Tabs : n > local[t].hash - 1 => ~In(t, n)
    BY <1>2, <1>3, <2>2, Zenon
  <2>6. hash_thread_id[t] \in Search(t, local[t].hash - 1)
    BY <1>2, <2>2, SearchHas, Zenon
  <2> HIDE DEF l
  <2>8. ASSUME pc'[t] = "probe", local'[t] = l PROVE Place(t)'
    BY <1>2, <2>1, <2>2, <2>3, <2>5, <2>6, <2>8, ProbePlace, Zenon
  <2>9. ListKept
    BY <1>2, <2>1, ListSame, Zenon
  <2> QED BY <1>4, <2>1, <2>3, <2>4, <2>8, <2>9, StepMoves, Zenon
<1>6. CASE ~(local[t].hash > 1)
  <2> DEFINE l == [local[t] EXCEPT !.hash = 0, !.index = 0]
  <2>1. /\ Go(t, "count", l) /\ UNCHANGED <<tables, got>> /\ UNCHANGED list
        /\ implicitProducerHashCount' = implicitProducerHashCount
    BY <1>6, Zenon DEF NextTable, Step, hash
  <2>2. \A n \in Tabs : n = local[t].hash \/ n > local[t].hash
    BY <1>2, <1>4, <1>6 DEF Tabs
  <2>3. l \in Calls /\ l.main = local[t].main
    BY <1>2, Zenon DEF Calls
  <2>4. /\ "count" \in Labels /\ "count" \notin {"link"} \cup Entering
        /\ "count" # "resize" /\ "count" \in Adding
    BY Zenon DEF Labels, Entering, Adding
  <2>5. \A n \in Tabs : ~In(t, n)
    BY <1>2, <1>3, <2>2, Zenon
  <2> HIDE DEF l
  <2>8. ASSUME pc'[t] = "count", local'[t] = l PROVE Place(t)'
    BY <1>2, <2>1, <2>3, <2>4, <2>5, <2>8, AddPlace, Zenon
  <2>9. ListKept
    BY <1>2, <2>1, ListSame, Zenon
  <2> QED BY <1>4, <2>1, <2>3, <2>4, <2>8, <2>9, StepMoves, Zenon
<1> QED BY <1>5, <1>6, Zenon

\* The search goes on from the entry of another thread.
LEMMA NextSlotStep ==
    ASSUME Inv, NEW t \in Threads, NextSlot(t) PROVE Inv'
<1>1. /\ pc[t] = "probe"
      /\ tables[local[t].hash].entries[Slot(t, local[t].hash)].key \notin {NULL, t}
  BY Zenon DEF NextSlot, At, Key
<1>2. /\ Types /\ local[t] \in Calls /\ Place(t)
      /\ local[t].main \in Tabs /\ local[t].hash \in Tabs
      /\ local[t].index \in Search(t, local[t].hash) /\ local[t].index \in Nat
  BY <1>1, Probing, Zenon DEF Inv
<1> DEFINE i == (local[t].index + 1) % tables[local[t].hash].capacity
           l == [local[t] EXCEPT !.index = (@ + 1) % tables[local[t].hash].capacity]
<1>3. i \in Search(t, local[t].hash) /\ i \in Nat
  <2>1. i \in Search(t, local[t].hash)
    BY <1>1, <1>2, SearchHas, Zenon DEF Slot
  <2>2. Search(t, local[t].hash) \in SUBSET Nat
    BY <1>2, SearchHas, Zenon
  <2> QED BY <2>1, <2>2, Zenon
<1>4. /\ Go(t, "probe", l) /\ UNCHANGED <<tables, got>> /\ UNCHANGED list
      /\ implicitProducerHashCount' = implicitProducerHashCount
  BY Zenon DEF NextSlot, Step, hash
<1>5. l \in Calls /\ l.main = local[t].main /\ l.hash = local[t].hash /\ l.index = i
  BY <1>2, <1>3 DEF Calls
<1>6. /\ "probe" \in Labels /\ "probe" \notin {"link"} \cup Entering \cup Adding
      /\ "probe" # "resize"
  BY Zenon DEF Labels, Entering, Adding
<1> HIDE DEF l, i
<1>8. ASSUME pc'[t] = "probe", local'[t] = l PROVE Place(t)'
  <2>1. /\ local[t].main \in Tabs /\ local[t].hash \in 1..local[t].main
        /\ \A n \in Tabs : n > local[t].hash => ~In(t, n)
    BY <1>1, <1>2, Zenon DEF Place
  <2> QED BY <1>3, <1>4, <1>5, <1>8, <2>1, ProbePlace, Zenon
<1>9. ListKept /\ implicitProducerHashCount' \in Int
  BY <1>2, <1>4, ListSame, Zenon DEF Types
<1> QED BY <1>4, <1>5, <1>6, <1>8, <1>9, StepMoves, Zenon


\* The search ends with the producer of the thread: it is returned, or entered in
\* the current table too.
LEMMA FoundStep ==
    ASSUME Inv, NEW t \in Threads, Found(t) PROVE Inv'
<1> DEFINE value == tables[local[t].hash].entries[Slot(t, local[t].hash)].value
<1>1. /\ pc[t] = "probe" /\ tables[local[t].hash].entries[Slot(t, local[t].hash)].key = t
      /\ UNCHANGED tables /\ UNCHANGED list /\ implicitProducerHashCount' = implicitProducerHashCount
  BY Zenon DEF Found, At, Key, hash
<1>2. /\ Types /\ Entered /\ local[t] \in Calls
      /\ local[t].main \in Tabs /\ local[t].hash \in Tabs /\ local[t].hash <= local[t].main
      /\ \A n \in Tabs : n > local[t].hash => ~In(t, n)
      /\ Slot(t, local[t].hash) \in Places(local[t].hash)
  BY <1>1, Probing, Zenon
<1>3. value \in Nat
  BY <1>1, <1>2, Zenon DEF Entered
<1>4. value \in Held(t)
  BY <1>1, <1>2, <1>3, Zenon DEF Held
<1>5. hash_thread_id[t] \in Nat /\ implicitProducerHashCount' \in Int /\ Len(tables) \in Nat
  BY <1>1, <1>2, HashAssumption DEF Types
<1>6. CASE local[t].hash = local[t].main
  <2>1. Return(t, value)
    BY <1>6, Zenon DEF Found
  <2> HIDE DEF value
  <2>2. UNCHANGED <<tables, list>>
    BY <1>1, Zenon
  <2> QED BY <1>4, <1>5, <2>1, <2>2, ReturnMoves, Zenon
<1>7. CASE local[t].hash # local[t].main
  <2> DEFINE l == [local[t] EXCEPT !.value = value, !.hash = 0, !.index = hash_thread_id[t]]
  <2>1. Go(t, "insert", l) /\ UNCHANGED <<tables, got>>
    BY <1>1, <1>7, Zenon DEF Found
  <2> HIDE DEF value
  <2>2. l \in Calls /\ l.main = local[t].main /\ l.index = hash_thread_id[t] /\ l.value = value
    BY <1>2, <1>3, <1>5, Zenon DEF Calls
  <2>3. local[t].main > local[t].hash
    BY <1>2, <1>5, <1>7 DEF Tabs
  <2>4. ~In(t, local[t].main) /\ hash_thread_id[t] \in Search(t, local[t].main)
    BY <1>2, <2>3, SearchHas, Zenon
  <2>5. "insert" \in Labels /\ "insert" \in Entering
    BY Zenon DEF Labels, Entering
  <2> HIDE DEF l
  <2>6. ASSUME pc'[t] = "insert", local'[t] = l PROVE Place(t)'
    BY <1>1, <1>2, <2>2, <2>4, <2>5, <2>6, EnterPlace, Zenon
  <2>7. ListKept /\ l.value \in Mine(t)
    BY <1>1, <1>2, <1>4, <2>2, ListSame, Zenon DEF Mine
  <2> QED BY <1>5, <2>1, <2>2, <2>5, <2>6, <2>7, StepMoves, Zenon
<1> QED BY <1>6, <1>7, Zenon

-----------------------------------------------------------------------------
(* The steps to room for a new producer *)

\* A thread in no table goes on to add itself.
LEMMA AddMoves ==
    ASSUME Inv, NEW t \in Threads, pc[t] \in Adding, NEW label \in Adding \ {"link"}, NEW l \in Calls,
           Go(t, label, l), UNCHANGED <<tables, got>>, UNCHANGED list,
           implicitProducerHashCount' \in Int,
           l.main \in Tabs, label = "resize" => l.newCount \in Nat
    PROVE  Inv'
<1>1. Types /\ \A n \in Tabs : ~In(t, n)
  BY Zenon DEF Inv, Place
<1>2. label \in Labels /\ label \in Adding /\ label \notin {"link"} \cup Entering
  BY Zenon DEF Labels, Adding, Entering
<1>3. ASSUME pc'[t] = label, local'[t] = l PROVE Place(t)'
  BY <1>1, <1>2, <1>3, AddPlace, Zenon
<1>4. ListKept
  BY <1>1, ListSame, Zenon
<1> QED BY <1>2, <1>3, <1>4, StepMoves, Zenon

\* The call of a thread that adds itself, and its table.
LEMMA AddHas ==
    ASSUME Inv, NEW t \in Threads, pc[t] \in Adding
    PROVE  /\ Types /\ local[t] \in Calls /\ local[t].main \in Tabs
           /\ \A n \in Tabs : ~In(t, n)
           /\ implicitProducerHashCount \in Int /\ Len(tables) \in Nat \ {0} /\ Len(tables) \in Tabs
<1>1. Types /\ Place(t)
  BY Zenon DEF Inv
<1>2. local[t] \in Calls /\ implicitProducerHashCount \in Int
  BY <1>1, Zenon DEF Types
<1>3. Len(tables) \in Nat \ {0} /\ Len(tables) \in Tabs
  BY <1>1 DEF Types, Tabs
<1> QED BY <1>1, <1>2, <1>3, Zenon DEF Place

\* The steps before a producer is created: room is reserved, the lock taken and given
\* back, the table read again.
LEMMA AddSteps ==
    ASSUME Inv, NEW t \in Threads,
           \/ Reserve(t) \/ CheckFull(t) \/ ReloadTable(t) \/ CheckRoom(t)
           \/ (At(t, "unlock") /\ Unlock(t))
    PROVE  Inv'
<1>1. pc[t] \in {"count", "full", "locked", "room", "unlock"}
  BY Zenon DEF Reserve, CheckFull, ReloadTable, CheckRoom, At
<1>2. pc[t] \in Adding
  BY <1>1, Zenon DEF Adding
<1>3. /\ Types /\ local[t] \in Calls /\ local[t].main \in Tabs
      /\ implicitProducerHashCount \in Int /\ Len(tables) \in Nat \ {0} /\ Len(tables) \in Tabs
  BY <1>2, AddHas, Zenon
<1>4. ASSUME Reserve(t) PROVE Inv'
  <2> DEFINE l == [local[t] EXCEPT !.newCount = implicitProducerHashCount + 1]
  <2>1. /\ Go(t, "full", l) /\ UNCHANGED <<tables, got>> /\ UNCHANGED list
        /\ implicitProducerHashCount' = implicitProducerHashCount + 1
    BY <1>4, Zenon DEF Reserve
  <2>2. implicitProducerHashCount + 1 \in Int
    BY <1>3
  <2>3. l \in Calls /\ l.main = local[t].main
    BY <1>3, <2>2, Zenon DEF Calls
  <2>4. "full" \in Adding \ {"link"} /\ "full" # "resize"
    BY Zenon DEF Adding
  <2> HIDE DEF l
  <2> QED BY <1>2, <1>3, <2>1, <2>2, <2>3, <2>4, AddMoves, Zenon
<1>5. ASSUME CheckFull(t) PROVE Inv'
  <2>1. /\ \E label \in {"locked", "room"} : Go(t, label, local[t])
        /\ UNCHANGED <<tables, got>> /\ UNCHANGED list
        /\ implicitProducerHashCount' = implicitProducerHashCount
    BY <1>5, Zenon DEF CheckFull
  <2>2. PICK label \in {"locked", "room"} : Go(t, label, local[t])
    BY <2>1, Zenon
  <2>3. label \in Adding \ {"link"} /\ label # "resize"
    BY <2>2, Zenon DEF Adding
  <2> QED BY <1>2, <1>3, <2>1, <2>2, <2>3, AddMoves, Zenon
<1>6. ASSUME ReloadTable(t) PROVE Inv'
  <2> DEFINE l == [local[t] EXCEPT !.main = implicitProducerHash]
             label == IF l.newCount >= tables[l.main].capacity \div 2 THEN "resize" ELSE "unlock"
  <2>1. /\ Go(t, label, l) /\ UNCHANGED <<tables, got>> /\ UNCHANGED list
        /\ implicitProducerHashCount' = implicitProducerHashCount
    BY <1>6, Zenon DEF ReloadTable, Step, hash
  <2>2. l \in Calls /\ l.main = Len(tables) /\ l.newCount \in Int
    BY <1>3, Zenon DEF Calls, implicitProducerHash
  <2>3. label \in {"resize", "unlock"}
    BY Zenon
  <2>4. label \in Adding \ {"link"}
    BY <2>3, Zenon DEF Adding
  <2>5. tables[l.main].capacity \in Nat \ {0}
    BY <1>3, <2>2, TableType, Zenon
  <2>6. l.newCount >= tables[l.main].capacity \div 2 => l.newCount \in Nat
    <3> HIDE DEF l
    <3> QED BY <2>2, <2>5
  <2>7. label = "resize" => l.newCount \in Nat
    <3>1. label = "resize" => l.newCount >= tables[l.main].capacity \div 2
      BY Zenon
    <3> QED BY <2>6, <3>1, Zenon
  <2> HIDE DEF l, label
  <2> QED BY <1>2, <1>3, <2>1, <2>2, <2>4, <2>7, AddMoves, Zenon
<1>7. ASSUME CheckRoom(t) PROVE Inv'
  <2> DEFINE l == [local[t] EXCEPT !.main = implicitProducerHash]
  <2>1. /\ Go(t, "create", local[t]) \/ Go(t, "full", l)
        /\ UNCHANGED <<tables, got>> /\ UNCHANGED list
        /\ implicitProducerHashCount' = implicitProducerHashCount
    BY <1>7, Zenon DEF CheckRoom, Step, hash
  <2>2. l \in Calls /\ l.main = Len(tables)
    BY <1>3, Zenon DEF Calls, implicitProducerHash
  <2>3. {"create", "full"} \subseteq Adding \ {"link"} /\ "create" # "resize" /\ "full" # "resize"
    BY Zenon DEF Adding
  <2> HIDE DEF l
  <2> QED BY <1>2, <1>3, <2>1, <2>2, <2>3, AddMoves, Zenon
<1>8. ASSUME At(t, "unlock") /\ Unlock(t) PROVE Inv'
  <2>1. /\ Go(t, "room", local[t]) /\ UNCHANGED <<tables, got>> /\ UNCHANGED list
        /\ implicitProducerHashCount' = implicitProducerHashCount
    BY <1>8, Zenon DEF Unlock, At
  <2>2. "room" \in Adding \ {"link"} /\ "room" # "resize"
    BY Zenon DEF Adding
  <2> QED BY <1>2, <1>3, <2>1, <2>2, AddMoves, Zenon
<1> QED BY <1>4, <1>5, <1>6, <1>7, <1>8, Zenon

\* The steps after which a call has no producer to return.
LEMMA NoneSteps ==
    ASSUME Inv, NEW t \in Threads,
           NoTable(t) \/ NoProducer(t) \/ (At(t, "no_table") /\ Unlock(t))
    PROVE  Inv'
<1>1. Types
  BY Zenon DEF Inv
<1>2. implicitProducerHashCount \in Int /\ implicitProducerHashCount - 1 \in Int
  BY <1>1 DEF Types
<1>3. ASSUME NoTable(t) PROVE Inv'
  <2>1. /\ Go(t, "no_table", NoCall) /\ UNCHANGED <<tables, got>> /\ UNCHANGED list
        /\ implicitProducerHashCount' = implicitProducerHashCount - 1
    BY <1>3, Zenon DEF NoTable
  <2>2. NoCall \in Calls
    BY DEF NoCall, Calls
  <2>3. /\ "no_table" \in Labels /\ "no_table" \notin {"link"} \cup Entering \cup Adding
        /\ "no_table" \notin {"probe", "resize"}
    BY Zenon DEF Labels, Entering, Adding
  <2>4. ASSUME pc'[t] = "no_table" PROVE Place(t)'
    BY <2>3, <2>4, Zenon DEF Place
  <2>5. ListKept
    BY <1>1, <2>1, ListSame, Zenon
  <2> QED BY <1>2, <2>1, <2>2, <2>3, <2>4, <2>5, StepMoves, Zenon
<1>4. ASSUME NoProducer(t) PROVE Inv'
  <2>1. /\ Return(t, NULL) /\ UNCHANGED <<tables, list>>
        /\ implicitProducerHashCount' = implicitProducerHashCount - 1
    BY <1>4, Zenon DEF NoProducer
  <2> QED BY <1>2, <2>1, ReturnMoves, Zenon
<1>5. ASSUME At(t, "no_table"), Unlock(t) PROVE Inv'
  <2>1. /\ Return(t, NULL) /\ UNCHANGED <<tables, list>>
        /\ implicitProducerHashCount' = implicitProducerHashCount
    BY <1>5, Zenon DEF Unlock, At
  <2> QED BY <1>2, <2>1, ReturnMoves, Zenon
<1> QED BY <1>3, <1>4, <1>5, Zenon


\* A new table is empty.
LEMMA TableEmpty ==
    ASSUME NEW c \in Nat \ {0}
    PROVE  /\ Table(c) \in AnyTable /\ Table(c).capacity = c
           /\ \A i \in 0..(c - 1) : Table(c).entries[i].key = NULL
<1> DEFINE e == [i \in 0..(c - 1) |-> [key |-> NULL, value |-> NULL]]
<1>1. [key |-> NULL, value |-> NULL] \in Entries
  BY Zenon DEF Entries
<1>2. e \in [0..(c - 1) -> Entries] /\ \A i \in 0..(c - 1) : e[i].key = NULL
  BY <1>1, Zenon
<1>3. Table(c) = [capacity |-> c, entries |-> e]
  BY Zenon DEF Table
<1>4. c \in Nat
  OBVIOUS
<1> HIDE DEF e
<1>5. Table(c).capacity = c /\ Table(c).entries = e
  BY <1>3
<1>6. Table(c) \in [capacity : Nat \ {0}, entries : UNION {[0..(k - 1) -> Entries] : k \in Nat}]
  <2>1. e \in UNION {[0..(k - 1) -> Entries] : k \in Nat}
    BY <1>2, <1>4, Zenon
  <2> QED BY <1>3, <2>1
<1> QED BY <1>2, <1>5, <1>6, Zenon DEF AnyTable

\* A larger table follows: no thread is in it, and the others are as they were.
LEMMA ResizeStep ==
    ASSUME Inv, NEW t \in Threads, Resize(t) PROVE Inv'
<1> DEFINE c == NewCapacity(Capacity(t), local[t].newCount)
           l == [local[t] EXCEPT !.main = Len(tables) + 1]
<1>0. PICK N : N = Len(tables) + 1
  BY Zenon
<1>1. /\ pc[t] = "resize" /\ tables' = Append(tables, Table(c)) /\ Go(t, "unlock", l)
      /\ UNCHANGED got /\ UNCHANGED list /\ implicitProducerHashCount' = implicitProducerHashCount
  BY Zenon DEF Resize, At
<1>2. pc[t] \in Adding /\ "unlock" \in Adding /\ "unlock" \in Labels
  BY <1>1, Zenon DEF Adding, Labels
<1>3. /\ Types /\ local[t] \in Calls /\ local[t].main \in Tabs
      /\ \A n \in Tabs : ~In(t, n)
      /\ implicitProducerHashCount \in Int /\ Len(tables) \in Nat \ {0}
  BY <1>2, AddHas, Zenon
<1>4. Entered /\ Owned /\ \A u \in Threads : Place(u)
  BY Zenon DEF Inv
<1>5. c \in Nat \ {0}
  <2>1. local[t].newCount \in Nat
    BY <1>1, <1>4, Zenon DEF Place
  <2>2. Capacity(t) \in Nat \ {0}
    BY <1>3, TableType, Zenon DEF Capacity
  <2> QED BY <2>1, <2>2, CapacityType, Zenon
<1> HIDE DEF c
<1>6. /\ Table(c) \in AnyTable /\ Table(c).capacity = c
      /\ \A i \in 0..(c - 1) : Table(c).entries[i].key = NULL
  BY <1>5, TableEmpty, Zenon
<1>7. tables \in Seq(AnyTable)
  BY <1>3, Zenon DEF Types
<1>8. /\ tables' \in Seq(AnyTable) /\ Len(tables') = N /\ tables'[N] = Table(c)
      /\ \A n \in 1..Len(tables) : tables'[n] = tables[n]
  <2>1. Table(c) \in AnyTable
    BY <1>6, Zenon
  <2> QED BY <1>0, <1>1, <1>7, <2>1
<1>9. N \in Nat /\ N > 0 /\ 1..N = (1..Len(tables)) \cup {N}
  BY <1>0, <1>3
<1>10. l \in Calls /\ l.main = N
  BY <1>0, <1>3, <1>9, Zenon DEF Calls
<1> HIDE DEF l
<1>11. /\ Tabs' = Tabs \cup {N} /\ Tabs = 1..Len(tables)
       /\ \A n \in Tabs : tables'[n] = tables[n]
  BY <1>8, <1>9, Zenon DEF Tabs
<1>12. /\ pc' \in [Threads -> Labels] /\ local' \in [Threads -> Calls]
       /\ pc'[t] = "unlock" /\ local'[t] = l
       /\ \A u \in Threads \ {t} : pc'[u] = pc[u] /\ local'[u] = local[u]
  BY <1>1, <1>2, <1>3, <1>10, GoSets, Zenon
<1>13. Types'
  <2>1. tables' \in Seq(AnyTable) /\ Len(tables') > 0
    BY <1>8, <1>9, Zenon
  <2> QED BY <1>1, <1>3, <1>12, <2>1, Zenon DEF Types, Labels, list
<1>14. ASSUME NEW n \in Tabs
       PROVE  /\ Places(n)' = Places(n) /\ \A u : Search(u, n)' = Search(u, n)
              /\ \A u : In(u, n)' <=> In(u, n)
  <2>1. tables'[n] = tables[n]
    BY <1>11, Zenon
  <2>2. Places(n)' = Places(n) /\ Following(n)' = Following(n) /\ \A u : On(u, n)' = On(u, n)
    BY <2>1, Zenon DEF Places, Following, On
  <2> QED BY <2>1, <2>2, Zenon DEF Search, In
<1>15. ASSUME NEW i \in Places(N)' PROVE tables'[N].entries[i].key = NULL
  <2>1. Places(N)' = 0..(c - 1)
    BY <1>6, <1>8, Zenon DEF Places
  <2> QED BY <1>6, <1>8, <2>1, Zenon
<1>16. \A u \in Threads : ~In(u, N)'
  BY <1>15, HashAssumption, Zenon DEF In
<1>17. Grows(t)
  BY <1>11, <1>14, <1>16, Zenon DEF Grows
<1>18. Others(t)
  BY <1>1, <1>12, Zenon DEF Others
<1>19. Place(t)'
  <2>1. "unlock" \notin Entering \cup {"probe"} /\ "unlock" # "resize"
    BY Zenon DEF Entering
  <2>2. N \in Tabs' /\ \A n \in Tabs' : ~In(t, n)'
    BY <1>3, <1>11, <1>14, <1>16, Zenon
  <2> QED BY <1>10, <1>12, <2>1, <2>2, Zenon DEF Place
<1>20. \A u \in Threads : Place(u)'
  BY <1>4, <1>17, <1>18, <1>19, PlaceOthers, Zenon
<1>21. Entered'
  <2>1. ASSUME NEW n \in Tabs', NEW i \in Places(n)', NEW u \in Threads, tables'[n].entries[i].key = u
        PROVE  /\ \E x \in Search(u, n)' : x % tables'[n].capacity = i
               /\ tables'[n].entries[i].value \in Nat
    <3>1. n \in Tabs
      BY <1>11, <1>15, <2>1, HashAssumption, Zenon
    <3>2. i \in Places(n) /\ tables'[n] = tables[n] /\ Search(u, n)' = Search(u, n)
      BY <1>11, <1>14, <2>1, <3>1, Zenon
    <3>3. /\ \E x \in Search(u, n) : x % tables[n].capacity = i
          /\ tables[n].entries[i].value \in Nat
      BY <1>4, <2>1, <3>1, <3>2, Zenon DEF Entered
    <3> QED BY <3>2, <3>3, Zenon
  <2> QED BY <2>1, Zenon DEF Entered
<1>22. ASSUME NEW u \in Threads PROVE Held(u)' = Held(u)
  <2>1. ASSUME NEW v \in Held(u)' PROVE v \in Held(u)
    <3>1. PICK n \in Tabs' : \E i \in Places(n)' :
                tables'[n].entries[i].key = u /\ tables'[n].entries[i].value = v
      BY <2>1, Zenon DEF Held
    <3>2. n \in Tabs
      BY <1>11, <1>15, <3>1, HashAssumption, Zenon
    <3>3. v \in Nat /\ Places(n)' = Places(n) /\ tables'[n] = tables[n]
      BY <1>11, <1>14, <2>1, <3>2, Zenon DEF Held
    <3> QED BY <3>1, <3>2, <3>3, Zenon DEF Held
  <2>2. ASSUME NEW v \in Held(u) PROVE v \in Held(u)'
    <3>1. PICK n \in Tabs : \E i \in Places(n) :
                tables[n].entries[i].key = u /\ tables[n].entries[i].value = v
      BY <2>2, Zenon DEF Held
    <3>2. v \in Nat /\ n \in Tabs' /\ Places(n)' = Places(n) /\ tables'[n] = tables[n]
      BY <1>11, <1>14, <2>2, Zenon DEF Held
    <3> QED BY <3>1, <3>2, Zenon DEF Held
  <2> QED BY <2>1, <2>2, Zenon
<1>23. ASSUME NEW u \in Threads PROVE Mine(u)' \subseteq Mine(u) /\ got'[u] \subseteq Held(u)'
  <2>1. Carried(u)' \subseteq Carried(u)
    <3>1. CASE u = t
      BY <1>12, <3>1, Zenon DEF Carried, Entering
    <3>2. CASE u # t
      BY <1>12, <3>2, Zenon DEF Carried
    <3> QED BY <3>1, <3>2, Zenon
  <2>2. got[u] \subseteq Held(u) /\ got' = got
    BY <1>1, <1>4, Zenon DEF Owned
  <2> QED BY <1>22, <2>1, <2>2, Zenon DEF Mine
<1>24. Owned'
  BY <1>1, <1>3, <1>4, <1>23, OwnedKept, Zenon DEF list
<1> QED BY <1>13, <1>20, <1>21, <1>24, Zenon DEF Inv


-----------------------------------------------------------------------------
(* The steps that create a producer and link it *)

\* A thread in no table has no producer there.
LEMMA HeldNone ==
    ASSUME NEW t, \A n \in Tabs : ~In(t, n) PROVE Held(t) = {}
BY Zenon DEF Held, In

\* The new producer is no other thread's.
LEMMA CreateStep ==
    ASSUME Inv, NEW t \in Threads, CreateProducer(t) PROVE Inv'
<1> DEFINE l == [local[t] EXCEPT !.value = Len(producers) + 1, !.prev = producerListTail]
<1>1. /\ pc[t] = "create" /\ Go(t, "link", l) /\ producers' = Append(producers, producerListTail)
      /\ UNCHANGED <<tables, got>> /\ producerListTail' = producerListTail
      /\ implicitProducerHashCount' = implicitProducerHashCount
  BY Zenon DEF CreateProducer, At, hash
<1>2. pc[t] \in Adding /\ "link" \in Adding /\ "link" \in Labels /\ "link" # "resize"
  BY <1>1, Zenon DEF Adding, Labels
<1>3. /\ Types /\ local[t] \in Calls /\ local[t].main \in Tabs /\ \A n \in Tabs : ~In(t, n)
  BY <1>2, AddHas, Zenon
<1>4. Entered /\ Owned /\ \A u \in Threads : Place(u)
  BY Zenon DEF Inv
<1>5. producers \in Seq(Nat \cup {NULL}) /\ producerListTail \in Nat \cup {NULL}
  BY <1>3, Zenon DEF Types
<1>6. PICK N : N = Len(producers) + 1
  BY Zenon
<1>7. /\ N \in Nat /\ Len(producers') = N /\ producers' \in Seq(Nat \cup {NULL}) /\ N \in 1..N
      /\ \A v \in 1..Len(producers) : v \in 1..N /\ v # N
  BY <1>1, <1>5, <1>6
<1>8. l \in Calls /\ l.main = local[t].main /\ l.value = N
  BY <1>3, <1>5, <1>6, <1>7, Zenon DEF Calls
<1> HIDE DEF l
<1>9. /\ pc' \in [Threads -> Labels] /\ local' \in [Threads -> Calls]
      /\ pc'[t] = "link" /\ local'[t] = l
      /\ \A u \in Threads \ {t} : pc'[u] = pc[u] /\ local'[u] = local[u]
  BY <1>1, <1>2, <1>3, <1>8, GoSets, Zenon
<1>10. Types'
  BY <1>1, <1>3, <1>5, <1>7, <1>9, Zenon DEF Types, Labels
<1>11. Others(t)
  BY <1>1, <1>9, Zenon DEF Others
<1>12. Place(t)'
  BY <1>1, <1>2, <1>3, <1>8, <1>9, AddPlace, Zenon
<1>13. /\ Tabs' = Tabs
       /\ \A n, u : Search(u, n)' = Search(u, n) /\ (In(u, n)' <=> In(u, n))
  BY <1>1, SearchSame, Zenon
<1>14. \A u \in Threads : Place(u)'
  <2>1. Grows(t)
    BY <1>13, Zenon DEF Grows
  <2> QED BY <1>4, <1>11, <1>12, <2>1, PlaceOthers, Zenon
<1>15. Entered'
  BY <1>1, <1>3, <1>4, EnteredSame, Zenon
<1>16. Mine(t)' = {N} /\ Held(t)' = Held(t) /\ Held(t) = {}
  <2>1. Held(t) = {} /\ Held(t)' = Held(t)
    BY <1>1, <1>3, HeldNone, HeldSame, Zenon
  <2>2. Carried(t)' = {N}
    BY <1>8, <1>9, Zenon DEF Carried
  <2> QED BY <2>1, <2>2, Zenon DEF Mine
<1>17. ASSUME NEW u \in Threads, u # t PROVE Mine(u)' = Mine(u) /\ Held(u)' = Held(u)
  <2>1. Held(u)' = Held(u) /\ pc'[u] = pc[u] /\ local'[u] = local[u]
    BY <1>1, <1>9, <1>17, HeldSame, Zenon
  <2> QED BY <2>1, Zenon DEF Mine, Carried
<1>18. \A u \in Threads : got'[u] \subseteq Held(u)'
  <2>1. got' = got /\ \A u \in Threads : got[u] \subseteq Held(u)
    BY <1>1, <1>4, Zenon DEF Owned
  <2>2. \A u \in Threads : Held(u)' = Held(u)
    BY <1>16, <1>17, Zenon
  <2> QED BY <2>1, <2>2, Zenon
<1>19. ASSUME NEW u \in Threads, u # t, NEW v \in Mine(u)' PROVE v \in 1..N /\ v # N /\ v \in Mine(u)
  <2>1. v \in Mine(u)
    BY <1>17, <1>19, Zenon
  <2>2. v \in 1..Len(producers)
    BY <1>4, <2>1, Zenon DEF Owned
  <2> QED BY <1>7, <2>1, <2>2, Zenon
<1>20. \A u \in Threads : \A v \in Mine(u)' : v \in 1..N
  BY <1>7, <1>16, <1>19, Zenon
<1>21. ASSUME NEW u \in Threads, NEW w \in Threads, NEW x \in Mine(u)', NEW y \in Mine(w)'
       PROVE  x = y <=> u = w
  <2>0. (u = t <=> x = N) /\ (w = t <=> y = N)
    <3>1. u = t => x = N
      BY <1>16, <1>21, Zenon
    <3>2. w = t => y = N
      BY <1>16, <1>21, Zenon
    <3>3. (u # t => x # N) /\ (w # t => y # N)
      BY <1>19, <1>21, Zenon
    <3> QED BY <3>1, <3>2, <3>3, Zenon
  <2>1. CASE u = t
    BY <2>0, <2>1, Zenon
  <2>2. CASE w = t
    BY <2>0, <2>2, Zenon
  <2>3. CASE u # t /\ w # t
    <3>1. x \in Mine(u) /\ y \in Mine(w)
      BY <1>19, <1>21, <2>3, Zenon
    <3>2. \A a \in Mine(u) : \A b \in Mine(w) : a = b <=> u = w
      BY <1>4, Zenon DEF Owned
    <3> QED BY <3>1, <3>2, Zenon
  <2> QED BY <2>1, <2>2, <2>3, Zenon
<1>22. Owned'
  BY <1>7, <1>18, <1>20, <1>21, Zenon DEF Owned
<1> QED BY <1>10, <1>14, <1>15, <1>22, Zenon DEF Inv

\* A producer that becomes the tail of the list, or is linked to another tail, stays
\* its thread's.
LEMMA LinkStep ==
    ASSUME Inv, NEW t \in Threads, LinkProducer(t) PROVE Inv'
<1>1. /\ pc[t] = "link" /\ UNCHANGED <<tables, got>>
      /\ implicitProducerHashCount' = implicitProducerHashCount
  BY Zenon DEF LinkProducer, At, hash
<1>2. pc[t] \in Adding /\ "link" \in Adding /\ "link" \in Labels /\ "link" # "resize"
  BY <1>1, Zenon DEF Adding, Labels
<1>3. /\ Types /\ local[t] \in Calls /\ local[t].main \in Tabs /\ \A n \in Tabs : ~In(t, n)
      /\ implicitProducerHashCount \in Int
  BY <1>2, AddHas, Zenon
<1>4. local[t].value \in Mine(t)
  BY <1>1, Zenon DEF Mine, Carried
<1>5. local[t].value \in 1..Len(producers)
  BY <1>4, Zenon DEF Inv, Owned
<1>6. /\ producers \in Seq(Nat \cup {NULL}) /\ producerListTail \in Nat \cup {NULL}
      /\ hash_thread_id[t] \in Nat
  BY <1>3, HashAssumption, Zenon DEF Types
<1>7. CASE producerListTail = local[t].prev
  <2> DEFINE l == [local[t] EXCEPT !.prev = NULL, !.index = hash_thread_id[t]]
  <2>1. Go(t, "insert", l) /\ producerListTail' = local[t].value /\ producers' = producers
    BY <1>7, Zenon DEF LinkProducer
  <2>2. /\ l \in Calls /\ l.main = local[t].main /\ l.index = hash_thread_id[t]
        /\ l.value = local[t].value /\ local[t].value \in Nat \cup {NULL}
    BY <1>3, <1>6, Zenon DEF Calls
  <2>3. "insert" \in Labels /\ "insert" \in Entering
    BY Zenon DEF Labels, Entering
  <2>4. ~In(t, local[t].main) /\ hash_thread_id[t] \in Search(t, local[t].main)
    BY <1>3, SearchHas, Zenon
  <2> HIDE DEF l
  <2>5. ASSUME pc'[t] = "insert", local'[t] = l PROVE Place(t)'
    BY <1>1, <1>3, <2>2, <2>3, <2>4, <2>5, EnterPlace, Zenon
  <2>6. ListKept
    BY <1>6, <2>1, <2>2, Zenon DEF ListKept
  <2> QED BY <1>1, <1>3, <1>4, <2>1, <2>2, <2>3, <2>5, <2>6, StepMoves, Zenon
<1>8. CASE producerListTail # local[t].prev
  <2> DEFINE l == [local[t] EXCEPT !.prev = producerListTail]
  <2>1. /\ Go(t, "link", l) /\ producerListTail' = producerListTail
        /\ producers' = [producers EXCEPT ![local[t].value] = producerListTail]
    BY <1>8, Zenon DEF LinkProducer
  <2>2. l \in Calls /\ l.main = local[t].main /\ l.value = local[t].value
    BY <1>3, <1>6, Zenon DEF Calls
  <2> HIDE DEF l
  <2>3. ASSUME pc'[t] = "link", local'[t] = l PROVE Place(t)'
    BY <1>1, <1>2, <1>3, <2>2, <2>3, AddPlace, Zenon
  <2>4. producers' \in Seq(Nat \cup {NULL}) /\ Len(producers') = Len(producers)
    BY <1>5, <1>6, <2>1
  <2>5. ListKept
    BY <1>6, <2>1, <2>4, Zenon DEF ListKept
  <2> QED BY <1>1, <1>2, <1>3, <1>4, <2>1, <2>2, <2>3, <2>5, StepMoves, Zenon
<1> QED BY <1>7, <1>8, Zenon


-----------------------------------------------------------------------------
(* The steps that enter the thread in the current table *)

\* What a thread that enters the current table has and knows.
LEMMA EnterHas ==
    ASSUME Inv, NEW t \in Threads, pc[t] \in Entering
    PROVE  /\ Types /\ Entered /\ Owned /\ local[t] \in Calls
           /\ local[t].main \in Tabs /\ ~In(t, local[t].main)
           /\ local[t].index \in Search(t, local[t].main) /\ local[t].index \in Nat
           /\ Slot(t, local[t].main) \in Places(local[t].main)
           /\ local[t].value \in Mine(t) /\ local[t].value \in Nat
           /\ implicitProducerHashCount \in Int
<1>1. Types /\ Entered /\ Owned /\ Place(t)
  BY Zenon DEF Inv
<1>2. local[t] \in Calls /\ implicitProducerHashCount \in Int
  BY <1>1, Zenon DEF Types
<1>3. /\ local[t].main \in Tabs /\ ~In(t, local[t].main)
      /\ local[t].index \in Search(t, local[t].main)
  BY <1>1, Zenon DEF Place
<1>4. local[t].index \in Nat
  BY <1>2, Zenon DEF Calls
<1>5. Slot(t, local[t].main) \in Places(local[t].main)
  BY <1>1, <1>3, <1>4, TableType, Zenon DEF Slot
<1>6. local[t].value \in Mine(t)
  BY Zenon DEF Mine, Carried
<1>7. local[t].value \in 1..Len(producers)
  BY <1>1, <1>6, Zenon DEF Owned
<1>8. local[t].value \in Nat
  BY <1>7
<1> QED BY <1>1, <1>2, <1>3, <1>4, <1>5, <1>6, <1>8, Zenon

\* A thread that enters the table and does not find a free slot goes to the next.
LEMMA EnterOn ==
    ASSUME Inv, NEW t \in Threads, pc[t] \in Entering, Key(t, local[t].main) # NULL,
           Go(t, "insert", [local[t] EXCEPT !.index = (@ + 1) % Capacity(t)]),
           UNCHANGED <<tables, got>>, UNCHANGED list,
           implicitProducerHashCount' = implicitProducerHashCount
    PROVE  Inv'
<1>1. /\ Types /\ local[t] \in Calls
      /\ local[t].main \in Tabs /\ ~In(t, local[t].main)
      /\ local[t].index \in Search(t, local[t].main)
      /\ Slot(t, local[t].main) \in Places(local[t].main)
      /\ local[t].value \in Mine(t) /\ implicitProducerHashCount \in Int
  BY EnterHas, Zenon
<1> DEFINE i == (local[t].index + 1) % Capacity(t)
           l == [local[t] EXCEPT !.index = (@ + 1) % Capacity(t)]
<1>2. tables[local[t].main].entries[Slot(t, local[t].main)].key \notin {NULL, t}
  BY <1>1, Zenon DEF Key, In
<1>3. i \in Search(t, local[t].main) /\ i \in Nat
  <2>1. i \in Search(t, local[t].main)
    BY <1>1, <1>2, SearchHas, Zenon DEF Slot, Capacity
  <2>2. Search(t, local[t].main) \in SUBSET Nat
    BY <1>1, SearchHas, Zenon
  <2> QED BY <2>1, <2>2, Zenon
<1>4. Go(t, "insert", l)
  BY Zenon
<1>5. l \in Calls /\ l.main = local[t].main /\ l.index = i /\ l.value = local[t].value
  BY <1>1, <1>3 DEF Calls
<1>6. "insert" \in Labels /\ "insert" \in Entering
  BY Zenon DEF Labels, Entering
<1> HIDE DEF l, i
<1>7. ASSUME pc'[t] = "insert", local'[t] = l PROVE Place(t)'
  BY <1>1, <1>3, <1>5, <1>6, <1>7, EnterPlace, Zenon
<1>8. ListKept
  BY <1>1, ListSame, Zenon
<1> QED BY <1>1, <1>4, <1>5, <1>6, <1>7, <1>8, StepMoves, Zenon

\* A thread looks for a free slot.
LEMMA InsertProbeStep ==
    ASSUME Inv, NEW t \in Threads, InsertProbe(t) PROVE Inv'
<1>1. pc[t] \in Entering /\ "exchange" \in Labels /\ "exchange" \in Entering
  BY Zenon DEF InsertProbe, At, Entering, Labels
<1>2. /\ UNCHANGED <<tables, got>> /\ UNCHANGED list
      /\ implicitProducerHashCount' = implicitProducerHashCount
  BY Zenon DEF InsertProbe, Step, hash
<1>3. CASE Key(t, local[t].main) = NULL
  <2>1. Go(t, "exchange", local[t])
    BY <1>3, Zenon DEF InsertProbe, Step
  <2>2. /\ Types /\ local[t] \in Calls
        /\ local[t].main \in Tabs /\ ~In(t, local[t].main)
        /\ local[t].index \in Search(t, local[t].main)
        /\ local[t].value \in Mine(t) /\ implicitProducerHashCount \in Int
    BY <1>1, EnterHas, Zenon
  <2>3. ASSUME pc'[t] = "exchange", local'[t] = local[t] PROVE Place(t)'
    BY <1>1, <1>2, <2>2, <2>3, EnterPlace, Zenon
  <2>4. ListKept
    BY <1>2, <2>2, ListSame, Zenon
  <2> QED BY <1>1, <1>2, <2>1, <2>2, <2>3, <2>4, StepMoves, Zenon
<1>4. CASE Key(t, local[t].main) # NULL
  <2>1. Go(t, "insert", [local[t] EXCEPT !.index = (@ + 1) % Capacity(t)])
    BY <1>4, Zenon DEF InsertProbe, Step
  <2> QED BY <1>1, <1>2, <1>4, <2>1, EnterOn, Zenon
<1> QED BY <1>3, <1>4, Zenon

\* Thread t is entered in table m, at place s, with producer v.
WithEntry(m, s, t, v) == [tables EXCEPT ![m].entries[s] = [key |-> t, value |-> v]]

\* A table with one entry more.
LEMMA EntrySet ==
    ASSUME Types, NEW m \in Tabs, NEW s \in Places(m), NEW t \in Threads, NEW v \in Nat,
           tables' = WithEntry(m, s, t, v)
    PROVE  /\ tables' \in Seq(AnyTable) /\ Len(tables') = Len(tables)
           /\ \A n \in Tabs \ {m} : tables'[n] = tables[n]
           /\ tables'[m].capacity = tables[m].capacity
           /\ \A i \in Places(m) \ {s} : tables'[m].entries[i] = tables[m].entries[i]
           /\ tables'[m].entries[s].key = t /\ tables'[m].entries[s].value = v
<1> DEFINE e == [tables[m].entries EXCEPT ![s] = [key |-> t, value |-> v]]
           T == [tables[m] EXCEPT !.entries = e]
<1>1. /\ tables[m] \in AnyTable /\ tables[m].capacity \in Nat \ {0}
      /\ tables[m].entries \in [Places(m) -> Entries]
  BY TableType, Zenon
<1>2. [key |-> t, value |-> v] \in Entries
  BY Zenon DEF Entries
<1>3. /\ e \in [Places(m) -> Entries] /\ e[s] = [key |-> t, value |-> v]
      /\ \A i \in Places(m) \ {s} : e[i] = tables[m].entries[i]
  BY <1>1, <1>2, Zenon
<1>4. tables' = [tables EXCEPT ![m] = T]
  BY Zenon DEF WithEntry
<1> HIDE DEF e
<1>5. /\ T \in [capacity : Nat \ {0}, entries : UNION {[0..(k - 1) -> Entries] : k \in Nat}]
      /\ T.capacity = tables[m].capacity /\ T.entries = e
  <2>1. e \in UNION {[0..(k - 1) -> Entries] : k \in Nat}
    BY <1>1, <1>3, Zenon DEF Places
  <2>2. tables[m] \in [capacity : Nat \ {0}, entries : UNION {[0..(k - 1) -> Entries] : k \in Nat}]
    BY <1>1, Zenon DEF AnyTable
  <2> DEFINE E == UNION {[0..(k - 1) -> Entries] : k \in Nat}
  <2> HIDE DEF E
  <2>3. e \in E /\ tables[m] \in [capacity : Nat \ {0}, entries : E]
    BY <2>1, <2>2, Zenon DEF E
  <2>4. T \in [capacity : Nat \ {0}, entries : E] /\ T.capacity = tables[m].capacity /\ T.entries = e
    BY <2>3
  <2> QED BY <2>4, Zenon DEF E
<1>6. T \in AnyTable
  BY <1>3, <1>5, Zenon DEF AnyTable, Places
<1> HIDE DEF T
<1>7. tables \in Seq(AnyTable) /\ m \in 1..Len(tables)
  BY Zenon DEF Types, Tabs
<1>8. /\ tables' \in Seq(AnyTable) /\ Len(tables') = Len(tables) /\ tables'[m] = T
      /\ \A n \in (1..Len(tables)) \ {m} : tables'[n] = tables[n]
  BY <1>4, <1>6, <1>7
<1>9. tables'[m].capacity = tables[m].capacity /\ tables'[m].entries = e
  BY <1>5, <1>8, Zenon
<1>10. e[s].key = t /\ e[s].value = v
  BY <1>3
<1>11. \A i \in Places(m) \ {s} : tables'[m].entries[i] = tables[m].entries[i]
  BY <1>3, <1>9, Zenon
<1>12. tables'[m].entries[s].key = t /\ tables'[m].entries[s].value = v
  BY <1>9, <1>10, Zenon
<1>13. \A n \in Tabs \ {m} : tables'[n] = tables[n]
  BY <1>8, Zenon DEF Tabs
<1> QED BY <1>8, <1>9, <1>11, <1>12, <1>13, Zenon


\* The thread is entered at the free slot, or goes on when another was faster.
LEMMA InsertExchangeStep ==
    ASSUME Inv, NEW t \in Threads, InsertExchange(t) PROVE Inv'
<1>1. /\ pc[t] \in Entering /\ UNCHANGED list
      /\ implicitProducerHashCount' = implicitProducerHashCount
  BY Zenon DEF InsertExchange, At, Entering
<1>2. CASE Key(t, local[t].main) # NULL
  <2>1. /\ Go(t, "insert", [local[t] EXCEPT !.index = (@ + 1) % Capacity(t)])
        /\ UNCHANGED <<tables, got>>
    BY <1>2, Zenon DEF InsertExchange
  <2> QED BY <1>1, <1>2, <2>1, EnterOn, Zenon
<1>3. CASE Key(t, local[t].main) = NULL
  <2>1. PICK m, s, v : m = local[t].main /\ s = Slot(t, m) /\ v = local[t].value
    BY Zenon
  <2>2. /\ tables' = WithEntry(m, s, t, v)
        /\ Return(t, v) /\ tables[m].entries[s].key = NULL
    BY <1>3, <2>1, Zenon DEF InsertExchange, Key, WithEntry
  <2>3. /\ Types /\ Entered /\ Owned /\ m \in Tabs /\ s \in Places(m) /\ v \in Mine(t) /\ v \in Nat
        /\ implicitProducerHashCount \in Int
    BY <1>1, <2>1, EnterHas, Zenon
  <2>4. /\ \E x \in Search(t, m) : x % tables[m].capacity = s
    BY <1>1, <2>1, EnterHas, Zenon DEF Slot
  <2>5. /\ tables' \in Seq(AnyTable) /\ Len(tables') = Len(tables)
        /\ \A n \in Tabs \ {m} : tables'[n] = tables[n]
        /\ tables'[m].capacity = tables[m].capacity
        /\ \A i \in Places(m) \ {s} : tables'[m].entries[i] = tables[m].entries[i]
        /\ tables'[m].entries[s].key = t /\ tables'[m].entries[s].value = v
    BY <2>2, <2>3, EntrySet, Zenon
  <2>6. NULL \notin Threads /\ v # NULL
    BY <2>3, HashAssumption, Zenon
  <2>7. NoCall \in Calls /\ "idle" \in Labels
    BY DEF NoCall, Calls, Labels
  <2>8. /\ pc' \in [Threads -> Labels] /\ local' \in [Threads -> Calls] /\ pc'[t] = "idle"
        /\ \A u \in Threads \ {t} : pc'[u] = pc[u] /\ local'[u] = local[u]
    <3>1. Go(t, "idle", NoCall)
      BY <2>2, Zenon DEF Return
    <3> QED BY <2>3, <2>7, <3>1, GoSets, Zenon
  <2>9. /\ got' \in [Threads -> SUBSET Nat] /\ got'[t] = got[t] \cup {v}
        /\ \A u \in Threads \ {t} : got'[u] = got[u]
    <3>1. got' = [got EXCEPT ![t] = got[t] \cup {v}]
      BY <2>2, <2>6, Zenon DEF Return
    <3>2. got \in [Threads -> SUBSET Nat] /\ got[t] \cup {v} \in SUBSET Nat
      BY <2>3, Zenon DEF Types
    <3> QED BY <3>1, <3>2, Zenon
  <2>10. Types'
    <3>1. Len(tables') > 0
      BY <2>3, <2>5, Zenon DEF Types
    <3> QED BY <1>1, <2>3, <2>5, <2>8, <2>9, <3>1, Zenon DEF Types, Labels, list
  <2>11. Others(t)
    BY <2>8, <2>9, Zenon DEF Others
  <2>12. Tabs' = Tabs
    BY <2>5, Zenon DEF Tabs
  <2>13. ASSUME NEW n \in Tabs
         PROVE  Places(n)' = Places(n) /\ Following(n)' = Following(n)
                /\ tables'[n].capacity = tables[n].capacity
    <3>1. tables'[n].capacity = tables[n].capacity
      BY <2>5, Zenon
    <3> QED BY <3>1, Zenon DEF Places, Following
  <2>14. ASSUME NEW n \in Tabs, NEW i \in Places(n), NEW u \in Threads
         PROVE  /\ tables[n].entries[i].key \notin {NULL, u} =>
                      tables'[n].entries[i].key \notin {NULL, u}
                /\ tables'[n].entries[i].key = u => \/ tables[n].entries[i] = tables'[n].entries[i]
                                                    \/ n = m /\ i = s /\ u = t
                /\ tables[n].entries[i].key = u => tables[n].entries[i] = tables'[n].entries[i]
    <3>1. CASE n = m /\ i = s
      BY <2>2, <2>5, <2>6, <3>1, Zenon
    <3>2. CASE ~(n = m /\ i = s)
      <4>1. tables'[n].entries[i] = tables[n].entries[i]
        BY <2>5, <2>14, <3>2, Zenon
      <4> QED BY <4>1, Zenon
    <3> QED BY <3>1, <3>2, Zenon
  <2>15. ASSUME NEW n \in Tabs, NEW u \in Threads PROVE Search(u, n) \subseteq Search(u, n)'
    <3>1. On(u, n) \subseteq On(u, n)'
      <4>1. ASSUME NEW x \in On(u, n) PROVE x \in On(u, n)'
        <5>1. x \in Nat /\ tables[n].entries[x % tables[n].capacity].key \notin {NULL, u}
          BY <4>1, Zenon DEF On
        <5>2. x % tables[n].capacity \in Places(n)
          BY <2>3, <5>1, TableType, Zenon
        <5>3. tables'[n].entries[x % tables[n].capacity].key \notin {NULL, u}
          BY <2>14, <5>1, <5>2, Zenon
        <5>4. tables'[n].entries[x % tables'[n].capacity].key \notin {NULL, u}
          BY <2>13, <5>3, Zenon
        <5> QED BY <5>1, <5>4, Zenon DEF On
      <4> QED BY <4>1, Zenon
    <3>2. Search(u, n)' = Way(hash_thread_id[u], On(u, n)', Following(n))
      BY <2>13, Zenon DEF Search
    <3> QED BY <3>1, <3>2, WayGrows, Zenon DEF Search
  <2>16. Grows(t)
    <3>1. ASSUME NEW u \in Threads \ {t}, NEW n \in Tabs', In(u, n)' PROVE n \in Tabs /\ In(u, n)
      <4>1. n \in Tabs
        BY <2>12, <3>1, Zenon
      <4>2. PICK i \in Places(n) : tables'[n].entries[i].key = u
        BY <2>13, <3>1, <4>1, Zenon DEF In
      <4>3. tables[n].entries[i].key = u
        BY <2>14, <3>1, <4>1, <4>2, Zenon
      <4> QED BY <4>1, <4>2, <4>3, Zenon DEF In
    <3> QED BY <2>12, <2>15, <3>1, Zenon DEF Grows
  <2>17. \A u \in Threads : Place(u)'
    <3>1. Place(t)'
      BY <2>8 DEF Place, Adding, Entering
    <3>2. \A u \in Threads : Place(u)
      BY Zenon DEF Inv
    <3> QED BY <2>11, <2>16, <3>1, <3>2, PlaceOthers, Zenon
  <2>18. Entered'
    <3>1. ASSUME NEW n \in Tabs', NEW i \in Places(n)', NEW u \in Threads, tables'[n].entries[i].key = u
          PROVE  /\ \E x \in Search(u, n)' : x % tables'[n].capacity = i
                 /\ tables'[n].entries[i].value \in Nat
      <4>1. n \in Tabs
        BY <2>12, <3>1, Zenon
      <4>2. i \in Places(n)
        BY <2>13, <3>1, <4>1, Zenon
      <4>3. /\ \E x \in Search(u, n) : x % tables[n].capacity = i
            /\ tables'[n].entries[i].value \in Nat
        <5>1. CASE tables[n].entries[i] = tables'[n].entries[i]
          BY <2>3, <3>1, <4>1, <4>2, <5>1, Zenon DEF Entered
        <5>2. CASE n = m /\ i = s /\ u = t
          BY <2>3, <2>4, <2>5, <5>2, Zenon
        <5> QED BY <2>14, <3>1, <4>1, <4>2, <5>1, <5>2, Zenon
      <4> QED BY <2>13, <2>15, <4>1, <4>3, Zenon
    <3> QED BY <3>1, Zenon DEF Entered
  <2>19. ASSUME NEW u \in Threads PROVE Held(u) \subseteq Held(u)'
    <3>1. ASSUME NEW x \in Held(u) PROVE x \in Held(u)'
      <4>1. PICK n \in Tabs : \E i \in Places(n) :
                  tables[n].entries[i].key = u /\ tables[n].entries[i].value = x
        BY <3>1, Zenon DEF Held
      <4>2. PICK i \in Places(n) : tables[n].entries[i].key = u /\ tables[n].entries[i].value = x
        BY <4>1, Zenon
      <4>3. tables'[n].entries[i].key = u /\ tables'[n].entries[i].value = x
        BY <2>14, <4>2, Zenon
      <4>4. n \in Tabs' /\ i \in Places(n)' /\ x \in Nat
        BY <2>12, <2>13, <3>1, <4>2, Zenon DEF Held
      <4> QED BY <4>3, <4>4, Zenon DEF Held
    <3> QED BY <3>1, Zenon
  <2>20. v \in Held(t)'
    <3>1. m \in Tabs' /\ s \in Places(m)'
      BY <2>3, <2>12, <2>13, Zenon
    <3> QED BY <2>3, <2>5, <3>1, Zenon DEF Held
  <2>21. ASSUME NEW u \in Threads, NEW x \in Held(u)' PROVE x \in Held(u) \/ (u = t /\ x = v)
    <3>1. PICK n \in Tabs' : \E i \in Places(n)' :
                tables'[n].entries[i].key = u /\ tables'[n].entries[i].value = x
      BY <2>21, Zenon DEF Held
    <3>2. n \in Tabs /\ Places(n)' = Places(n) /\ x \in Nat
      BY <2>12, <2>13, <2>21, Zenon DEF Held
    <3>3. PICK i \in Places(n) : tables'[n].entries[i].key = u /\ tables'[n].entries[i].value = x
      BY <3>1, <3>2, Zenon
    <3>4. CASE tables[n].entries[i] = tables'[n].entries[i]
      BY <3>2, <3>3, <3>4, Zenon DEF Held
    <3>5. CASE n = m /\ i = s /\ u = t
      BY <2>5, <3>3, <3>5, Zenon
    <3> QED BY <2>14, <3>2, <3>3, <3>4, <3>5, ZenonT(60)
  <2>22. ASSUME NEW u \in Threads PROVE Mine(u)' \subseteq Mine(u) /\ got'[u] \subseteq Held(u)'
    <3>1. Carried(u)' \subseteq Carried(u)
      <4>1. CASE u = t
        BY <2>8, <4>1, Zenon DEF Carried, Entering
      <4>2. CASE u # t
        BY <2>8, <4>2, Zenon DEF Carried
      <4> QED BY <4>1, <4>2, Zenon
    <3>2. Held(u)' \subseteq Mine(u)
      BY <2>3, <2>21, Zenon DEF Mine
    <3>3. got[u] \subseteq Held(u)
      BY <2>3, Zenon DEF Owned
    <3>4. got'[u] \subseteq Held(u)'
      <4>1. CASE u = t
        BY <2>9, <2>19, <2>20, <3>3, <4>1, Zenon
      <4>2. CASE u # t
        BY <2>9, <2>19, <3>3, <4>2, Zenon
      <4> QED BY <4>1, <4>2, Zenon
    <3> QED BY <3>1, <3>2, <3>4, Zenon DEF Mine
  <2>23. Owned'
    BY <1>1, <2>3, <2>22, OwnedKept, Zenon DEF list
  <2> QED BY <2>10, <2>17, <2>18, <2>23, Zenon DEF Inv
<1> QED BY <1>2, <1>3, Zenon

-----------------------------------------------------------------------------
(* The theorem *)

\* The queue begins with an empty table and no producer.
LEMMA InitInv ==
    ASSUME Init PROVE Inv
<1>1. /\ tables = <<Table(INITIAL_IMPLICIT_PRODUCER_HASH_SIZE)>>
      /\ implicitProducerHashCount = 0 /\ producers = <<>> /\ producerListTail = NULL
      /\ pc = [t \in Threads |-> "idle"] /\ local = [t \in Threads |-> NoCall]
      /\ got = [t \in Threads |-> {}]
  BY Zenon DEF Init
<1> DEFINE c == INITIAL_IMPLICIT_PRODUCER_HASH_SIZE
<1>2. c \in Nat \ {0} /\ NULL \notin Threads
  BY HashAssumption, Zenon
<1>3. /\ Table(c) \in AnyTable /\ Table(c).capacity = c
      /\ \A i \in 0..(c - 1) : Table(c).entries[i].key = NULL
  BY <1>2, TableEmpty, Zenon
<1>4. NoCall \in Calls /\ "idle" \in Labels
  BY DEF NoCall, Calls, Labels
<1>5. tables \in Seq(AnyTable) /\ Len(tables) = 1 /\ tables[1] = Table(c)
  <2>1. Table(c) \in AnyTable
    BY <1>3, Zenon
  <2> QED BY <1>1, <2>1
<1>6. Types
  <2>1. Len(tables) > 0 /\ implicitProducerHashCount \in Int
    BY <1>1, <1>5
  <2>2. producers \in Seq(Nat \cup {NULL})
    BY <1>1
  <2>3. pc \in [Threads -> Labels] /\ local \in [Threads -> Calls] /\ got \in [Threads -> SUBSET Nat]
    BY <1>1, <1>4, Zenon
  <2> QED BY <1>1, <1>5, <2>1, <2>2, <2>3, Zenon DEF Types, Labels
<1>7. Tabs = {1}
  BY <1>5 DEF Tabs
<1>8. ASSUME NEW n \in Tabs, NEW i \in Places(n), NEW t \in Threads PROVE tables[n].entries[i].key # t
  <2>1. i \in 0..(c - 1) /\ tables[n] = Table(c)
    BY <1>3, <1>5, <1>7, <1>8, Zenon DEF Places
  <2> QED BY <1>2, <1>3, <2>1, Zenon
<1>9. Entered
  BY <1>8, Zenon DEF Entered
<1>10. ASSUME NEW t \in Threads PROVE Place(t) /\ Mine(t) = {} /\ got[t] = {}
  <2>1. pc[t] = "idle" /\ got[t] = {}
    BY <1>1, Zenon
  <2>2. Place(t) /\ Carried(t) = {}
    BY <2>1 DEF Place, Carried, Adding, Entering
  <2>3. Held(t) = {}
    BY <1>8, Zenon DEF Held
  <2> QED BY <2>1, <2>2, <2>3, Zenon DEF Mine
<1>11. Owned
  BY <1>10, Zenon DEF Owned
<1> QED BY <1>6, <1>9, <1>10, <1>11, Zenon DEF Inv

\* Every step keeps the invariant.
LEMMA NextInv ==
    ASSUME Inv, [Next]_vars PROVE Inv'
<1>1. CASE UNCHANGED vars
  <2>1. /\ tables' = tables /\ pc' = pc /\ local' = local /\ got' = got /\ producers' = producers
        /\ producerListTail' = producerListTail
        /\ implicitProducerHashCount' = implicitProducerHashCount
    BY <1>1, Zenon DEF vars, hash, list
  <2>2. Types' /\ Tabs' = Tabs /\ \A u : Held(u)' = Held(u) /\ Carried(u)' = Carried(u)
    BY <2>1, HeldSame, Zenon DEF Inv, Types, Tabs, Carried
  <2>3. \A n, u : Search(u, n)' = Search(u, n) /\ (In(u, n)' <=> In(u, n))
    BY <2>1, SearchSame, Zenon
  <2>4. Entered'
    BY <2>1, EnteredSame, Zenon DEF Inv
  <2>5. \A u \in Threads : Mine(u)' \subseteq Mine(u) /\ got'[u] \subseteq Held(u)'
    BY <2>1, <2>2, Zenon DEF Mine, Inv, Owned
  <2>6. Owned'
    BY <2>1, <2>5, OwnedKept, Zenon DEF Inv
  <2>7. ASSUME NEW u \in Threads PROVE Place(u)'
    <3>1. Place(u)
      BY Zenon DEF Inv
    <3> QED BY <2>1, <2>2, <2>3, <3>1, Zenon DEF Place
  <2> QED BY <2>2, <2>4, <2>6, <2>7, Zenon DEF Inv
<1>2. CASE Next
  <2>1. PICK t \in Threads : get_or_add_implicit_producer(t) \/ GoesOn(t)
    BY <1>2, Zenon DEF Next
  <2>2. CASE get_or_add_implicit_producer(t)
    BY <2>2, BeginStep, Zenon
  <2>3. CASE NextTable(t) \/ NextSlot(t) \/ Found(t)
    BY <2>3, NextTableStep, NextSlotStep, FoundStep, Zenon
  <2>4. CASE Reserve(t) \/ CheckFull(t) \/ ReloadTable(t) \/ CheckRoom(t)
    BY <2>4, AddSteps, Zenon
  <2>5. CASE Unlock(t)
    <3>1. At(t, "unlock") \/ At(t, "no_table")
      BY <2>5, Zenon DEF Unlock
    <3> QED BY <2>5, <3>1, AddSteps, NoneSteps, Zenon
  <2>6. CASE NoTable(t) \/ NoProducer(t)
    BY <2>6, NoneSteps, Zenon
  <2>7. CASE Resize(t) \/ CreateProducer(t) \/ LinkProducer(t)
    BY <2>7, ResizeStep, CreateStep, LinkStep, Zenon
  <2>8. CASE InsertProbe(t) \/ InsertExchange(t)
    BY <2>8, InsertProbeStep, InsertExchangeStep, Zenon
  <2> QED BY <2>1, <2>2, <2>3, <2>4, <2>5, <2>6, <2>7, <2>8, Zenon DEF GoesOn
<1> QED BY <1>1, <1>2, Zenon

\* A thread always gets the same producer from get_or_add_implicit_producer, and no two
\* threads get the same one.
THEOREM OneProducerHolds == Spec => []OneProducer
<1>1. Init => Inv
  BY InitInv, Zenon
<1>2. Inv /\ [Next]_vars => Inv'
  BY NextInv, Zenon
<1>3. Inv => OneProducer
  <2> SUFFICES ASSUME Inv PROVE OneProducer
    BY Zenon
  <2>1. /\ \A t \in Threads : got[t] \subseteq Mine(t)
        /\ \A t, u \in Threads : \A v \in Mine(t) : \A w \in Mine(u) : v = w <=> t = u
    BY Zenon DEF Inv, Owned, Mine
  <2>2. ASSUME NEW t \in Threads PROVE Cardinality(got[t]) <= 1
    <3>1. ASSUME NEW v \in got[t], NEW w \in got[t] PROVE v = w
      <4>1. v \in Mine(t) /\ w \in Mine(t)
        BY <2>1, <3>1, Zenon
      <4>2. \A a \in Mine(t) : \A b \in Mine(t) : a = b <=> t = t
        BY <2>1, Zenon
      <4> QED BY <4>1, <4>2, Zenon
    <3>2. got[t] = {} \/ \E v : got[t] = {v}
      BY <3>1, Zenon
    <3>3. CASE got[t] = {}
      <4>1. Cardinality(got[t]) = 0
        BY <3>3, FS_EmptySet, Zenon
      <4> QED BY <4>1
    <3>4. CASE \E v : got[t] = {v}
      <4>1. Cardinality(got[t]) = 1
        BY <3>4, FS_Singleton, Zenon
      <4> QED BY <4>1
    <3> QED BY <3>2, <3>3, <3>4, Zenon
  <2>3. ASSUME NEW t \in Threads, NEW u \in Threads, t # u PROVE got[t] \cap got[u] = {}
    <3>1. ASSUME NEW v \in got[t], v \in got[u] PROVE FALSE
      <4>1. v \in Mine(t) /\ v \in Mine(u)
        BY <2>1, <3>1, Zenon
      <4>2. \A a \in Mine(t) : \A b \in Mine(u) : a = b <=> t = u
        BY <2>1, Zenon
      <4> QED BY <2>3, <4>1, <4>2, Zenon
    <3> QED BY <3>1, Zenon
  <2> QED BY <2>2, <2>3, Zenon DEF OneProducer
<1> QED BY <1>1, <1>2, <1>3, PTL DEF Spec

=============================================================================

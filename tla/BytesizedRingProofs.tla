------------------------- MODULE BytesizedRingProofs ------------------------
(***************************************************************************)
(* Proofs about the byte-sized ring, for every pool of mbufs, every        *)
(* capacity, every set of packet lengths and every batch size.             *)
(***************************************************************************)
EXTENDS BytesizedRing, SequenceTheorems, WellFoundedInduction, TLAPS

(* Induction over the naturals, on sets *)

\* A nonempty set of naturals has a least element.
LEMMA Least ==
    ASSUME NEW T \in SUBSET Nat, T # {}
    PROVE  \E x \in T : \A y \in T : x <= y
<1> DEFINE R == OpToRel(<, Nat)
<1>1. IsWellFoundedOn(R, Nat)
  BY NatLessThanWellFounded, Zenon
<1>2. \A x, y \in Nat : x < y => <<x, y>> \in R
  BY Zenon DEF OpToRel
<1> HIDE DEF R
<1>3. PICK x \in T : \A y \in T : ~(<<y, x>> \in R)
  BY <1>1, WFMin, Zenon
<1>4. \A y \in T : ~(y < x)
  BY <1>2, <1>3, Zenon
<1>5. \A y \in T : x <= y
  BY <1>4
<1>6. QED
  BY <1>5, Zenon

\* A set with 0 and closed under successor is Nat.
LEMMA Induction ==
    ASSUME NEW S \in SUBSET Nat, 0 \in S, \A n \in S : n + 1 \in S
    PROVE  S = Nat
<1> SUFFICES ASSUME S # Nat PROVE FALSE
  BY Zenon
<1>1. PICK x \in Nat \ S : \A y \in Nat \ S : x <= y
  BY Least, Zenon
<1>2. x # 0 /\ x - 1 \in Nat /\ x - 1 \in S
  BY <1>1
<1>3. (x - 1) + 1 = x
  BY <1>1
<1>4. QED
  BY <1>1, <1>2, <1>3, Zenon
-----------------------------------------------------------------------------
(* The bytes of a sequence of mbufs *)

\* The bytes of s when packet m has w[m] of them: Bytes for any lengths.
Weight(s, w) ==
    LET sum[n \in 0..Len(s)] == IF n = 0 THEN 0 ELSE sum[n - 1] + w[s[n]]
    IN  sum[Len(s)]

\* The lengths packets may have are naturals.
Lengths == [Mbufs -> PktLens]

\* f[n] is the sum of the first n lengths: what the summing loop of
\* bsring_enqueue_bulk has in total_size after n rounds.
PartialSums(f, s, w) ==
    /\ f \in [0..Len(s) -> Nat]
    /\ f[0] = 0
    /\ \A n \in 1..Len(s) : f[n] = f[n - 1] + w[s[n]]

\* The function the recursive definition of Weight speaks of.
Recursion(f, s, w) ==
    f = [n \in 0..Len(s) |-> IF n = 0 THEN 0 ELSE f[n - 1] + w[s[n]]]

LEMMA WeightChosen ==
    ASSUME NEW s, NEW w
    PROVE  Weight(s, w) = (CHOOSE f : Recursion(f, s, w))[Len(s)]
  BY Zenon DEF Weight, Recursion

LEMMA LengthNat ==
    ASSUME NEW w \in Lengths, NEW s \in Seq(Mbufs), NEW n \in 1..Len(s)
    PROVE  w[s[n]] \in Nat /\ w[s[n]] \in PktLens
<1>1. s[n] \in Mbufs
  OBVIOUS
<1>2. QED
  BY <1>1, BytesizedRingAssumption, Zenon DEF Lengths

\* Partial sums exist.
LEMMA SumsExist ==
    ASSUME NEW w \in Lengths, NEW s \in Seq(Mbufs)
    PROVE  \E f : PartialSums(f, s, w)
<1> DEFINE Upto(f, k) == /\ f \in [0..k -> Nat]
                         /\ f[0] = 0
                         /\ \A n \in 1..k : f[n] = f[n - 1] + w[s[n]]
           S == {k \in Nat : k <= Len(s) => \E f : Upto(f, k)}
<1> HIDE DEF Upto
<1>1. 0 \in S
  <2>1. Upto([n \in 0..0 |-> 0], 0)
    BY DEF Upto
  <2>2. QED
    BY <2>1, Zenon
<1>2. ASSUME NEW k \in S PROVE k + 1 \in S
  <2> SUFFICES ASSUME k + 1 <= Len(s) PROVE \E f : Upto(f, k + 1)
    OBVIOUS
  <2>1. PICK f : Upto(f, k)
    <3>1. k <= Len(s)
      OBVIOUS
    <3>2. QED
      BY <3>1, Zenon
  <2> DEFINE l == w[s[k + 1]]
             g == [n \in 0..(k + 1) |-> IF n = k + 1 THEN f[k] + l ELSE f[n]]
  <2>2. l \in Nat
    BY LengthNat
  <2>3. g \in [0..(k + 1) -> Nat] /\ g[0] = 0
    BY <2>1, <2>2 DEF Upto
  <2>4. ASSUME NEW n \in 1..(k + 1) PROVE g[n] = g[n - 1] + w[s[n]]
    <3>1. CASE n = k + 1
      BY <2>1, <2>2, <3>1 DEF Upto
    <3>2. CASE n # k + 1
      <4>1. n \in 1..k /\ n \in 0..(k + 1) /\ n - 1 \in 0..(k + 1) /\ n - 1 # k + 1
        BY <3>2
      <4>2. f[n] = f[n - 1] + w[s[n]]
        BY <2>1, <4>1, Zenon DEF Upto
      <4>3. QED
        BY <4>1, <4>2
    <3>3. QED
      BY <3>1, <3>2, Zenon
  <2>5. Upto(g, k + 1)
    BY <2>3, <2>4, Zenon DEF Upto
  <2>6. QED
    BY <2>5, Zenon
<1>3. S = Nat
  <2>1. S \in SUBSET Nat
    BY Zenon
  <2> HIDE DEF S
  <2>2. QED
    BY <1>1, <1>2, <2>1, Induction, Zenon
<1>4. Len(s) \in Nat
  OBVIOUS
<1>5. PICK f : Upto(f, Len(s))
  <2>1. Len(s) \in S
    BY <1>3, <1>4, Zenon
  <2>2. QED
    BY <1>4, <2>1
<1>6. PartialSums(f, s, w)
  BY <1>5, Zenon DEF PartialSums, Upto
<1>7. QED
  BY <1>6, Zenon

\* Whatever function has the partial sums, its last value is the weight.
LEMMA WeightIs ==
    ASSUME NEW w \in Lengths, NEW s \in Seq(Mbufs), NEW f, PartialSums(f, s, w)
    PROVE  Weight(s, w) = f[Len(s)]
<1>1. Len(s) \in Nat
  OBVIOUS
<1>2. ASSUME NEW h, PartialSums(h, s, w) PROVE Recursion(h, s, w)
  BY <1>1, <1>2 DEF PartialSums, Recursion
<1>3. ASSUME NEW h, Recursion(h, s, w) PROVE h = f
  <2> DEFINE S == {k \in Nat : k <= Len(s) => h[k] = f[k]}
  <2>0. /\ 0 \in 0..Len(s)
        /\ \A k \in 0..Len(s) : h[k] = IF k = 0 THEN 0 ELSE h[k - 1] + w[s[k]]
    BY <1>1, <1>3 DEF Recursion
  <2>1. 0 \in S
    BY <2>0, Zenon DEF PartialSums
  <2>2. ASSUME NEW k \in S PROVE k + 1 \in S
    <3> SUFFICES ASSUME k + 1 <= Len(s) PROVE h[k + 1] = f[k + 1]
      OBVIOUS
    <3>1. k + 1 \in 1..Len(s) /\ k + 1 \in 0..Len(s) /\ (k + 1) - 1 = k
          /\ k + 1 # 0 /\ h[k] = f[k]
      BY <1>1
    <3>2. QED
      BY <2>0, <3>1 DEF PartialSums
  <2>3. S = Nat
    <3>1. S \in SUBSET Nat
      BY Zenon
    <3> HIDE DEF S
    <3>2. QED
      BY <2>1, <2>2, <3>1, Induction, Zenon
  <2>4. \A k \in 0..Len(s) : h[k] = f[k]
    BY <1>1, <2>3
  <2>5. h = [k \in 0..Len(s) |-> h[k]]
    BY <1>3, Zenon DEF Recursion
  <2>6. f = [k \in 0..Len(s) |-> f[k]]
    BY Zenon DEF PartialSums
  <2>7. QED
    BY <2>4, <2>5, <2>6, Zenon
<1>4. Recursion(f, s, w)
  BY <1>2, Zenon
<1>5. Recursion(CHOOSE h : Recursion(h, s, w), s, w)
  BY <1>4, Zenon
<1>6. (CHOOSE h : Recursion(h, s, w)) = f
  BY <1>3, <1>5, Zenon
<1>7. QED
  BY <1>6, WeightChosen, Zenon

\* The empty sequence has no bytes.
LEMMA WeightEmpty ==
    ASSUME NEW w \in Lengths PROVE Weight(<<>>, w) = 0
<1>1. PartialSums([n \in 0..0 |-> 0], <<>>, w)
  BY DEF PartialSums
<1>2. QED
  BY <1>1, WeightIs

\* One packet.
LEMMA WeightOne ==
    ASSUME NEW w \in Lengths, NEW x \in Mbufs
    PROVE  Weight(<<x>>, w) = w[x] /\ w[x] \in PktLens /\ w[x] \in Nat
<1>1. w[x] \in PktLens /\ w[x] \in Nat
  BY BytesizedRingAssumption, Zenon DEF Lengths
<1>2. PartialSums([n \in 0..1 |-> IF n = 0 THEN 0 ELSE w[x]], <<x>>, w)
  BY <1>1 DEF PartialSums
<1>3. QED
  BY <1>1, <1>2, WeightIs, SMTT(30)

\* The bytes of a sequence are a natural number.
LEMMA WeightNat ==
    ASSUME NEW w \in Lengths, NEW s \in Seq(Mbufs) PROVE Weight(s, w) \in Nat
<1>1. PICK f : PartialSums(f, s, w)
  BY SumsExist, Zenon
<1>2. Len(s) \in 0..Len(s)
  OBVIOUS
<1>3. QED
  BY <1>1, <1>2, WeightIs, Zenon DEF PartialSums

\* The bytes of a concatenation are the sum.
LEMMA WeightConcat ==
    ASSUME NEW w \in Lengths, NEW s \in Seq(Mbufs), NEW t \in Seq(Mbufs)
    PROVE  Weight(s \o t, w) = Weight(s, w) + Weight(t, w)
<1>1. PICK f : PartialSums(f, s, w)
  BY SumsExist, Zenon
<1>2. PICK g : PartialSums(g, t, w)
  BY SumsExist, Zenon
<1> DEFINE a == Len(s)
           b == Len(t)
           c == s \o t
           h == [n \in 0..(a + b) |-> IF n <= a THEN f[n] ELSE f[a] + g[n - a]]
<1>3. /\ a \in Nat /\ b \in Nat /\ c \in Seq(Mbufs) /\ Len(c) = a + b
      /\ \A n \in 1..a : c[n] = s[n]
      /\ \A n \in (a + 1)..(a + b) : c[n] = t[n - a]
  OBVIOUS
<1>4. f \in [0..a -> Nat] /\ f[0] = 0 /\ \A n \in 1..a : f[n] = f[n - 1] + w[s[n]]
  BY <1>1, Zenon DEF PartialSums
<1>5. g \in [0..b -> Nat] /\ g[0] = 0 /\ \A n \in 1..b : g[n] = g[n - 1] + w[t[n]]
  BY <1>2, Zenon DEF PartialSums
<1>6. /\ \A n \in 1..a : w[s[n]] \in Nat
      /\ \A n \in 1..b : w[t[n]] \in Nat
  BY LengthNat, Zenon
<1> HIDE DEF a, b, c
<1>7. h \in [0..(a + b) -> Nat] /\ h[0] = 0
  <2>1. ASSUME NEW n \in 0..(a + b)
        PROVE  (IF n <= a THEN f[n] ELSE f[a] + g[n - a]) \in Nat
    <3>1. CASE n <= a
      <4>1. n \in 0..a
        BY <1>3, <3>1
      <4>2. QED
        BY <1>4, <3>1, <4>1, Zenon
    <3>2. CASE ~(n <= a)
      <4>1. a \in 0..a /\ n - a \in 0..b
        BY <1>3, <3>2
      <4>2. f[a] \in Nat /\ g[n - a] \in Nat
        BY <1>4, <1>5, <4>1, Zenon
      <4>3. QED
        BY <3>2, <4>2
    <3>3. QED
      BY <3>1, <3>2, Zenon
  <2>2. 0 \in 0..(a + b) /\ 0 <= a
    BY <1>3
  <2>3. QED
    BY <1>4, <2>1, <2>2, Zenon
<1>8. ASSUME NEW n \in 1..(a + b) PROVE h[n] = h[n - 1] + w[c[n]]
  <2>1. CASE n <= a
    <3>1. n \in 1..a /\ n \in 0..(a + b) /\ n - 1 \in 0..(a + b) /\ n - 1 <= a
      BY <1>3, <2>1
    <3>2. h[n] = f[n] /\ h[n - 1] = f[n - 1]
      BY <2>1, <3>1, Zenon
    <3>3. QED
      BY <1>3, <1>4, <3>1, <3>2, Zenon
  <2>2. CASE n = a + 1
    <3>1. n - a = 1 /\ 1 \in 1..b /\ n - 1 = a /\ a \in 0..(a + b) /\ ~(n <= a)
      BY <1>3, <2>2
    <3>2. h[n] = f[a] + g[1] /\ h[n - 1] = f[a]
      BY <1>3, <3>1
    <3>3. g[1] = w[t[1]] /\ c[n] = t[1]
      BY <1>3, <1>5, <1>6, <2>2, <3>1, SMTT(30)
    <3>4. QED
      BY <3>2, <3>3, Zenon
  <2>3. CASE n > a + 1
    <3>1. n - a \in 1..b /\ (n - 1) - a = (n - a) - 1 /\ n - 1 \in 0..(a + b)
      BY <1>3, <2>3
    <3>2. h[n] = f[a] + g[n - a] /\ h[n - 1] = f[a] + g[(n - a) - 1]
      BY <1>3, <2>3, <3>1, SMTT(30)
    <3>3. /\ g[n - a] = g[(n - a) - 1] + w[t[n - a]]
          /\ f[a] \in Nat /\ g[(n - a) - 1] \in Nat /\ w[t[n - a]] \in Nat
      <4>1. a \in 0..a /\ (n - a) - 1 \in 0..b
        BY <1>3, <3>1
      <4>2. QED
        BY <1>4, <1>5, <1>6, <3>1, <4>1, Zenon
    <3>4. c[n] = t[n - a]
      BY <1>3, <2>3
    <3>5. QED
      BY <3>2, <3>3, <3>4
  <2>4. QED
    BY <1>3, <2>1, <2>2, <2>3
<1>9. PartialSums(h, c, w)
  BY <1>3, <1>7, <1>8, Zenon DEF PartialSums
<1>10. Weight(c, w) = h[a + b]
  BY <1>3, <1>9, WeightIs, ZenonT(60)
<1>11. Weight(s, w) = f[a] /\ Weight(t, w) = g[b]
  BY <1>1, <1>2, WeightIs, Zenon DEF a, b
<1>12. h[a + b] = f[a] + g[b]
  BY <1>3, <1>4, <1>5
<1>13. QED
  BY <1>10, <1>11, <1>12, Zenon DEF c

\* The bytes depend only on the packets in the sequence.
LEMMA WeightKept ==
    ASSUME NEW v \in Lengths, NEW w \in Lengths, NEW s \in Seq(Mbufs),
           \A x \in Elems(s) : v[x] = w[x]
    PROVE  Weight(s, v) = Weight(s, w)
<1>1. PICK f : PartialSums(f, s, v)
  BY SumsExist, Zenon
<1>2. \A n \in 1..Len(s) : v[s[n]] = w[s[n]]
  BY Zenon DEF Elems
<1>3. PartialSums(f, s, w)
  BY <1>1, <1>2, Zenon DEF PartialSums
<1>4. QED
  BY <1>1, <1>3, WeightIs

\* A batch, however long its packets are, fits the counter beside a full ring:
\* total_size and bytes_used + total_size do not wrap.
LEMMA BatchFits ==
    ASSUME NEW w \in Lengths, NEW s \in Seq(Mbufs), Len(s) <= MaxBatch
    PROVE  Capacity + Weight(s, w) < W
<1>1. Len(s) \in Nat /\ MaxBatch \in Nat /\ Capacity \in Nat /\ W \in Nat
  BY BytesizedRingAssumption
<1>2. PICK u \in PktLens :
        u \in Nat /\ (\A l \in PktLens : l <= u) /\ Capacity + MaxBatch * u < W
  BY BytesizedRingAssumption, Zenon
<1>3. PICK f : PartialSums(f, s, w)
  BY SumsExist, Zenon
<1> DEFINE S == {k \in Nat : k <= Len(s) => f[k] <= k * u}
<1>4. 0 \in S
  BY <1>2, <1>3 DEF PartialSums
<1>5. ASSUME NEW k \in S PROVE k + 1 \in S
  <2> SUFFICES ASSUME k + 1 <= Len(s) PROVE f[k + 1] <= (k + 1) * u
    OBVIOUS
  <2>1. k + 1 \in 1..Len(s) /\ (k + 1) - 1 = k /\ f[k] <= k * u
    BY <1>1
  <2>2. w[s[k + 1]] \in Nat /\ w[s[k + 1]] <= u
    BY <1>2, <2>1, LengthNat, Zenon
  <2>3. f[k + 1] = f[k] + w[s[k + 1]] /\ f[k] \in Nat
    BY <1>1, <1>3, <2>1 DEF PartialSums
  <2>4. (k + 1) * u = k * u + u /\ k * u \in Nat
    BY <1>2
  <2>5. QED
    BY <1>2, <2>1, <2>2, <2>3, <2>4
<1>6. S = Nat
  <2>1. S \in SUBSET Nat
    BY Zenon
  <2> HIDE DEF S
  <2>2. QED
    BY <1>4, <1>5, <2>1, Induction, Zenon
<1>7. f[Len(s)] <= Len(s) * u
  BY <1>1, <1>6
<1>8. Len(s) * u <= MaxBatch * u
  <2>1. \A x, y, z \in Nat : x <= y => x * z <= y * z
    BY Z3
  <2>2. QED
    BY <1>1, <1>2, <2>1, Zenon
<1>9. Weight(s, w) = f[Len(s)] /\ Weight(s, w) \in Nat
  BY <1>3, WeightIs, WeightNat, Zenon
<1>10. Len(s) * u \in Nat /\ MaxBatch * u \in Nat
  BY <1>1, <1>2
<1>11. QED
  BY <1>1, <1>2, <1>7, <1>8, <1>9, <1>10
-----------------------------------------------------------------------------
(* Sequences of mbufs *)

\* The mbufs of a concatenation, and when no mbuf occurs in it twice.
LEMMA ConcatElems ==
    ASSUME NEW S, NEW s \in Seq(S), NEW t \in Seq(S)
    PROVE  /\ Elems(s \o t) = Elems(s) \cup Elems(t)
           /\ Distinct(s \o t) <=>
                /\ Distinct(s)
                /\ Distinct(t)
                /\ Elems(s) \cap Elems(t) = {}
<1> DEFINE c == s \o t
<1>1. /\ c \in Seq(S)
      /\ Len(s) \in Nat /\ Len(t) \in Nat
      /\ Len(c) = Len(s) + Len(t)
      /\ \A i \in 1..Len(s) : c[i] = s[i]
      /\ \A i \in 1..Len(t) : c[Len(s) + i] = t[i]
  OBVIOUS
<1>2. \A i \in 1..Len(c) :
        \/ i \in 1..Len(s)
        \/ i - Len(s) \in 1..Len(t) /\ c[i] = t[i - Len(s)]
  BY <1>1
<1>3. \A i \in 1..Len(s) : i \in 1..Len(c)
  BY <1>1
<1>4. \A i \in 1..Len(t) : Len(s) + i \in 1..Len(c) /\ Len(s) + i \notin 1..Len(s)
  BY <1>1
<1> HIDE DEF c
<1>5. Elems(c) = Elems(s) \cup Elems(t)
  <2>1. Elems(c) \subseteq Elems(s) \cup Elems(t)
    BY <1>1, <1>2, ZenonT(60) DEF Elems
  <2>2. Elems(s) \subseteq Elems(c)
    BY <1>1, <1>3, Zenon DEF Elems
  <2>3. Elems(t) \subseteq Elems(c)
    BY <1>1, <1>4, Zenon DEF Elems
  <2>4. QED
    BY <2>1, <2>2, <2>3, Zenon
<1>6. ASSUME Distinct(c)
      PROVE  Distinct(s) /\ Distinct(t) /\ Elems(s) \cap Elems(t) = {}
  <2>1. Distinct(s)
    BY <1>1, <1>3, <1>6, Zenon DEF Distinct
  <2>2. Distinct(t)
    <3>1. \A i, j \in 1..Len(t) : Len(s) + i = Len(s) + j => i = j
      BY <1>1
    <3>2. QED
      BY <1>1, <1>4, <1>6, <3>1, Zenon DEF Distinct
  <2>3. \A i \in 1..Len(s), j \in 1..Len(t) : s[i] # t[j]
    BY <1>1, <1>3, <1>4, <1>6, Zenon DEF Distinct
  <2>4. QED
    BY <2>1, <2>2, <2>3, Zenon DEF Elems
<1>7. ASSUME Distinct(s), Distinct(t), Elems(s) \cap Elems(t) = {}
      PROVE  Distinct(c)
  <2> SUFFICES ASSUME NEW i \in 1..Len(c), NEW j \in 1..Len(c), c[i] = c[j]
               PROVE  i = j
    BY Zenon DEF Distinct
  <2>1. CASE i \in 1..Len(s) /\ j \in 1..Len(s)
    BY <1>1, <1>7, <2>1, Zenon DEF Distinct
  <2>2. CASE i \notin 1..Len(s) /\ j \notin 1..Len(s)
    <3>1. i - Len(s) = j - Len(s)
      BY <1>2, <1>7, <2>2, Zenon DEF Distinct
    <3>2. QED
      BY <1>1, <3>1
  <2>3. CASE ~(i \in 1..Len(s) <=> j \in 1..Len(s))
    <3>1. \A x \in 1..Len(c) : x \in 1..Len(s) => c[x] \in Elems(s)
      BY <1>1, Zenon DEF Elems
    <3>2. \A x \in 1..Len(c) : x \notin 1..Len(s) => c[x] \in Elems(t)
      BY <1>2, Zenon DEF Elems
    <3>3. QED
      BY <1>7, <2>3, <3>1, <3>2, Zenon
  <2>4. QED
    BY <2>1, <2>2, <2>3, Zenon
<1>8. QED
  BY <1>5, <1>6, <1>7, Zenon DEF c

\* A sequence is its first k objects followed by the rest.
LEMMA Split ==
    ASSUME NEW S, NEW s \in Seq(S), NEW k \in 0..Len(s)
    PROVE  /\ SubSeq(s, 1, k) \in Seq(S) /\ Len(SubSeq(s, 1, k)) = k
           /\ SubSeq(s, k + 1, Len(s)) \in Seq(S)
           /\ Len(SubSeq(s, k + 1, Len(s))) = Len(s) - k
           /\ s = SubSeq(s, 1, k) \o SubSeq(s, k + 1, Len(s))
<1>1. Len(s) \in Nat /\ k \in Nat /\ k <= Len(s)
  OBVIOUS
<1>2. \A n \in 1..Len(s) : s[n] \in S
  OBVIOUS
<1>3. SubSeq(s, 1, k) \in Seq(S) /\ Len(SubSeq(s, 1, k)) = k
  <2>1. \A n \in 1..k : s[n] \in S
    BY <1>1, <1>2
  <2>2. QED
    BY <1>1, <2>1, SubSeqProperties
<1>4. /\ SubSeq(s, k + 1, Len(s)) \in Seq(S)
      /\ Len(SubSeq(s, k + 1, Len(s))) = Len(s) - k
  <2>1. \A n \in (k + 1)..Len(s) : s[n] \in S
    BY <1>1, <1>2
  <2>2. k + 1 \in Int /\ Len(s) \in Int
    BY <1>1
  <2>3. QED
    BY <1>1, <2>1, <2>2, SubSeqProperties
<1>5. s = SubSeq(s, 1, k) \o SubSeq(s, k + 1, Len(s))
  <2>1. 1 \in 1..(Len(s) + 1) /\ k \in 0..Len(s) /\ Len(s) \in k..Len(s) /\ 1 - 1 = 0
    BY <1>1
  <2>2. SubSeq(s, 1, k) \o SubSeq(s, k + 1, Len(s)) = SubSeq(s, 1, Len(s))
    BY <2>1, ConcatAdjacentSubSeq, Zenon
  <2>3. QED
    BY <2>2, SubSeqFull, Zenon
<1>6. QED
  BY <1>3, <1>4, <1>5, Zenon

\* The objects after the first k.
LEMMA Rest ==
    ASSUME NEW S, NEW s \in Seq(S), NEW k \in 0..Len(s)
    PROVE  Elems(SubSeq(s, k + 1, Len(s))) = {s[n] : n \in (k + 1)..Len(s)}
<1> DEFINE b == SubSeq(s, k + 1, Len(s))
<1>1. Len(s) \in Nat /\ k \in Nat /\ k <= Len(s)
  OBVIOUS
<1>2. \A n \in 1..Len(s) : s[n] \in S
  OBVIOUS
<1>3. /\ b \in Seq(S) /\ Len(b) = Len(s) - k
      /\ \A n \in 1..(Len(s) - k) : b[n] = s[k + n]
  <2>1. \A n \in (k + 1)..Len(s) : s[n] \in S
    BY <1>1, <1>2
  <2>2. k + 1 \in Int /\ Len(s) \in Int
    BY <1>1
  <2>3. /\ b \in Seq(S)
        /\ Len(b) = IF k + 1 <= Len(s) THEN Len(s) - (k + 1) + 1 ELSE 0
        /\ \A n \in 1..(Len(s) - (k + 1) + 1) : b[n] = s[(k + 1) + n - 1]
    BY <2>1, <2>2, SubSeqProperties
  <2> HIDE DEF b
  <2>4. /\ Len(s) - (k + 1) + 1 = Len(s) - k
        /\ \A n \in 1..(Len(s) - k) : (k + 1) + n - 1 = k + n
    BY <1>1
  <2>5. Len(b) = Len(s) - k
    BY <1>1, <2>3
  <2>6. QED
    BY <2>3, <2>4, <2>5, Zenon
<1> HIDE DEF b
<1>4. Elems(b) = {s[n] : n \in (k + 1)..Len(s)}
  <2>1. ASSUME NEW n \in 1..Len(b)
        PROVE  b[n] \in {s[j] : j \in (k + 1)..Len(s)}
    <3>1. k + n \in (k + 1)..Len(s) /\ b[n] = s[k + n]
      BY <1>1, <1>3
    <3>2. QED
      BY <3>1, Zenon
  <2>2. ASSUME NEW n \in (k + 1)..Len(s)
        PROVE  s[n] \in Elems(b)
    <3>1. n - k \in 1..Len(b) /\ k + (n - k) = n
      BY <1>1, <1>3
    <3>2. b[n - k] = s[n]
      BY <1>3, <3>1, Zenon
    <3>3. QED
      BY <3>1, <3>2, Zenon DEF Elems
  <2>3. QED
    BY <2>1, <2>2, Zenon DEF Elems
<1>5. QED
  BY <1>4, Zenon DEF b

\* The empty sequence.
LEMMA Empty == Elems(<<>>) = {} /\ Distinct(<<>>) /\ <<>> \in Seq(Mbufs) /\ Len(<<>>) = 0
  BY DEF Elems, Distinct

\* A received batch is a short sequence of distinct mbufs of the pool.
LEMMA BatchIsSeq ==
    ASSUME NEW S \in SUBSET Mbufs, NEW s \in Batches(S)
    PROVE  /\ s \in Seq(Mbufs) /\ Len(s) <= MaxBatch /\ s # <<>>
           /\ Distinct(s) /\ Elems(s) \subseteq S
<1>1. PICK n \in 1..MaxBatch : s \in [1..n -> S]
  BY Zenon DEF Batches
<1>2. n \in Nat /\ n >= 1 /\ n <= MaxBatch
  BY BytesizedRingAssumption
<1>3. s \in Seq(S) /\ Len(s) = n
  BY <1>1, <1>2
<1>4. s \in Seq(Mbufs)
  BY <1>3
<1>5. s # <<>>
  BY <1>2, <1>3
<1>6. QED
  BY <1>1, <1>2, <1>3, <1>4, <1>5, Zenon DEF Batches, Elems

\* Weights and owners of the chain of its three parts.
LEMMA ChainParts ==
    ASSUME NEW w \in Lengths, NEW d \in Seq(Mbufs), NEW r \in Seq(Mbufs),
           NEW p \in Seq(Mbufs)
    PROVE  /\ d \o r \o p \in Seq(Mbufs)
           /\ Weight(d, w) \in Nat /\ Weight(r, w) \in Nat /\ Weight(p, w) \in Nat
           /\ Weight(d \o r \o p, w) = Weight(d, w) + Weight(r, w) + Weight(p, w)
           /\ Elems(d \o r \o p) = Elems(d) \cup Elems(r) \cup Elems(p)
<1>1. d \o r \in Seq(Mbufs) /\ d \o r \o p \in Seq(Mbufs)
  BY ConcatProperties, Zenon
<1>2. Weight(d, w) \in Nat /\ Weight(r, w) \in Nat /\ Weight(p, w) \in Nat
  BY WeightNat, Zenon
<1>3. /\ Weight(d \o r, w) = Weight(d, w) + Weight(r, w)
      /\ Weight(d \o r \o p, w) = Weight(d \o r, w) + Weight(p, w)
  BY <1>1, WeightConcat, Zenon
<1>4. Elems(d \o r) = Elems(d) \cup Elems(r)
  BY ConcatElems
<1>5. Elems(d \o r \o p) = Elems(d \o r) \cup Elems(p)
  <2> DEFINE e == d \o r
  <2>1. e \in Seq(Mbufs)
    BY <1>1, Zenon
  <2> HIDE DEF e
  <2>2. Elems(e \o p) = Elems(e) \cup Elems(p)
    BY <2>1, ConcatElems
  <2>3. QED
    BY <2>2, Zenon DEF e
<1>6. QED
  BY <1>1, <1>2, <1>3, <1>4, <1>5, Zenon
-----------------------------------------------------------------------------
(* The 32-bit counter *)

\* One turn of the counter.
LEMMA OneTurn ==
    ASSUME NEW x \in Int
    PROVE  /\ 0 <= x /\ x < W => x % W = x
           /\ W <= x /\ x < 2 * W => x % W = x - W
           /\ -W <= x /\ x < 0 => x % W = x + W
  BY BytesizedRingAssumption, Z3

\* A difference within the capacity is the same as a signed number.
LEMMA SignedSmall ==
    ASSUME NEW x \in 0..Capacity PROVE ToInt(x) = x
<1>1. Capacity \in Nat /\ W \in Nat /\ W > 2 * Capacity
  BY BytesizedRingAssumption, Zenon
<1>2. x % W = x
  BY <1>1, OneTurn
<1>3. QED
  BY <1>1, <1>2 DEF ToInt
-----------------------------------------------------------------------------
(* The inductive invariant *)

\* Packets that have been given to the ring and whose bytes the consumer has
\* not yet subtracted, oldest first.
Chain == deq \o ring \o pending

\* The record of an enqueue call that has not entered the retry loop.
Calls ==
    [pc : {"create", "ready", "check", "enqueue", "enqueue_burst", "publish",
           "rest", "account"},
     op : {"none", "bulk", "burst", "one"},
     obj : Seq(Mbufs),
     num_to_add : Nat,
     num_added : Nat,
     bytes_added : Nat,
     bytes_remaining : Int,
     i : Nat]

\* What variables hold before the first retry loop.
Types ==
    /\ slots \in Nat \ {0}
    /\ ring \in Seq(Mbufs) /\ pending \in Seq(Mbufs) /\ deq \in Seq(Mbufs)
    /\ Len(ring) + Len(pending) < slots
    /\ taken \in 0..Len(ring)
    /\ taken > 0 => deq = <<>>
    /\ bytes_used \in Nat
    /\ pkt_len \in Lengths
    /\ pool \subseteq Mbufs
    /\ held \subseteq Mbufs
    /\ call \in Calls

\* Where a call is, and what its locals say there.
Place ==
    /\ Len(call.obj) <= MaxBatch
    /\ Distinct(call.obj)
    /\ call.num_to_add <= Len(call.obj)
    /\ call.num_added <= Len(call.obj)
    /\ call.pc = "create" => RingEmpty
    /\ call.pc # "publish" => pending = <<>>
    /\ call.pc \in {"create", "ready", "check", "enqueue", "enqueue_burst"} =>
            call.num_added = 0 /\ call.bytes_added = 0
    /\ call.pc \in {"check", "enqueue"} => call.obj # <<>>
    /\ call.pc = "enqueue" => call.op # "burst"
    /\ call.pc = "enqueue_burst" => call.op = "burst"
    /\ call.pc = "publish" =>
            /\ pending = SubSeq(call.obj, 1, call.num_added)
            /\ call.op # "burst" => call.num_added = Len(call.obj)
    /\ call.pc = "rest" /\ call.num_added = 0 => call.bytes_added = 0
    /\ call.pc \in {"create", "ready"} => call.obj = <<>>

\* Bytes that are in the ring and not yet in the counter.
Owed == IF call.pc \in {"rest", "account"} THEN call.bytes_added ELSE 0

\* The bytes given to the ring and not subtracted, less those still to be added.
Balance == Weight(ring, pkt_len) + Weight(deq, pkt_len) - Owed

\* That is what the counter holds; below zero it has wrapped.
Counter ==
    bytes_used = IF Balance < 0 THEN Balance + W ELSE Balance

\* What the producer has made sure of: the packets it is about to hand over
\* fit beside everything that has not been subtracted.  The consumer can only
\* make more room.
Room ==
    /\ Weight(Chain, pkt_len) <= Capacity
    /\ Owed <= Capacity
    /\ call.pc = "enqueue" =>
            Weight(Chain, pkt_len) + Weight(call.obj, pkt_len) <= Capacity
    /\ call.pc = "enqueue_burst" =>
            Weight(Chain, pkt_len)
                + Weight(SubSeq(call.obj, 1, call.num_to_add), pkt_len) <= Capacity

\* Every mbuf is free, with the consumer, with the producer, or in the chain.
Owners ==
    /\ Mbufs = pool \cup held \cup ProducerOwns \cup Elems(Chain)
    /\ pool \cap (held \cup ProducerOwns \cup Elems(Chain)) = {}
    /\ held \cap (ProducerOwns \cup Elems(Chain)) = {}
    /\ ProducerOwns \cap Elems(Chain) = {}
    /\ Distinct(Chain)

\* The state of the ring before the first retry loop.
Good == Types /\ Place /\ Counter /\ Room /\ Owners

\* The inductive invariant: it speaks of the calls before a retry loop.
RingInv ==
    /\ retries \in Nat
    /\ retries = 0 => Good
-----------------------------------------------------------------------------
(* Facts every step needs *)

\* Weight is Bytes for the lengths of the moment.
LEMMA BytesIsWeight == ASSUME NEW s PROVE Bytes(s) = Weight(s, pkt_len)
  BY Zenon DEF Bytes, Weight

\* The numbers the invariant is about.
LEMMA Numbers ==
    ASSUME Types
    PROVE  /\ Weight(ring, pkt_len) \in Nat
           /\ Weight(deq, pkt_len) \in Nat
           /\ Weight(pending, pkt_len) \in Nat
           /\ Weight(Chain, pkt_len) = Weight(deq, pkt_len) + Weight(ring, pkt_len)
                                            + Weight(pending, pkt_len)
           /\ pending = <<>> => Weight(pending, pkt_len) = 0
           /\ Chain \in Seq(Mbufs)
           /\ Elems(Chain) = Elems(deq) \cup Elems(ring) \cup Elems(pending)
<1>1. /\ pkt_len \in Lengths
      /\ deq \in Seq(Mbufs) /\ ring \in Seq(Mbufs) /\ pending \in Seq(Mbufs)
  BY Zenon DEF Types
<1>2. pending = <<>> => Weight(pending, pkt_len) = 0
  BY <1>1, WeightEmpty, Zenon
<1>3. QED
  BY <1>1, <1>2, ChainParts DEF Chain

\* A call that has not begun.
LEMMA NoCallIs ==
    /\ NoCall \in Calls /\ NoCall.pc = "ready" /\ NoCall.obj = <<>>
    /\ NoCall.num_to_add = 0 /\ NoCall.num_added = 0 /\ NoCall.bytes_added = 0
  BY Empty DEF NoCall, Calls

\* Constants.
LEMMA Constants ==
    /\ Capacity \in Nat /\ W \in Nat /\ W > 2 * Capacity /\ MaxBatch \in Nat
  BY BytesizedRingAssumption, Zenon

\* A step that leaves the ring, the dequeued packets and the lengths alone.
LEMMA ChainKept ==
    ASSUME UNCHANGED <<ringVars, deq, pkt_len>>
    PROVE  /\ Chain' = Chain
           /\ Weight(Chain, pkt_len)' = Weight(Chain, pkt_len)
           /\ Weight(ring, pkt_len)' = Weight(ring, pkt_len)
           /\ Weight(deq, pkt_len)' = Weight(deq, pkt_len)
<1>1. ring' = ring /\ pending' = pending /\ deq' = deq /\ pkt_len' = pkt_len
  BY Zenon DEF ringVars
<1>2. Chain' = Chain
  BY <1>1, Zenon DEF Chain
<1>3. QED
  BY <1>1, <1>2, Zenon
-----------------------------------------------------------------------------
(* Init and create_bsring *)

LEMMA GoodInit == Init => RingInv
<1> SUFFICES ASSUME Init PROVE RingInv
  BY Zenon
<1>1. PICK l \in PktLens : pkt_len = [m \in Mbufs |-> l]
  BY Zenon DEF Init
<1>2. /\ ring = <<>> /\ pending = <<>> /\ taken = 0 /\ deq = <<>> /\ slots = 1
      /\ bytes_used = 0 /\ pool = Mbufs /\ held = {} /\ retries = 0
      /\ call = [NoCall EXCEPT !.pc = "create"]
  BY Zenon DEF Init, RingEmpty
<1>3. /\ call \in Calls /\ call.pc = "create" /\ call.obj = <<>>
      /\ call.num_to_add = 0 /\ call.num_added = 0 /\ call.bytes_added = 0
  BY <1>2, NoCallIs, Zenon DEF Calls
<1>4. Types
  BY <1>1, <1>2, <1>3, Empty DEF Types, Lengths
<1>5. Place
  BY <1>2, <1>3, Empty, Constants DEF Place, RingEmpty
<1>6. Weight(ring, pkt_len) = 0 /\ Weight(deq, pkt_len) = 0 /\ Weight(pending, pkt_len) = 0
  BY <1>2, <1>4, WeightEmpty, Zenon DEF Types
<1>7. Counter /\ Room
  BY <1>2, <1>3, <1>4, <1>6, Numbers, Constants DEF Counter, Balance, Room, Owed
<1>8. Owners
  <2>1. Chain = <<>>
    BY <1>2 DEF Chain
  <2>2. ProducerOwns = {}
    BY <1>3, Zenon DEF ProducerOwns
  <2>3. QED
    BY <1>2, <2>1, <2>2, Empty, Zenon DEF Owners
<1>9. QED
  BY <1>2, <1>4, <1>5, <1>7, <1>8, Zenon DEF RingInv, Good

LEMMA GoodCreate == ASSUME Good, Create PROVE Good'
<1>1. /\ call.pc = "create" /\ ring = <<>> /\ pending = <<>> /\ taken = 0
      /\ slots \in Nat \ {0} /\ call \in Calls
      /\ call.obj = <<>> /\ call.num_added = 0 /\ call.bytes_added = 0
      /\ call.num_to_add = 0
  BY Empty, SMTT(30) DEF Good, Types, Place, RingEmpty, Create, DoubleSlots, RingCreated, RingNotCreated, Calls
<1>2. /\ UNCHANGED <<ring, pending, taken, bytes_used, pkt_len, deq, pool, held>>
      /\ call' = call \/ call' = NoCall
  BY Zenon DEF Create, DoubleSlots, RingCreated, RingNotCreated
<1>3. slots' \in Nat \ {0}
  <2>1. CASE DoubleSlots
    BY <1>1, <2>1 DEF DoubleSlots
  <2>2. CASE RingCreated
    BY <1>1, <2>2, BytesizedRingAssumption DEF RingCreated
  <2>3. CASE RingNotCreated
    BY <2>3 DEF RingNotCreated
  <2>4. QED
    BY <2>1, <2>2, <2>3, Zenon DEF Create
<1>4. /\ call' \in Calls /\ call'.pc \in {"create", "ready"}
      /\ call'.obj = <<>> /\ call'.num_added = 0 /\ call'.bytes_added = 0
      /\ call'.num_to_add = 0
  BY <1>1, <1>2, Empty DEF NoCall, Calls
<1>5. Types'
  BY <1>1, <1>2, <1>3, <1>4, Empty DEF Good, Types
<1>6. Place'
  BY <1>1, <1>2, <1>4, Empty, Constants DEF Place, RingEmpty
<1>7. /\ Chain' = Chain /\ Owed = 0 /\ Owed' = 0
      /\ ProducerOwns = {} /\ ProducerOwns' = {}
  BY <1>1, <1>2, <1>4, Zenon DEF Chain, Owed, ProducerOwns
<1>8. Counter'
  BY <1>2, <1>7, Zenon DEF Good, Counter, Balance
<1>9. Room'
  BY <1>2, <1>4, <1>7, Zenon DEF Good, Room
<1>10. Owners'
  BY <1>2, <1>7, Zenon DEF Good, Owners
<1>11. QED
  BY <1>5, <1>6, <1>8, <1>9, <1>10, Zenon DEF Good
-----------------------------------------------------------------------------
(* The producer *)

\* A batch is received: only the lengths of free mbufs change, so nothing that
\* has been given to the ring gets longer or shorter.
LEMMA GoodReceive == ASSUME Good, Receive PROVE Good'
<1> USE DEF Good
<1>0. PICK s \in Batches(pool), f \in Ops :
        /\ call' = [NoCall EXCEPT !.pc = "check", !.op = f, !.obj = s]
        /\ pool' = pool \ Elems(s)
        /\ \E l \in [Elems(s) -> PktLens] :
            pkt_len' = [m \in Mbufs |-> IF m \in Elems(s) THEN l[m] ELSE pkt_len[m]]
  BY Zenon DEF Receive
<1>1. PICK l \in [Elems(s) -> PktLens] :
        pkt_len' = [m \in Mbufs |-> IF m \in Elems(s) THEN l[m] ELSE pkt_len[m]]
  BY <1>0, Zenon
<1>2. /\ call.pc = "ready"
      /\ UNCHANGED <<slots, ring, pending, taken, bytes_used, deq, held>>
  BY Zenon DEF Receive, ringVars
<1>3. /\ s \in Seq(Mbufs) /\ Len(s) <= MaxBatch /\ s # <<>>
      /\ Distinct(s) /\ Elems(s) \subseteq pool
  BY <1>0, BatchIsSeq, Zenon DEF Types
<1>4. /\ call' \in Calls /\ call'.pc = "check" /\ call'.obj = s
      /\ call'.num_to_add = 0 /\ call'.num_added = 0 /\ call'.bytes_added = 0
  <2>1. f \in {"none", "bulk", "burst", "one"}
    BY BytesizedRingAssumption, Zenon
  <2>2. QED
    BY <1>0, <1>3, <2>1, NoCallIs, Zenon DEF Calls
<1>5. pkt_len' \in Lengths
  BY <1>1, Zenon DEF Types, Lengths
<1>6. Types'
  BY <1>0, <1>2, <1>4, <1>5, Zenon DEF Types
<1>7. Place'
  <2>1. pending = <<>> /\ Len(s) \in Nat
    BY <1>2, <1>3 DEF Place
  <2>2. QED
    BY <1>2, <1>3, <1>4, <2>1 DEF Place
<1>8. Chain' = Chain
  BY <1>2, Zenon DEF Chain
<1>9. /\ Weight(Chain, pkt_len)' = Weight(Chain, pkt_len)
      /\ Weight(ring, pkt_len)' = Weight(ring, pkt_len)
      /\ Weight(deq, pkt_len)' = Weight(deq, pkt_len)
  <2>1. \A x \in Elems(Chain) : x \in Mbufs /\ x \notin Elems(s)
    BY <1>3, Zenon DEF Owners
  <2>2. \A x \in Elems(Chain) : pkt_len'[x] = pkt_len[x]
    BY <1>1, <2>1, Zenon
  <2>3. Elems(ring) \subseteq Elems(Chain) /\ Elems(deq) \subseteq Elems(Chain)
    BY Numbers, Zenon
  <2>4. pkt_len \in Lengths /\ Chain \in Seq(Mbufs) /\ ring \in Seq(Mbufs) /\ deq \in Seq(Mbufs)
    BY Numbers, Zenon DEF Types
  <2>5. Weight(Chain, pkt_len') = Weight(Chain, pkt_len)
    BY <1>5, <2>2, <2>4, WeightKept, Zenon
  <2>6. Weight(ring, pkt_len') = Weight(ring, pkt_len)
    BY <1>5, <2>2, <2>3, <2>4, WeightKept, Zenon
  <2>7. Weight(deq, pkt_len') = Weight(deq, pkt_len)
    BY <1>5, <2>2, <2>3, <2>4, WeightKept
  <2>8. QED
    BY <1>2, <1>8, <2>5, <2>6, <2>7, Zenon
<1>10. Owed = 0 /\ Owed' = 0
  BY <1>2, <1>4, Zenon DEF Owed
<1>11. Counter'
  BY <1>2, <1>9, <1>10, Zenon DEF Counter, Balance
<1>12. Room'
  BY <1>4, <1>9, <1>10, Zenon DEF Room
<1>13. Owners'
  <2>1. ProducerOwns = {} /\ ProducerOwns' = Elems(s)
    BY <1>2, <1>4, Zenon DEF ProducerOwns
  <2>2. QED
    BY <1>0, <1>2, <1>3, <1>8, <2>1, Zenon DEF Owners
<1>14. QED
  BY <1>6, <1>7, <1>11, <1>12, <1>13, Zenon

\* The whole array is freed.
LEMMA GoodDropAll ==
    ASSUME Good, call.pc \in {"check", "enqueue"}, DropAll PROVE Good'
<1> USE DEF Good
<1>1. /\ pool' = pool \cup Elems(call.obj) /\ call' = NoCall
      /\ UNCHANGED <<slots, ring, pending, taken, bytes_used, pkt_len, deq, held>>
  BY Zenon DEF DropAll, ringVars
<1>2. call.obj \in Seq(Mbufs) /\ Elems(call.obj) \subseteq Mbufs
  BY SMTT(30) DEF Types, Calls, Elems
<1>3. Types'
  BY <1>1, <1>2, NoCallIs, Zenon DEF Types
<1>4. Place'
  BY <1>1, NoCallIs, Empty, Constants DEF Place
<1>5. /\ Chain' = Chain /\ Weight(Chain, pkt_len)' = Weight(Chain, pkt_len)
      /\ Weight(ring, pkt_len)' = Weight(ring, pkt_len)
      /\ Weight(deq, pkt_len)' = Weight(deq, pkt_len)
  BY <1>1, ChainKept, Zenon DEF ringVars
<1>6. Owed = 0 /\ Owed' = 0
  BY <1>1, NoCallIs, Zenon DEF Owed
<1>7. Counter' /\ Room'
  BY <1>1, <1>5, <1>6, NoCallIs, Zenon DEF Counter, Balance, Room
<1>8. Owners'
  <2>1. ProducerOwns = Elems(call.obj) /\ ProducerOwns' = {}
    BY <1>1, NoCallIs, Zenon DEF ProducerOwns
  <2>2. QED
    BY <1>1, <1>5, <2>1, Zenon DEF Owners
<1>9. QED
  BY <1>3, <1>4, <1>7, <1>8, Zenon

\* When a call begins the counter is exact: it is the bytes of the packets not
\* yet subtracted, and adding the batch does not wrap it.
LEMMA ExactAtCheck ==
    ASSUME Good, call.pc = "check"
    PROVE  /\ bytes_used = Weight(Chain, pkt_len) /\ bytes_used \in Nat
           /\ bytes_used <= Capacity
           /\ Weight(call.obj, pkt_len) \in Nat
           /\ (bytes_used + Weight(call.obj, pkt_len)) % W
                    = Weight(Chain, pkt_len) + Weight(call.obj, pkt_len)
<1> USE DEF Good
<1>1. /\ call.obj \in Seq(Mbufs) /\ pkt_len \in Lengths /\ Len(call.obj) <= MaxBatch
      /\ pending = <<>>
  BY Zenon DEF Types, Calls, Place
<1>2. Weight(call.obj, pkt_len) \in Nat /\ Capacity + Weight(call.obj, pkt_len) < W
  BY <1>1, WeightNat, BatchFits, Zenon
<1>3. bytes_used = Weight(ring, pkt_len) + Weight(deq, pkt_len)
  BY Numbers DEF Counter, Balance, Owed
<1>4. bytes_used = Weight(Chain, pkt_len) /\ bytes_used \in Nat
  BY <1>1, <1>3, Numbers
<1>5. bytes_used <= Capacity
  BY <1>4, Zenon DEF Room
<1>6. QED
  BY <1>2, <1>4, <1>5, Constants, OneTurn

\* A step of the producer from "check" that changes only its place.
LEMMA GoodDecide ==
    ASSUME Good, call.pc = "check", NEW c \in Calls, Local(c),
           c.obj = call.obj, c.num_to_add <= Len(call.obj),
           c.num_added = 0, c.bytes_added = 0,
           \/ /\ c.pc = "enqueue" /\ c.op # "burst"
              /\ Weight(Chain, pkt_len) + Weight(call.obj, pkt_len) <= Capacity
           \/ /\ c.pc = "enqueue_burst" /\ c.op = "burst"
              /\ Weight(Chain, pkt_len)
                    + Weight(SubSeq(call.obj, 1, c.num_to_add), pkt_len) <= Capacity
    PROVE  Good'
<1> USE DEF Good
<1>1. /\ call' = c
      /\ UNCHANGED <<slots, ring, pending, taken, bytes_used, pkt_len, deq, pool, held>>
  BY Zenon DEF Local, ringVars
<1>2. Types'
  BY <1>1, Zenon DEF Types
<1>3. Place'
  <2>1. /\ pending = <<>> /\ Len(call.obj) <= MaxBatch /\ Distinct(call.obj)
        /\ call.obj # <<>> /\ Len(call.obj) \in Nat
    BY DEF Place, Types, Calls
  <2>2. QED
    BY <1>1, <2>1, Zenon DEF Place
<1>4. /\ Chain' = Chain /\ Weight(Chain, pkt_len)' = Weight(Chain, pkt_len)
      /\ Weight(ring, pkt_len)' = Weight(ring, pkt_len)
      /\ Weight(deq, pkt_len)' = Weight(deq, pkt_len)
  BY <1>1, ChainKept, Zenon DEF ringVars
<1>5. Owed = 0 /\ Owed' = 0
  BY <1>1, Zenon DEF Owed
<1>6. Counter'
  BY <1>1, <1>4, <1>5, Zenon DEF Counter, Balance
<1>7. Room'
  BY <1>1, <1>4, <1>5, Zenon DEF Room
<1>8. Owners'
  <2>1. ProducerOwns' = ProducerOwns
    BY <1>1, Zenon DEF ProducerOwns
  <2>2. QED
    BY <1>1, <1>4, <2>1, Zenon DEF Owners
<1>9. QED
  BY <1>2, <1>3, <1>6, <1>7, <1>8, Zenon

\* The tests of bsring_enqueue_bulk and bsring_enqueue.
LEMMA GoodTest ==
    ASSUME Good, bsring_enqueue_bulk \/ bsring_enqueue PROVE Good'
<1> DEFINE c == [call EXCEPT !.pc = "enqueue"]
           sum == Weight(Chain, pkt_len) + Weight(call.obj, pkt_len)
<1>1. call.pc = "check" /\ call.op # "burst"
  BY Zenon DEF bsring_enqueue_bulk, bsring_enqueue
<1>2. (bytes_used + Bytes(call.obj)) % W = sum /\ sum \in Nat
  BY <1>1, ExactAtCheck, BytesIsWeight
<1>3. DropAll \/ (Local(c) /\ sum <= Capacity)
  <2>1. CASE bsring_enqueue_bulk
    BY <1>2, <2>1, Constants DEF bsring_enqueue_bulk
  <2>2. CASE bsring_enqueue
    BY <1>2, <2>2, Constants DEF bsring_enqueue
  <2>3. QED
    BY <2>1, <2>2, Zenon
<1>4. /\ c \in Calls /\ c.pc = "enqueue" /\ c.op = call.op /\ c.obj = call.obj
      /\ c.num_to_add = call.num_to_add /\ c.num_added = call.num_added
      /\ c.bytes_added = call.bytes_added
  BY Zenon DEF Good, Types, Calls
<1>5. call.num_to_add <= Len(call.obj) /\ call.num_added = 0 /\ call.bytes_added = 0
  BY <1>1, Zenon DEF Good, Place
<1> HIDE DEF c
<1>6. CASE DropAll
  BY <1>1, <1>6, GoodDropAll, Zenon
<1>7. CASE Local(c) /\ sum <= Capacity
  BY <1>1, <1>4, <1>5, <1>7, GoodDecide, Zenon
<1>8. QED
  BY <1>3, <1>6, <1>7, Zenon

\* The loop that counts the packets of a burst stops at the end of the array or
\* at the first packet that fills the room.
Stops(room, n, k) ==
    /\ k \in 0..n
    /\ k = n \/ room[k] <= 0
    /\ \A x \in 0..(k - 1) : room[x] > 0

\* The loop stops somewhere.
LEMMA LoopStops ==
    ASSUME NEW n \in Nat, NEW room \in [0..n -> Int]
    PROVE  \E k : Stops(room, n, k)
<1> DEFINE T == {j \in 0..n : j = n \/ room[j] <= 0}
<1>1. n \in T /\ T \in SUBSET Nat
  OBVIOUS
<1>2. PICK j \in T : \A y \in T : j <= y
  BY <1>1, Least, Zenon
<1>3. j \in 0..n /\ (j = n \/ room[j] <= 0)
  BY <1>2, Zenon
<1>4. ASSUME NEW x \in 0..(j - 1) PROVE room[x] > 0
  <2>1. x \in 0..n /\ x < j /\ x # n
    BY <1>3
  <2>2. x \notin T
    BY <1>2, <2>1
  <2>3. QED
    BY <2>1, <2>2
<1>5. Stops(room, n, j)
  BY <1>3, <1>4, Zenon DEF Stops
<1>6. QED
  BY <1>5, Zenon

\* Once the last packet has been taken back if it was too much, the counted
\* packets fit.
LEMMA PrefixFits ==
    ASSUME NEW n \in Nat, NEW room \in [0..n -> Int], room[0] >= 0,
           NEW k, Stops(room, n, k)
    PROVE  LET num == IF room[k] < 0 THEN k - 1 ELSE k
           IN  num \in 0..n /\ room[num] >= 0
<1>1. /\ k \in 0..n
      /\ \A x \in 0..(k - 1) : room[x] > 0
  BY Zenon DEF Stops
<1>2. CASE room[k] < 0
  <2>1. k # 0
    BY <1>2
  <2>2. k - 1 \in 0..(k - 1) /\ k - 1 \in 0..n
    BY <1>1, <2>1
  <2>3. QED
    BY <1>1, <1>2, <2>2
<1>3. CASE ~(room[k] < 0)
  BY <1>1, <1>3
<1>4. QED
  BY <1>2, <1>3, Zenon

\* bsring_enqueue_burst counts the packets that fit.
LEMMA GoodPrefix == ASSUME Good, BurstPrefix PROVE Good'
<1> DEFINE n == Len(call.obj)
           left(k) == ToInt(Capacity - bytes_used) - Bytes(SubSeq(call.obj, 1, k))
           counted == CHOOSE k \in 0..n : /\ k = n \/ left(k) <= 0
                                          /\ \A x \in 0..(k - 1) : left(x) > 0
           num == IF left(counted) < 0 THEN counted - 1 ELSE counted
           c == [call EXCEPT !.num_to_add = num, !.pc = "enqueue_burst"]
           avail == Capacity - Weight(Chain, pkt_len)
           room == [k \in 0..n |-> left(k)]
<1>1. /\ call.pc = "check" /\ call.op = "burst"
      /\ call \in Calls /\ call.obj \in Seq(Mbufs) /\ n \in Nat
      /\ pkt_len \in Lengths
  BY DEF BurstPrefix, Good, Types, Calls
<1>2. Local(c)
  BY Zenon DEF BurstPrefix
<1>3. /\ avail \in Nat /\ ToInt(Capacity - bytes_used) = avail
      /\ Weight(Chain, pkt_len) \in Nat
  <2>1. /\ bytes_used = Weight(Chain, pkt_len) /\ bytes_used \in Nat
        /\ bytes_used <= Capacity
    BY <1>1, ExactAtCheck, Zenon
  <2>2. Capacity - bytes_used \in 0..Capacity
    BY <2>1, Constants
  <2>3. QED
    BY <2>1, <2>2, SignedSmall
<1>4. ASSUME NEW k \in 0..n
      PROVE  /\ Weight(SubSeq(call.obj, 1, k), pkt_len) \in Nat
             /\ left(k) = avail - Weight(SubSeq(call.obj, 1, k), pkt_len)
  <2>1. SubSeq(call.obj, 1, k) \in Seq(Mbufs)
    BY <1>1, Split, Zenon
  <2>2. QED
    BY <1>1, <1>3, <2>1, WeightNat, BytesIsWeight, Zenon
<1>5. left(0) >= 0
  <2>1. SubSeq(call.obj, 1, 0) = <<>>
    BY SubSeqEmpty
  <2>2. Weight(SubSeq(call.obj, 1, 0), pkt_len) = 0
    BY <1>1, <2>1, WeightEmpty, Zenon
  <2>3. 0 \in 0..n
    BY <1>1
  <2> HIDE DEF left, avail, n
  <2>4. QED
    BY <1>3, <1>4, <2>2, <2>3
<1>6. \A k \in 0..n : left(k) \in Int
  BY <1>3, <1>4
<1> HIDE DEF left, avail, n
<1>7. room \in [0..n -> Int] /\ room[0] >= 0 /\ \A k \in 0..n : room[k] = left(k)
  BY <1>1, <1>5, <1>6
<1> HIDE DEF room
<1>8. \E k \in 0..n : /\ k = n \/ left(k) <= 0
                      /\ \A x \in 0..(k - 1) : left(x) > 0
  <2>1. PICK k : Stops(room, n, k)
    BY <1>1, <1>7, LoopStops, Zenon
  <2>2. k \in 0..n /\ \A x \in 0..(k - 1) : x \in 0..n
    BY <1>1, <2>1 DEF Stops
  <2>3. QED
    BY <1>7, <2>1, <2>2, Zenon DEF Stops
<1>9. Stops(room, n, counted)
  <2>1. /\ counted \in 0..n
        /\ counted = n \/ left(counted) <= 0
        /\ \A x \in 0..(counted - 1) : left(x) > 0
    BY <1>8, Zenon
  <2> HIDE DEF counted
  <2>2. \A x \in 0..(counted - 1) : x \in 0..n
    BY <1>1, <2>1
  <2>3. QED
    BY <1>7, <2>1, <2>2, Zenon DEF Stops
<1>10. num \in 0..n /\ left(num) >= 0
  <2> HIDE DEF counted
  <2>1. room[counted] = left(counted)
    BY <1>7, <1>9, Zenon DEF Stops
  <2>2. num \in 0..n /\ room[num] >= 0
    BY <1>1, <1>7, <1>9, <2>1, PrefixFits, Zenon
  <2>3. QED
    BY <1>7, <2>2, Zenon
<1> HIDE DEF num
<1>11. Weight(Chain, pkt_len)
            + Weight(SubSeq(call.obj, 1, num), pkt_len) <= Capacity
  BY <1>3, <1>4, <1>10, Constants DEF avail
<1>12. /\ c \in Calls /\ c.pc = "enqueue_burst" /\ c.obj = call.obj /\ c.op = call.op
       /\ c.num_to_add = num /\ c.num_added = call.num_added
       /\ c.bytes_added = call.bytes_added
  <2>1. num \in Nat
    BY <1>1, <1>10
  <2>2. QED
    BY <1>1, <2>1, Zenon DEF Calls
<1>13. num <= Len(call.obj)
  BY <1>1, <1>10 DEF n
<1>14. call.num_added = 0 /\ call.bytes_added = 0
  BY <1>1, Zenon DEF Good, Place
<1> HIDE DEF c
<1>15. QED
  BY <1>1, <1>2, <1>11, <1>12, <1>13, <1>14, GoodDecide, Zenon

\* Handing the first k packets to the DPDK ring: they fit, and they move from
\* the producer to the end of the chain.
LEMMA GoodEnqueue ==
    ASSUME Good, call.pc \in {"enqueue", "enqueue_burst"},
           NEW k \in 0..Len(call.obj), NEW next \in {"rest", "account"},
           Enqueue(k, next), k <= FreeEntries,
           k = 0 => next = "rest",
           call.op # "burst" => k = Len(call.obj),
           Weight(Chain, pkt_len) + Weight(SubSeq(call.obj, 1, k), pkt_len) <= Capacity
    PROVE  Good'
<1> USE DEF Good
<1> DEFINE a == SubSeq(call.obj, 1, k)
           b == SubSeq(call.obj, k + 1, Len(call.obj))
           pc2 == IF k > 0 THEN "publish" ELSE next
<1>1. /\ call \in Calls /\ call.obj \in Seq(Mbufs) /\ Len(call.obj) \in Nat
      /\ pkt_len \in Lengths /\ pending = <<>>
      /\ ring \in Seq(Mbufs) /\ deq \in Seq(Mbufs)
      /\ call.num_added = 0 /\ call.bytes_added = 0
  BY SMTT(30) DEF Types, Calls, Place
<1>2. /\ pending' = a
      /\ UNCHANGED <<slots, ring, taken, bytes_used, pkt_len, deq, pool, held>>
      /\ call' = [call EXCEPT !.num_added = k, !.pc = pc2]
  BY Zenon DEF Enqueue, MoveProdHead
<1>3. /\ call' \in Calls /\ call'.pc = pc2 /\ call'.op = call.op /\ call'.obj = call.obj
      /\ call'.num_to_add = call.num_to_add /\ call'.num_added = k
      /\ call'.bytes_added = 0
  <2>1. k \in Nat /\ pc2 \in {"publish", "rest", "account"}
    BY <1>1
  <2> HIDE DEF pc2
  <2>2. QED
    BY <1>1, <1>2, <2>1, Zenon DEF Calls
<1>4. /\ a \in Seq(Mbufs) /\ Len(a) = k /\ b \in Seq(Mbufs) /\ call.obj = a \o b
      /\ Elems(b) = {call.obj[x] : x \in (k + 1)..Len(call.obj)}
  <2>1. a \in Seq(Mbufs) /\ Len(a) = k /\ b \in Seq(Mbufs)
    BY <1>1, Split, Zenon
  <2>2. /\ call.obj = a \o b
        /\ Elems(b) = {call.obj[x] : x \in (k + 1)..Len(call.obj)}
    <3>1. call.obj = a \o b
      BY <1>1, Split, Zenon
    <3>2. Elems(b) = {call.obj[x] : x \in (k + 1)..Len(call.obj)}
      BY <1>1, Rest, Zenon
    <3>3. QED
      BY <3>1, <3>2, Zenon
  <2>3. QED
    BY <2>1, <2>2, Zenon
<1>5. k = 0 => a = <<>>
  BY <1>4
<1> HIDE DEF a, b
<1>6. Types'
  <2>1. Len(ring) + Len(a) < slots
    BY <1>1, <1>4, Empty DEF FreeEntries, Types
  <2>2. QED
    BY <1>1, <1>2, <1>3, <1>4, <2>1, Zenon DEF Types
<1>7. Place'
  BY <1>1, <1>2, <1>3, <1>5 DEF Place, a
<1>8. Weight(Chain, pkt_len)' = Weight(Chain, pkt_len) + Weight(a, pkt_len)
      /\ Chain' = Chain \o a /\ Chain \in Seq(Mbufs)
  <2>1. Chain = deq \o ring /\ Chain' = (deq \o ring) \o a /\ Chain \in Seq(Mbufs)
    BY <1>1, <1>2, Numbers DEF Chain
  <2>2. Weight(Chain \o a, pkt_len) = Weight(Chain, pkt_len) + Weight(a, pkt_len)
    BY <1>1, <1>4, <2>1, WeightConcat, Zenon
  <2>3. QED
    BY <1>2, <2>1, <2>2, Zenon
<1>9. Owed = 0 /\ Owed' = 0
  BY <1>3, Zenon DEF Owed
<1>10. Counter'
  BY <1>2, <1>9, Zenon DEF Counter, Balance
<1>11. Room'
  BY <1>3, <1>8, <1>9, Constants, Zenon DEF Room, a
<1>12. Owners'
  <2>1. ProducerOwns = Elems(call.obj)
    BY Zenon DEF ProducerOwns
  <2>2. ProducerOwns' = Elems(b)
    <3>1. CASE pc2 \in {"publish", "rest"}
      BY <1>3, <1>4, <3>1, Zenon DEF ProducerOwns
    <3>2. QED
      BY <3>1
  <2>3. /\ Elems(call.obj) = Elems(a) \cup Elems(b)
        /\ Elems(a) \cap Elems(b) = {}
        /\ Distinct(a)
    <3>1. Distinct(a \o b)
      BY <1>4, Zenon DEF Place
    <3>2. Elems(a \o b) = Elems(a) \cup Elems(b)
      BY <1>4, ConcatElems, Zenon
    <3>3. Distinct(a) /\ Elems(a) \cap Elems(b) = {}
      BY <1>4, <3>1, ConcatElems, Zenon
    <3>4. QED
      BY <1>4, <3>2, <3>3, Zenon
  <2>4. Elems(Chain) \cap Elems(a) = {} /\ Distinct(Chain)
    BY <2>1, <2>3, Zenon DEF Owners
  <2>5. Elems(Chain \o a) = Elems(Chain) \cup Elems(a)
    BY <1>4, <1>8, ConcatElems
  <2>6. Distinct(Chain \o a)
    BY <1>4, <1>8, <2>3, <2>4, ConcatElems, Zenon
  <2>7. QED
    BY <1>2, <1>8, <2>1, <2>2, <2>3, <2>4, <2>5, <2>6, Zenon DEF Owners
<1>13. QED
  BY <1>6, <1>7, <1>10, <1>11, <1>12, Zenon

\* The two enqueues: the room was made sure of, and the ring decides only how
\* many slots there are.
LEMMA GoodEnqueueFixed == ASSUME Good, EnqueueFixed PROVE Good'
<1>1. /\ call.pc = "enqueue" /\ call.op # "burst" /\ call.obj \in Seq(Mbufs)
      /\ call.obj # <<>>
      /\ Weight(Chain, pkt_len) + Weight(call.obj, pkt_len) <= Capacity
  BY Zenon DEF EnqueueFixed, Good, Place, Room, Types, Calls
<1>2. SubSeq(call.obj, 1, Len(call.obj)) = call.obj
  BY <1>1, SubSeqFull, Zenon
<1>3. Len(call.obj) \in 0..Len(call.obj) /\ Len(call.obj) # 0
  BY <1>1
<1>4. CASE Len(call.obj) <= FreeEntries /\ Enqueue(Len(call.obj), "account")
  BY <1>1, <1>2, <1>3, <1>4, GoodEnqueue, Zenon
<1>5. CASE DropAll
  BY <1>1, <1>5, GoodDropAll, Zenon
<1>6. QED
  BY <1>4, <1>5, Zenon DEF EnqueueFixed

LEMMA GoodBurstEnqueue == ASSUME Good, BurstEnqueue PROVE Good'
<1> DEFINE k == VariableCount(call.num_to_add, FreeEntries)
           a == SubSeq(call.obj, 1, call.num_to_add)
<1>1. /\ call.pc = "enqueue_burst" /\ call.obj \in Seq(Mbufs) /\ pkt_len \in Lengths
      /\ call.num_to_add \in 0..Len(call.obj)
      /\ Weight(Chain, pkt_len) + Weight(a, pkt_len) <= Capacity
  BY DEF BurstEnqueue, Good, Place, Room, Types, Calls
<1>2. k \in 0..call.num_to_add /\ k <= FreeEntries /\ k \in 0..Len(call.obj)
  BY <1>1 DEF VariableCount, FreeEntries, Good, Types
<1>3. Enqueue(k, "rest")
  BY Zenon DEF BurstEnqueue
<1>4. Weight(SubSeq(call.obj, 1, k), pkt_len) <= Weight(a, pkt_len)
  <2> HIDE DEF k
  <2> DEFINE r == SubSeq(call.obj, k + 1, call.num_to_add)
  <2>1. Len(call.obj) \in Nat /\ k \in Nat /\ call.num_to_add \in Nat
    BY <1>1, <1>2
  <2>2. r \in Seq(Mbufs)
    <3>1. \A x \in (k + 1)..call.num_to_add : call.obj[x] \in Mbufs
      BY <1>1, <2>1
    <3>2. k + 1 \in Int /\ call.num_to_add \in Int
      BY <2>1
    <3>3. QED
      BY <3>1, <3>2, SubSeqProperties, Zenon
  <2>3. SubSeq(call.obj, 1, k) \in Seq(Mbufs)
    BY <1>1, <1>2, Split, Zenon
  <2>4. SubSeq(call.obj, 1, k) \o r = a
    <3>1. /\ 1 \in 1..(Len(call.obj) + 1) /\ k \in (1 - 1)..Len(call.obj)
          /\ call.num_to_add \in k..Len(call.obj)
      BY <1>1, <1>2, <2>1
    <3>2. QED
      BY <1>1, <3>1, ConcatAdjacentSubSeq, Zenon
  <2>5. /\ Weight(a, pkt_len) = Weight(SubSeq(call.obj, 1, k), pkt_len) + Weight(r, pkt_len)
        /\ Weight(r, pkt_len) \in Nat
        /\ Weight(SubSeq(call.obj, 1, k), pkt_len) \in Nat
    <3> HIDE DEF r, a
    <3>1. QED
      BY <1>1, <2>2, <2>3, <2>4, WeightConcat, WeightNat, Zenon
  <2>6. QED
    BY <2>5
<1>5. call.op = "burst"
  BY <1>1, Zenon DEF Good, Place
<1>6. /\ Weight(SubSeq(call.obj, 1, k), pkt_len) \in Nat /\ Weight(a, pkt_len) \in Nat
      /\ Weight(Chain, pkt_len) \in Nat
  <2>1. SubSeq(call.obj, 1, k) \in Seq(Mbufs) /\ a \in Seq(Mbufs)
    BY <1>1, <1>2, Split, Zenon
  <2>2. Chain \in Seq(Mbufs)
    BY Numbers, Zenon DEF Good
  <2>3. QED
    BY <1>1, <2>1, <2>2, WeightNat, Zenon
<1>7. Weight(Chain, pkt_len) + Weight(SubSeq(call.obj, 1, k), pkt_len) <= Capacity
  <2> HIDE DEF k, a
  <2>1. QED
    BY <1>1, <1>4, <1>6, Constants
<1> HIDE DEF k
<1>8. QED
  BY <1>1, <1>2, <1>3, <1>5, <1>7, GoodEnqueue, Zenon

\* The packets become visible: the chain is the same, and its new bytes are
\* now owed to the counter.
LEMMA GoodPublish == ASSUME Good, Publish PROVE Good'
<1> USE DEF Good
<1> DEFINE new == Bytes(SubSeq(call.obj, 1, call.num_added))
           pc2 == IF call.op = "burst" THEN "rest" ELSE "account"
<1>1. /\ call.pc = "publish" /\ call \in Calls /\ pkt_len \in Lengths
      /\ ring \in Seq(Mbufs) /\ deq \in Seq(Mbufs) /\ pending \in Seq(Mbufs)
      /\ pending = SubSeq(call.obj, 1, call.num_added)
  BY Zenon DEF Publish, Types, Place
<1>2. /\ ring' = ring \o pending /\ pending' = <<>>
      /\ UNCHANGED <<slots, taken, bytes_used, pkt_len, deq, pool, held>>
      /\ call' = [call EXCEPT !.pc = pc2, !.bytes_added = new]
  BY Zenon DEF Publish, UpdateProdTail
<1>3. new = Weight(pending, pkt_len) /\ new \in Nat
  BY <1>1, BytesIsWeight, WeightNat, Zenon
<1> HIDE DEF new
<1>4. /\ call' \in Calls /\ call'.pc = pc2 /\ call'.op = call.op /\ call'.obj = call.obj
      /\ call'.num_to_add = call.num_to_add /\ call'.num_added = call.num_added
      /\ call'.bytes_added = new
  <2>1. pc2 \in {"rest", "account"}
    BY Zenon
  <2> HIDE DEF pc2
  <2>2. QED
    BY <1>1, <1>2, <1>3, <2>1, Zenon DEF Calls
<1>5. Types'
  <2>1. ring' \in Seq(Mbufs) /\ Len(ring') = Len(ring) + Len(pending)
    BY <1>1, <1>2, ConcatProperties, Zenon
  <2>2. QED
    BY <1>1, <1>2, <1>4, <2>1, Empty, SMTT(30) DEF Types
<1>6. call.num_added = 0 => new = 0
  <2>1. SubSeq(call.obj, 1, 0) = <<>>
    BY SubSeqEmpty
  <2>2. QED
    BY <1>1, <1>3, <2>1, WeightEmpty, Zenon
<1>7. Place'
  BY <1>2, <1>4, <1>6 DEF Place
<1>8. Chain' = Chain
  <2>1. Chain' = deq \o (ring \o pending) \o <<>>
    BY <1>2, Zenon DEF Chain
  <2>2. ring \o pending \in Seq(Mbufs) /\ deq \o (ring \o pending) \in Seq(Mbufs)
    BY <1>1, ConcatProperties, Zenon
  <2>3. deq \o (ring \o pending) \o <<>> = deq \o (ring \o pending)
    BY <2>2, ConcatEmptySeq, Zenon
  <2>4. deq \o ring \o pending = deq \o (ring \o pending)
    <3>1. deq \in Seq(Mbufs) /\ ring \in Seq(Mbufs) /\ pending \in Seq(Mbufs)
      BY <1>1, Zenon
    <3>2. QED
      BY ONLY <3>1
  <2>5. QED
    BY <2>1, <2>3, <2>4, Zenon DEF Chain
<1>9. Weight(ring, pkt_len)' = Weight(ring, pkt_len) + new
  BY <1>1, <1>2, <1>3, WeightConcat, Zenon
<1>10. Owed = 0 /\ Owed' = new
  BY <1>1, <1>4, Zenon DEF Owed
<1>11. Counter'
  BY <1>2, <1>3, <1>9, <1>10, Numbers DEF Counter, Balance
<1>12. Room'
  BY <1>2, <1>3, <1>4, <1>8, <1>10, Numbers, Constants DEF Room
<1>13. Owners'
  <2>1. ProducerOwns' = ProducerOwns
    <3>1. CASE call.op = "burst"
      BY <1>1, <1>4, <3>1, Zenon DEF ProducerOwns
    <3>2. CASE call.op # "burst"
      <4>1. call.num_added = Len(call.obj) /\ Len(call.obj) \in Nat
        BY <1>1, <3>2, Zenon DEF Place, Calls
      <4>2. ProducerOwns = {}
        BY <1>1, <4>1 DEF ProducerOwns
      <4>3. ProducerOwns' = {}
        BY <1>4, <3>2, Zenon DEF ProducerOwns
      <4>4. QED
        BY <4>2, <4>3, Zenon
    <3>3. QED
      BY <3>1, <3>2, Zenon
  <2>2. QED
    BY <1>2, <1>8, <2>1, Zenon DEF Owners
<1>14. QED
  BY <1>5, <1>7, <1>11, <1>12, <1>13, Zenon

\* What was owed is added, and the counter is exact again.
LEMMA GoodAccount == ASSUME Good, Account PROVE Good'
<1> USE DEF Good
<1>1. /\ call.pc = "account" /\ call' = NoCall
      /\ bytes_used' = (bytes_used + call.bytes_added) % W
      /\ UNCHANGED <<slots, ring, pending, taken, pkt_len, deq, pool, held>>
  BY Zenon DEF Account, ringVars
<1>2. /\ Chain' = Chain /\ Weight(Chain, pkt_len)' = Weight(Chain, pkt_len)
      /\ Weight(ring, pkt_len)' = Weight(ring, pkt_len)
      /\ Weight(deq, pkt_len)' = Weight(deq, pkt_len)
  BY <1>1, ChainKept, Zenon DEF ringVars
<1>3. Owed = call.bytes_added /\ Owed' = 0 /\ call.bytes_added \in Nat
  BY <1>1, NoCallIs, Zenon DEF Owed, Types, Calls
<1> DEFINE d == Weight(ring, pkt_len) + Weight(deq, pkt_len)
<1>4. d \in Nat /\ d <= Capacity
  BY Numbers, Constants DEF Room
<1>5. bytes_used = IF d - call.bytes_added < 0 THEN d - call.bytes_added + W ELSE d - call.bytes_added
  BY <1>3, <1>4, Numbers, SMTT(30) DEF Counter, Balance
<1> HIDE DEF d
<1>6. bytes_used' = d
  BY <1>1, <1>3, <1>4, <1>5, OneTurn, Constants
<1>7. Counter'
  <2>1. Balance' = d
    BY <1>2, <1>3, <1>4, Numbers DEF Balance, d
  <2>2. QED
    BY <1>4, <1>6, <2>1 DEF Counter
<1>8. Types'
  BY <1>1, <1>4, <1>6, NoCallIs, Zenon DEF Types
<1>9. Place'
  BY <1>1, NoCallIs, Empty, Constants DEF Place
<1>10. Room'
  BY <1>1, <1>2, <1>3, NoCallIs, Constants DEF Room
<1>11. Owners'
  <2>1. ProducerOwns = {} /\ ProducerOwns' = {}
    BY <1>1, NoCallIs, Zenon DEF ProducerOwns
  <2>2. QED
    BY <1>1, <1>2, <2>1, Zenon DEF Owners
<1>12. QED
  BY <1>7, <1>8, <1>9, <1>10, <1>11, Zenon

\* A burst of which every packet was added goes on to the counter.
LEMMA GoodRest ==
    ASSUME Good, BurstRest, call.num_added >= Len(call.obj) PROVE Good'
<1> USE DEF Good
<1>1. /\ call.pc = "rest" /\ call \in Calls /\ call.obj \in Seq(Mbufs)
      /\ call.num_added = Len(call.obj) /\ Len(call.obj) \in Nat
      /\ call.num_to_add <= Len(call.obj) /\ call.num_to_add \in Nat
  BY DEF BurstRest, Types, Place, Calls
<1>2. /\ call' = [call EXCEPT !.pc = "account"]
      /\ pool' = pool \cup {call.obj[n] : n \in (call.num_added + 1)..call.num_to_add}
      /\ UNCHANGED <<slots, ring, pending, taken, bytes_used, pkt_len, deq, held>>
  BY <1>1 DEF BurstRest, ringVars
<1>3. pool' = pool
  BY <1>1, <1>2
<1>4. /\ call' \in Calls /\ call'.pc = "account" /\ call'.op = call.op /\ call'.obj = call.obj
      /\ call'.num_to_add = call.num_to_add /\ call'.num_added = call.num_added
      /\ call'.bytes_added = call.bytes_added
  BY <1>1, <1>2, Zenon DEF Calls
<1>5. /\ Chain' = Chain /\ Weight(Chain, pkt_len)' = Weight(Chain, pkt_len)
      /\ Weight(ring, pkt_len)' = Weight(ring, pkt_len)
      /\ Weight(deq, pkt_len)' = Weight(deq, pkt_len)
  BY <1>2, ChainKept, Zenon DEF ringVars
<1>6. Owed' = Owed
  BY <1>1, <1>4, Zenon DEF Owed
<1>7. Types'
  BY <1>2, <1>3, <1>4, Zenon DEF Types
<1>8. Place'
  BY <1>1, <1>2, <1>4, Zenon DEF Place
<1>9. Counter'
  BY <1>2, <1>5, <1>6, Zenon DEF Counter, Balance
<1>10. Room'
  BY <1>4, <1>5, <1>6, Zenon DEF Room
<1>11. Owners'
  <2>1. ProducerOwns = {}
    BY <1>1 DEF ProducerOwns
  <2>2. ProducerOwns' = {}
    BY <1>4, Zenon DEF ProducerOwns
  <2>3. QED
    BY <1>2, <1>3, <1>5, <2>1, <2>2, Zenon DEF Owners
<1>12. QED
  BY <1>7, <1>8, <1>9, <1>10, <1>11, Zenon
-----------------------------------------------------------------------------
(* The consumer *)

\* The consumer fixes how many packets it takes.
LEMMA GoodDequeue ==
    ASSUME Good, bsring_dequeue_burst \/ bsring_dequeue_bulk \/ bsring_dequeue
    PROVE  Good'
<1> USE DEF Good
<1>1. \E k \in 1..Len(ring) : Dequeue(k)
  <2>1. MaxBatch \in Nat /\ Len(ring) \in Nat
    BY Constants DEF Types
  <2>2. CASE bsring_dequeue_burst
    <3>1. PICK n \in 1..MaxBatch : Dequeue(VariableCount(n, Len(ring)))
      BY <2>2, Zenon DEF bsring_dequeue_burst
    <3>2. VariableCount(n, Len(ring)) \in 1..Len(ring)
      BY <2>1, <3>1 DEF VariableCount, Dequeue
    <3>3. QED
      BY <3>1, <3>2, Zenon
  <2>3. CASE bsring_dequeue_bulk
    <3>1. PICK n \in 1..MaxBatch : Dequeue(FixedCount(n, Len(ring)))
      BY <2>3, Zenon DEF bsring_dequeue_bulk
    <3>2. FixedCount(n, Len(ring)) \in 1..Len(ring)
      BY <2>1, <3>1 DEF FixedCount, Dequeue
    <3>3. QED
      BY <3>1, <3>2, Zenon
  <2>4. CASE bsring_dequeue
    <3>1. FixedCount(1, Len(ring)) \in 1..Len(ring)
      BY <2>1, <2>4 DEF FixedCount, Dequeue, bsring_dequeue
    <3>2. QED
      BY <2>4, <3>1, Zenon DEF bsring_dequeue
  <2>5. QED
    BY <2>2, <2>3, <2>4, Zenon
<1>2. PICK k \in 1..Len(ring) : Dequeue(k)
  BY <1>1, Zenon
<1>3. /\ call.pc # "create" /\ deq = <<>> /\ taken' = k
      /\ UNCHANGED <<slots, ring, pending, bytes_used, pkt_len, call, deq, pool, held>>
  BY <1>2, Zenon DEF Dequeue, MoveConsHead
<1>4. Types'
  BY <1>2, <1>3 DEF Types
<1>5. Place'
  BY <1>3, Zenon DEF Place
<1>6. Chain' = Chain /\ Owed' = Owed /\ ProducerOwns' = ProducerOwns
  BY <1>3, Zenon DEF Chain, Owed, ProducerOwns
<1>7. Counter' /\ Room' /\ Owners'
  BY <1>3, <1>6, Zenon DEF Counter, Balance, Room, Owners
<1>8. QED
  BY <1>4, <1>5, <1>7, Zenon

\* The packets leave the ring, and stay in the chain.
LEMMA GoodReturns == ASSUME Good, DequeueReturns PROVE Good'
<1> USE DEF Good
<1> DEFINE a == SubSeq(ring, 1, taken)
           b == SubSeq(ring, taken + 1, Len(ring))
<1>1. /\ taken > 0 /\ taken \in 0..Len(ring) /\ deq = <<>> /\ pkt_len \in Lengths
      /\ ring \in Seq(Mbufs) /\ pending \in Seq(Mbufs) /\ Len(ring) \in Nat
  BY DEF DequeueReturns, Types
<1>2. /\ deq' = a /\ ring' = b /\ taken' = 0
      /\ UNCHANGED <<slots, pending, bytes_used, pkt_len, call, pool, held>>
  BY Zenon DEF DequeueReturns, UpdateConsTail, Dequeued
<1>3. /\ a \in Seq(Mbufs) /\ b \in Seq(Mbufs) /\ Len(b) = Len(ring) - taken
  BY <1>1, Split
<1>4. ring = a \o b
  BY <1>1, Split, Zenon
<1> HIDE DEF a, b
<1>5. Types'
  BY <1>1, <1>2, <1>3 DEF Types
<1>6. call.pc # "create"
  BY <1>1 DEF Place, RingEmpty
<1>7. Place'
  BY <1>2, <1>6, Zenon DEF Place
<1>8. Chain' = Chain
  <2>1. Chain = <<>> \o ring \o pending /\ Chain' = a \o b \o pending
    BY <1>1, <1>2, Zenon DEF Chain
  <2>2. <<>> \o ring = ring
    BY <1>1, ConcatEmptySeq, Zenon
  <2>3. QED
    BY <1>4, <2>1, <2>2, Zenon
<1>9. Owed' = Owed /\ ProducerOwns' = ProducerOwns /\ Owed \in Nat
  BY <1>2, Zenon DEF Owed, ProducerOwns, Types, Calls
<1>10. Balance' = Balance
  <2>1. Weight(ring, pkt_len) = Weight(a, pkt_len) + Weight(b, pkt_len)
    BY <1>1, <1>3, <1>4, WeightConcat, Zenon
  <2>2. Weight(deq, pkt_len) = 0
    BY <1>1, WeightEmpty, Zenon
  <2>3. Weight(a, pkt_len) \in Nat /\ Weight(b, pkt_len) \in Nat
    BY <1>1, <1>3, WeightNat, Zenon
  <2>4. Weight(ring, pkt_len)' = Weight(b, pkt_len) /\ Weight(deq, pkt_len)' = Weight(a, pkt_len)
    BY <1>2, Zenon
  <2>5. QED
    BY ONLY <1>9, <2>1, <2>2, <2>3, <2>4 DEF Balance
<1>11. Counter'
  BY <1>2, <1>10, Zenon DEF Counter
<1>12. Room' /\ Owners'
  BY <1>2, <1>8, <1>9, Zenon DEF Room, Owners
<1>13. QED
  BY <1>5, <1>7, <1>11, <1>12, Zenon

\* The bytes of one packet are subtracted and the packet is the consumer's.
LEMMA GoodSubtract == ASSUME Good, Subtract PROVE Good'
<1> USE DEF Good
<1> DEFINE h == Head(deq)
           t == Tail(deq)
           l == pkt_len[h]
<1>1. /\ deq # <<>> /\ deq \in Seq(Mbufs) /\ pkt_len \in Lengths
      /\ ring \in Seq(Mbufs) /\ pending \in Seq(Mbufs)
  BY Zenon DEF Subtract, Types
<1>2. /\ bytes_used' = (bytes_used - l) % W /\ held' = held \cup {h} /\ deq' = t
      /\ UNCHANGED <<slots, ring, pending, taken, pkt_len, call, pool>>
  BY Zenon DEF Subtract, ringVars
<1>3. h \in Mbufs /\ t \in Seq(Mbufs) /\ <<h>> \in Seq(Mbufs) /\ deq = <<h>> \o t
  BY <1>1
<1> HIDE DEF h, t
<1>4. l \in Nat /\ Weight(<<h>>, pkt_len) = l
  BY <1>1, <1>3, WeightOne, Zenon
<1> HIDE DEF l
<1>5. Weight(deq, pkt_len) = l + Weight(t, pkt_len) /\ Weight(t, pkt_len) \in Nat
  <2>1. Weight(<<h>> \o t, pkt_len) = Weight(<<h>>, pkt_len) + Weight(t, pkt_len)
    BY <1>1, <1>3, WeightConcat, Zenon
  <2>2. QED
    BY <1>1, <1>3, <1>4, <2>1, WeightNat, Zenon
<1>6. Owed' = Owed /\ ProducerOwns' = ProducerOwns /\ Owed \in Nat /\ Owed <= Capacity
  BY <1>2, Zenon DEF Owed, ProducerOwns, Room, Types, Calls
<1>7. Balance \in Int /\ Balance' = Balance - l /\ -Capacity <= Balance' /\ Balance <= Capacity
  <2>1. Weight(ring, pkt_len)' = Weight(ring, pkt_len) /\ Weight(deq, pkt_len)' = Weight(t, pkt_len)
    BY <1>2, Zenon
  <2>2. Weight(ring, pkt_len) + Weight(deq, pkt_len) <= Capacity
    BY Numbers, Constants DEF Room
  <2>3. Weight(ring, pkt_len) \in Nat /\ Weight(deq, pkt_len) \in Nat
    BY Numbers, Zenon
  <2>4. QED
    BY ONLY <1>4, <1>5, <1>6, <2>1, <2>2, <2>3, Constants DEF Balance
<1>8. /\ bytes_used' \in Nat
      /\ bytes_used' = IF Balance' < 0 THEN Balance' + W ELSE Balance'
  <2>1. bytes_used = IF Balance < 0 THEN Balance + W ELSE Balance
    BY Zenon DEF Counter
  <2>2. QED
    BY <1>2, <1>4, <1>7, <2>1, OneTurn, Constants
<1>9. Counter'
  BY <1>8, Zenon DEF Counter
<1>10. Types'
  BY <1>2, <1>3, <1>8 DEF Types
<1>11. Place'
  BY <1>2, Zenon DEF Place, RingEmpty
<1>12. Chain = <<h>> \o Chain' /\ Chain' \in Seq(Mbufs)
  <2>1. Chain' = t \o ring \o pending /\ Chain = (<<h>> \o t) \o ring \o pending
    BY <1>2, <1>3, Zenon DEF Chain
  <2>2. QED
    BY ONLY <1>1, <1>3, <2>1, SMTT(30)
<1>13. Weight(Chain, pkt_len)' <= Weight(Chain, pkt_len) /\ Weight(Chain, pkt_len)' \in Nat
  <2>1. Weight(Chain, pkt_len) = l + Weight(Chain', pkt_len)
    BY <1>1, <1>3, <1>4, <1>12, WeightConcat, Zenon
  <2>2. Weight(Chain', pkt_len) \in Nat
    BY <1>1, <1>12, WeightNat, Zenon
  <2>3. QED
    BY <1>2, <1>4, <2>1, <2>2
<1>14. Room'
  <2>1. /\ call.pc = "enqueue" => Weight(call.obj, pkt_len) \in Nat
        /\ call.pc = "enqueue_burst" =>
                Weight(SubSeq(call.obj, 1, call.num_to_add), pkt_len) \in Nat
    <3>1. call.obj \in Seq(Mbufs) /\ call.num_to_add \in 0..Len(call.obj)
      BY DEF Types, Calls, Place
    <3>2. QED
      BY <1>1, <3>1, Split, WeightNat, Zenon
  <2>2. Weight(Chain, pkt_len) \in Nat
    BY Numbers
  <2>3. QED
    BY <1>2, <1>6, <1>13, <2>1, <2>2, Constants DEF Room
<1>15. Owners'
  <2>1. Elems(<<h>>) = {h}
    BY DEF Elems
  <2>2. Elems(Chain) = {h} \cup Elems(Chain')
    BY <1>3, <1>12, <2>1, ConcatElems, Zenon
  <2>3. {h} \cap Elems(Chain') = {} /\ Distinct(Chain')
    <3>1. Distinct(<<h>> \o Chain')
      BY <1>12, Zenon DEF Owners
    <3>2. QED
      BY <1>3, <1>12, <2>1, <3>1, ConcatElems, Zenon
  <2>4. QED
    BY <1>2, <1>6, <2>2, <2>3, Zenon DEF Owners, Chain
<1>16. QED
  BY <1>9, <1>10, <1>11, <1>14, <1>15, Zenon

\* The consumer has sent a packet and frees its mbuf.
LEMMA GoodFrees == ASSUME Good, ConsumerFrees PROVE Good'
<1> USE DEF Good
<1>1. PICK m \in held : held' = held \ {m} /\ pool' = pool \cup {m}
  BY Zenon DEF ConsumerFrees
<1>2. UNCHANGED <<slots, ring, pending, taken, bytes_used, pkt_len, call, deq>>
  BY Zenon DEF ConsumerFrees, ringVars
<1>3. Types'
  BY <1>1, <1>2, Zenon DEF Types
<1>4. Place'
  BY <1>2, Zenon DEF Place, RingEmpty
<1>5. Chain' = Chain /\ Owed' = Owed /\ ProducerOwns' = ProducerOwns /\ Balance' = Balance
  BY <1>2, Zenon DEF Chain, Owed, ProducerOwns, Balance
<1>6. Counter' /\ Room'
  BY <1>2, <1>5, Zenon DEF Counter, Room
<1>7. Owners'
  BY <1>1, <1>2, <1>5, Zenon DEF Owners
<1>8. QED
  BY <1>3, <1>4, <1>6, <1>7, Zenon
-----------------------------------------------------------------------------
(* The theorems *)

\* Every step preserves the inductive invariant.
LEMMA RingNext == RingInv /\ [Next]_vars => RingInv'
<1> SUFFICES ASSUME RingInv, [Next]_vars PROVE RingInv'
  BY Zenon
<1>1. CASE BurstRest
  <2>1. CASE retries # 0
    BY <1>1, <2>1 DEF BurstRest, RingInv
  <2>2. CASE retries = 0
    <3>1. call.num_added \in Nat /\ Len(call.obj) \in Nat /\ Good
      BY <2>2, SMTT(30) DEF RingInv, Good, Types, Calls
    <3>2. CASE call.num_added < Len(call.obj)
      BY <1>1, <2>2, <3>2 DEF BurstRest, RingInv
    <3>3. CASE call.num_added >= Len(call.obj)
      <4>1. Good'
        BY <1>1, <3>1, <3>3, GoodRest, Zenon
      <4>2. retries' = 0
        BY <1>1, <2>2, <3>1, <3>3 DEF BurstRest
      <4>3. QED
        BY <4>1, <4>2, Zenon DEF RingInv
    <3>4. QED
      BY <3>1, <3>2, <3>3
  <2>3. QED
    BY <2>1, <2>2, Zenon
<1>2. CASE ~BurstRest
  <2>1. retries' = retries
    BY <1>2, Zenon DEF Next, Create, DoubleSlots, RingCreated, RingNotCreated, Producer, Receive,
         Bulk, bsring_enqueue_bulk, bsring_enqueue, EnqueueFixed, DropAll, Local, Enqueue,
         Burst, BurstPrefix, BurstEnqueue, BurstRetryTooLong, BurstRetryEnqueue,
         BurstRetryPublish, BurstRetryFree, BurstRetryEnds, Publish, Account,
         Consumer, bsring_dequeue_burst, bsring_dequeue_bulk, bsring_dequeue, Dequeue,
         DequeueReturns, Subtract, ConsumerFrees, vars
  <2>2. ASSUME retries = 0 PROVE Good'
    <3>1. Good
      BY <2>2, Zenon DEF RingInv
    <3>2. CASE UNCHANGED vars
      <4>1. /\ UNCHANGED <<slots, ring, pending, taken, bytes_used, pkt_len, call, deq, pool, held>>
        BY <3>2, Zenon DEF vars, ringVars
      <4>2. Types' /\ Place'
        BY <3>1, <4>1, Zenon DEF Good, Types, Place, RingEmpty
      <4>3. /\ Chain' = Chain /\ Owed' = Owed /\ ProducerOwns' = ProducerOwns
            /\ Balance' = Balance
        BY <4>1, Zenon DEF Chain, Owed, ProducerOwns, Balance
      <4>4. Counter' /\ Room' /\ Owners'
        BY <3>1, <4>1, <4>3, Zenon DEF Good, Counter, Room, Owners
      <4>5. QED
        BY <4>2, <4>4, Zenon DEF Good
    <3>3. CASE Next
      <4>1. ~(BurstRetryTooLong \/ BurstRetryEnqueue \/ BurstRetryPublish
                \/ BurstRetryFree \/ BurstRetryEnds)
        <5>1. call.pc \notin {"retry", "retry_publish", "retry_free"}
          BY <3>1, Zenon DEF Good, Types, Calls
        <5>2. QED
          BY <5>1, Zenon DEF BurstRetryTooLong, BurstRetryEnqueue, BurstRetryPublish,
                      BurstRetryFree, BurstRetryEnds, Retrying
      <4>2. CASE Producer
        BY <1>2, <3>1, <4>1, <4>2, GoodReceive, GoodTest, GoodEnqueueFixed, GoodPrefix,
           GoodBurstEnqueue, GoodPublish, GoodAccount, Zenon DEF Producer, Bulk, Burst
      <4>3. CASE Consumer
        BY <3>1, <4>3, GoodDequeue, GoodReturns, GoodSubtract, GoodFrees, Zenon DEF Consumer
      <4>4. QED
        BY <3>1, <3>3, <4>2, <4>3, GoodCreate, Zenon DEF Next
    <3>4. QED
      BY <3>2, <3>3, Zenon
  <2>3. QED
    BY <2>1, <2>2, Zenon DEF RingInv
<1>3. QED
  BY <1>1, <1>2, Zenon

\* The inductive invariant holds in every reachable state.
THEOREM RingInvariance == Spec => []RingInv
  BY GoodInit, RingNext, PTL DEF Spec

\* For every capacity, every pool and all packet lengths: the packets in the
\* ring and those being published never have more bytes than the capacity,
\* although the counter lags on both sides and is tested while both change it.
THEOREM BytesRespected == Spec => []WithinBytes
<1>1. RingInv => WithinBytes
  <2> SUFFICES ASSUME RingInv, ~(retries > 0)
               PROVE  Bytes(ring \o pending) <= Capacity
    BY Zenon DEF WithinBytes
  <2>1. Good
    BY DEF RingInv
  <2>2. /\ pkt_len \in Lengths /\ ring \in Seq(Mbufs) /\ pending \in Seq(Mbufs)
    BY <2>1, Zenon DEF Good, Types
  <2>3. Bytes(ring \o pending) = Weight(ring, pkt_len) + Weight(pending, pkt_len)
    BY <2>2, BytesIsWeight, WeightConcat, Zenon
  <2>4. QED
    BY <2>1, <2>3, Numbers, Constants DEF Good, Room
<1>2. QED
  BY <1>1, RingInvariance, PTL

\* For every word size above twice the capacity: the counter is the bytes in
\* the ring once the additions and subtractions under way are reckoned in, even
\* while it has wrapped below zero.
THEOREM CounterIsExact == Spec => []CounterExact
<1>1. RingInv => CounterExact
  <2> SUFFICES ASSUME RingInv, ~(retries > 0) PROVE CounterExact
    BY Zenon DEF CounterExact
  <2>1. Good
    BY DEF RingInv
  <2> DEFINE d == Weight(ring, pkt_len) + Weight(deq, pkt_len)
  <2>2. Bytes(ring) + Bytes(deq) = d
    BY BytesIsWeight, Zenon
  <2>3. d \in Nat /\ d <= Capacity
    BY <2>1, Numbers, Constants DEF Good, Room
  <2>4. Owed \in Nat /\ Owed <= Capacity
    BY <2>1, Zenon DEF Good, Room, Owed, Types, Calls
  <2>5. bytes_used = IF d - Owed < 0 THEN d - Owed + W ELSE d - Owed
    <3>1. Balance = d - Owed
      BY <2>1, <2>4, Numbers DEF Good, Balance
    <3>2. QED
      BY <2>1, <3>1, Zenon DEF Good, Counter
  <2> HIDE DEF d
  <2>6. d % W = d
    BY <2>3, OneTurn, Constants
  <2>7. (bytes_used + Owed) % W = d
    <3>1. bytes_used + Owed = d \/ bytes_used + Owed = d + W
      BY <2>3, <2>4, <2>5, Constants
    <3>2. (d + W) % W = d
      BY <2>3, OneTurn, Constants
    <3>3. QED
      BY <2>6, <3>1, <3>2, Zenon
  <2>8. QED
    BY <2>2, <2>6, <2>7, Zenon DEF CounterExact, Owed
<1>2. QED
  BY <1>1, RingInvariance, PTL

\* For every pool of mbufs: until a burst enters its retry loop no path through
\* the enqueue and dequeue functions loses an mbuf, frees one that is in the
\* ring, or stores one twice.
THEOREM EveryMbufOneOwner == Spec => []OneOwner
<1>1. RingInv => OneOwner
  <2> SUFFICES ASSUME RingInv, ~(retries > 0) PROVE OneOwner
    BY Zenon DEF OneOwner
  <2>1. Good
    BY DEF RingInv
  <2>2. Elems(Chain) = Elems(deq) \cup Elems(ring) \cup Elems(pending)
    BY <2>1, Numbers, Zenon DEF Good
  <2>3. Elems(ring \o pending) = Elems(ring) \cup Elems(pending)
    BY <2>1, ConcatElems DEF Good, Types
  <2>4. Distinct(deq \o ring \o pending)
    BY <2>1, Zenon DEF Good, Owners, Chain
  <2>5. QED
    BY <2>1, <2>2, <2>3, <2>4, Zenon DEF Good, Owners, OneOwner
<1>2. QED
  BY <1>1, RingInvariance, PTL

\* For every capacity: a batch is refused only when, together with the packets
\* whose bytes have not been subtracted, it has at least as many bytes as the
\* capacity; a counter wrapped below zero never refuses one.
THEOREM DropsAreJustified == Spec => DropsJustified
<1> DEFINE Step == retries = 0 /\ call.pc = "check" /\ call'.pc = "ready" =>
                        Bytes(ring) + Bytes(deq) + Bytes(call.obj) >= Capacity
<1>1. RingInv /\ [Next]_vars => [Step]_vars
  <2> SUFFICES ASSUME RingInv, Next, retries = 0, call.pc = "check", call'.pc = "ready"
               PROVE  Bytes(ring) + Bytes(deq) + Bytes(call.obj) >= Capacity
    BY Zenon
  <2> DEFINE sum == Weight(Chain, pkt_len) + Weight(call.obj, pkt_len)
  <2>1. Good
    BY Zenon DEF RingInv
  <2>2. /\ sum \in Nat /\ (bytes_used + Bytes(call.obj)) % W = sum
        /\ Bytes(ring) + Bytes(deq) + Bytes(call.obj) = sum
    <3>1. pending = <<>>
      BY <2>1, Zenon DEF Good, Place
    <3>2. /\ Weight(Chain, pkt_len) = Weight(deq, pkt_len) + Weight(ring, pkt_len)
          /\ Weight(deq, pkt_len) \in Nat /\ Weight(ring, pkt_len) \in Nat
      BY <2>1, <3>1, Numbers DEF Good
    <3>3. /\ Weight(call.obj, pkt_len) \in Nat
          /\ (bytes_used + Weight(call.obj, pkt_len)) % W = sum
      BY <2>1, ExactAtCheck, Zenon
    <3>4. QED
      BY <3>2, <3>3, BytesIsWeight
  <2> HIDE DEF sum
  <2>3. call \in Calls
    BY <2>1, Zenon DEF Good, Types
  <2>4. CASE bsring_enqueue_bulk
    <3>1. ~Local([call EXCEPT !.pc = "enqueue"])
      BY <2>3, Zenon DEF Local, Calls
    <3>2. QED
      BY <2>2, <2>4, <3>1, Constants DEF bsring_enqueue_bulk
  <2>5. CASE bsring_enqueue
    <3>1. ~Local([call EXCEPT !.pc = "enqueue"])
      BY <2>3, Zenon DEF Local, Calls
    <3>2. QED
      BY <2>2, <2>5, <3>1, Constants DEF bsring_enqueue
  <2>6. CASE BurstPrefix
    BY <2>3, <2>6, Zenon DEF BurstPrefix, Local, Calls
  <2>7. ~(Create \/ Receive \/ EnqueueFixed \/ BurstEnqueue \/ BurstRest \/ Publish \/ Account
            \/ BurstRetryTooLong \/ BurstRetryEnqueue \/ BurstRetryPublish
            \/ BurstRetryFree \/ BurstRetryEnds)
    BY Zenon DEF Create, DoubleSlots, RingCreated, RingNotCreated, Receive, EnqueueFixed,
           BurstEnqueue, BurstRest, Publish, Account, BurstRetryTooLong, BurstRetryEnqueue,
           BurstRetryPublish, BurstRetryFree, BurstRetryEnds, Retrying
  <2>8. ~Consumer
    <3>1. Consumer => call' = call
      BY Zenon DEF Consumer, bsring_dequeue_burst, bsring_dequeue_bulk, bsring_dequeue, Dequeue,
             DequeueReturns, Subtract, ConsumerFrees
    <3>2. QED
      BY <3>1, Zenon
  <2>9. QED
    BY <2>4, <2>5, <2>6, <2>7, <2>8, Zenon DEF Next, Producer, Bulk, Burst
<1>2. QED
  BY <1>1, RingInvariance, PTL DEF Spec, DropsJustified
=============================================================================

------------------------- MODULE RateLimiterProofs --------------------------
(***************************************************************************)
(* Proofs about the two rate limiters: the CRC rate limiter, for every     *)
(* array size, every minimal frame and every sequence of gaps, and the     *)
(* software rate limiter, for every batch size, ring, gap and restart      *)
(* time.  Nothing relates the two.                                         *)
(***************************************************************************)
EXTENDS CrcRateLimiter, SoftwareRateLimiter, WellFoundedInduction, TLAPS

\* The array has room for one more entry whenever the sender may add one.
RoomInv ==
    /\ WithinArray
    /\ pc \in {"idle", "next", "gap"} => Len(pkts) < BUF_SIZE

\* No gap is open between packets, the left-over delay is shorter than a frame,
\* and a gap in front of which some is left over has not yet used up its
\* allowance.
DelayInv ==
    /\ pc \in {"idle", "next", "flush"} => delay = 0
    /\ leftover_delay < MinPktSize
    /\ NeverSlower
    /\ requested <= emitted + leftover_delay + delay + allowance
    /\ leftover_delay > 0 /\ pc \in {"gap", "flush_gap"} /\ delay + MinPktSize > MaxFrame
        => requested <= emitted + leftover_delay + delay + allowance - (MinPktSize - 1)

\* A packet in the middle of a batch is being dealt with.
PositionInv == pc \in {"gap", "flush_gap"} => i < Len(load_pkts)

\* The inductive invariant.
Inv == TypeOK /\ PositionInv /\ RoomInv /\ FrameLegal /\ DelayInv
-----------------------------------------------------------------------------
\* The sizes are numbers.
LEMMA SizesAreNat ==
    /\ MinPktSize \in Nat /\ MinPktSize > 0
    /\ MaxFrame \in Nat /\ 2 * MinPktSize <= MaxFrame
    /\ BUF_SIZE \in Nat /\ BUF_SIZE > 0
    /\ Overhead \in Nat /\ Overhead <= MinPktSize
    /\ Extra \in Nat
  BY CrcRateLimiterAssumption

\* A batch is a sequence of numbers.
LEMMA BatchIsSeq == ASSUME NEW b \in Batches PROVE b \in Seq(Nat)
<1>1. PICK n \in 0..MaxPkts : b \in [1..n -> UData]
  BY Zenon DEF Batches
<1>2. n \in Nat /\ UData \subseteq Nat
  BY CrcRateLimiterAssumption
<1>3. b \in [1..n -> Nat] /\ n \in Nat
  BY <1>1, <1>2, Zenon
<1>4. QED
  BY <1>3

\* The gap read from a packet is a number.
LEMMA GapIsNat == ASSUME NEW u \in Nat PROVE Gap(u) \in Nat
  BY CrcRateLimiterAssumption DEF Gap

\* get_delay_pkt_bad_crc makes only legal frames, and never one longer than
\* the delay it is to fill.
LEMMA FrameSizeLegal ==
    ASSUME NEW d \in Nat, d >= MinPktSize
    PROVE  /\ FrameSize(d) \in Nat
           /\ FrameSize(d) \in MinPktSize..MaxFrame
           /\ FrameSize(d) <= d
           /\ d < MaxFrame => FrameSize(d) = d
  BY CrcRateLimiterAssumption DEF FrameSize

\* The invariant holds at the start.
LEMMA InvInit == Init => Inv
<1> SUFFICES ASSUME Init PROVE Inv
  BY Zenon
<1> USE SizesAreNat DEF Init
<1>1. TypeOK
  <2>1. lossy \in BOOLEAN /\ hw \in [valid : Nat, frames : Nat, bytes : Nat]
    BY Zenon
  <2>2. load_pkts \in Seq(Nat) /\ pkts \in Seq(Nat) /\ i \in 0..Len(load_pkts)
    OBVIOUS
  <2>3. QED
    BY <2>1, <2>2, Zenon DEF TypeOK
<1>2. PositionInv /\ RoomInv /\ FrameLegal
  BY DEF PositionInv, RoomInv, WithinArray, FrameLegal
<1>3. DelayInv
  BY DEF DelayInv, NeverSlower
<1>4. QED
  BY <1>1, <1>2, <1>3, Zenon DEF Inv

\* Appending a legal entry keeps the entries legal.
LEMMA AppendLegal ==
    ASSUME pkts \in Seq(Nat), FrameLegal, NEW f \in Nat,
           f = Valid \/ f \in MinPktSize..MaxFrame,
           pkts' = Append(pkts, f)
    PROVE  /\ pkts' \in Seq(Nat)
           /\ Len(pkts') = Len(pkts) + 1
           /\ FrameLegal'
  BY DEF FrameLegal

\* Taking the first entry away keeps the others legal.
LEMMA TailLegal ==
    ASSUME pkts \in Seq(Nat), FrameLegal, pkts # <<>>, pkts' = Tail(pkts)
    PROVE  /\ pkts' \in Seq(Nat)
           /\ Len(pkts') < Len(pkts)
           /\ Head(pkts) \in Nat
           /\ Head(pkts) # Valid => Head(pkts) \in MinPktSize..MaxFrame
           /\ FrameLegal'
  BY DEF FrameLegal

\* Every step keeps the types.
LEMMA TypeNext == Inv /\ [Next]_vars => TypeOK'
<1> SUFFICES ASSUME Inv, [Next]_vars PROVE TypeOK'
  BY Zenon
<1> USE SizesAreNat DEF Inv, TypeOK, array, port, history
<1>1. CASE Call
  <2>1. PICK l \in BOOLEAN : Begin(l)
    BY <1>1, Zenon DEF Call, sendWithDelay, sendWithDelayLoss
  <2>2. lossy' \in BOOLEAN
    BY <2>1, Zenon DEF Begin
  <2>3. load_pkts' \in Seq(Nat)
    BY <2>1, BatchIsSeq, Zenon DEF Begin
  <2>4. pc' = "next" /\ i' = 0 /\ i' \in 0..Len(load_pkts')
    BY <2>1, <2>3 DEF Begin
  <2>5. QED
    BY <2>1, <2>2, <2>3, <2>4 DEF Begin
<1>2. CASE NextPacket
  <2>1. load_pkts[i + 1] \in Nat
    BY <1>2, SMTT(30) DEF NextPacket
  <2>2. delay' \in Nat
    BY <1>2, <2>1, GapIsNat, Zenon DEF NextPacket
  <2>3. requested' \in Nat /\ allowance' \in Nat
    <3>1. allowance + MinPktSize - 1 \in Nat
      OBVIOUS
    <3>2. /\ requested' = requested + delay'
          /\ allowance' = allowance + MinPktSize - 1 \/ allowance' = allowance
      BY <1>2, Zenon DEF NextPacket
    <3>3. requested \in Nat /\ allowance \in Nat
      BY Zenon
    <3>4. \A a, b \in Nat : a + b \in Nat
      OBVIOUS
    <3>5. QED
      BY ONLY <2>2, <3>1, <3>2, <3>3, <3>4, Zenon
  <2>4. QED
    BY <1>2, <2>2, <2>3, Zenon DEF NextPacket
<1>3. CASE GapTooShort
  BY <1>3 DEF GapTooShort
<1>4. CASE FillGap
  <2> DEFINE f == FrameSize(delay + leftover_delay)
  <2>a. delay + leftover_delay \in Nat /\ delay + leftover_delay >= MinPktSize
    BY <1>4 DEF FillGap
  <2>1. f \in Nat /\ f \in MinPktSize..MaxFrame
    BY ONLY <2>a, FrameSizeLegal, Zenon
  <2> HIDE DEF f
  <2>2. pkts' = Append(pkts, f) /\ delay' = Remaining(f)
    BY <1>4, Zenon DEF FillGap, f
  <2>3. pkts' \in Seq(Nat) /\ delay' \in Nat
    BY <2>1, <2>2, AppendLegal DEF Remaining
  <2>4. num_bad_bytes' \in Nat
    <3>1. num_bad_bytes' = num_bad_bytes + (f - Overhead) + (IF lossy THEN 0 ELSE Extra)
      BY <1>4, Zenon DEF FillGap, f
    <3>2. QED
      BY <2>1, <3>1
  <2>5. emitted' = emitted + f /\ num_bad_pkts' = num_bad_pkts + 1 /\ leftover_delay' = 0
    BY <1>4, Zenon DEF FillGap, f
  <2>6. /\ pc' \in {"gap", "flush_gap"}
        /\ UNCHANGED <<lossy, load_pkts, i, port, calls, requested, allowance, seen, lost, hw>>
    BY <1>4, Zenon DEF FillGap
  <2>7. QED
    BY <2>1, <2>3, <2>4, <2>5, <2>6
<1>5. CASE SendPacket
  BY <1>5, AppendLegal DEF SendPacket, HandOver, Valid, PositionInv
<1>6. CASE LosePacket
  BY <1>6 DEF LosePacket, HandOver, PositionInv
<1>7. CASE TxBurst
  <2>1. /\ pkts' \in Seq(Nat)
        /\ Head(pkts) \in Nat
        /\ Head(pkts) # Valid => Head(pkts) \in MinPktSize..MaxFrame
    BY <1>7, TailLegal, Zenon DEF TxBurst
  <2>2. hw' \in [valid : Nat, frames : Nat, bytes : Nat]
    <3>1. /\ hw.valid \in Nat /\ hw.frames \in Nat /\ hw.bytes \in Nat
          /\ hw = [valid |-> hw.valid, frames |-> hw.frames, bytes |-> hw.bytes]
      BY Zenon
    <3>2. CASE Head(pkts) = Valid
      <4>1. hw' = [hw EXCEPT !.valid = @ + 1]
        BY <1>7, <3>2, Zenon DEF TxBurst
      <4>2. QED
        BY ONLY <3>1, <4>1
    <3>3. CASE Head(pkts) # Valid
      <4> DEFINE n == hw.bytes + Head(pkts) - Overhead
      <4>a. Head(pkts) \in Nat /\ Overhead \in Nat /\ Overhead <= Head(pkts)
        BY ONLY <2>1, <3>3, SizesAreNat
      <4>b. \A a, b, c \in Nat : c <= b => a + b - c \in Nat
        OBVIOUS
      <4>1. n \in Nat
        BY ONLY <3>1, <4>a, <4>b, Zenon
      <4>2. hw' = [hw EXCEPT !.frames = @ + 1, !.bytes = n]
        BY <1>7, <3>3, Zenon DEF TxBurst
      <4> HIDE DEF n
      <4>3. hw.frames + 1 \in Nat
        BY <3>1
      <4>4. QED
        BY ONLY <3>1, <4>1, <4>2, <4>3, Zenon
    <3>4. QED
      BY <3>2, <3>3, Zenon
  <2>3. QED
    BY <1>7, <2>1, <2>2, Zenon DEF TxBurst
<1>8. CASE Flushed
  BY <1>8, Zenon DEF Flushed
<1>9. CASE Return
  BY <1>9 DEF Return
<1>10. CASE UNCHANGED vars
  BY <1>10, Zenon DEF vars
<1>11. QED
  BY <1>1, <1>2, <1>3, <1>4, <1>5, <1>6, <1>7, <1>8, <1>9, <1>10, Zenon DEF Next, Send

\* Every step keeps the array within its bounds and its frames legal.
LEMMA ArrayNext == Inv /\ [Next]_vars => PositionInv' /\ RoomInv' /\ FrameLegal'
<1> SUFFICES ASSUME Inv, [Next]_vars PROVE PositionInv' /\ RoomInv' /\ FrameLegal'
  BY Zenon
<1> USE SizesAreNat DEF Inv, TypeOK, array, PositionInv, RoomInv, WithinArray
<1>1. CASE Call
  BY <1>1, Zenon DEF Call, sendWithDelay, sendWithDelayLoss, Begin, FrameLegal
<1>2. CASE NextPacket
  BY <1>2, Zenon DEF NextPacket, FrameLegal
<1>3. CASE GapTooShort
  BY <1>3, Zenon DEF GapTooShort, FrameLegal
<1>4. CASE FillGap
  <2> DEFINE f == FrameSize(delay + leftover_delay)
  <2>a. delay + leftover_delay \in Nat /\ delay + leftover_delay >= MinPktSize
    BY <1>4 DEF FillGap
  <2>1. f \in Nat /\ f \in MinPktSize..MaxFrame
    BY ONLY <2>a, FrameSizeLegal, Zenon
  <2> HIDE DEF f
  <2>2. pkts' = Append(pkts, f)
    BY <1>4, Zenon DEF FillGap, f
  <2>3. Len(pkts') = Len(pkts) + 1 /\ FrameLegal'
    BY <2>1, <2>2, AppendLegal, Zenon
  <2>4. /\ pc = "gap" /\ UNCHANGED <<i, load_pkts>>
        /\ pc' = IF Full(Len(pkts')) THEN "flush_gap" ELSE "gap"
    BY <1>4, Zenon DEF FillGap
  <2>5. Len(pkts) \in Nat /\ Len(pkts) < BUF_SIZE /\ i < Len(load_pkts)
    BY <2>4
  <2>6. QED
    BY ONLY <2>3, <2>4, <2>5, SizesAreNat DEF Full, PositionInv, RoomInv, WithinArray
<1>5. CASE SendPacket
  <2>1. Len(pkts') = Len(pkts) + 1 /\ FrameLegal'
    BY <1>5, AppendLegal, Zenon DEF SendPacket, Valid
  <2>2. QED
    BY <1>5, <2>1, SMTT(30) DEF SendPacket, HandOver, Full
<1>6. CASE LosePacket
  BY <1>6, Zenon DEF LosePacket, HandOver, Full, FrameLegal
<1>7. CASE TxBurst
  <2>1. pkts' \in Seq(Nat) /\ Len(pkts') < Len(pkts) /\ FrameLegal'
    BY <1>7, TailLegal, Zenon DEF TxBurst
  <2>2. pc \in {"flush", "flush_gap"} /\ UNCHANGED <<pc, i, load_pkts>>
    BY <1>7, Zenon DEF TxBurst
  <2>3. QED
    BY ONLY Inv, <2>1, <2>2, SizesAreNat DEF Inv, TypeOK, PositionInv, RoomInv, WithinArray
<1>8. CASE Flushed
  BY <1>8, Zenon DEF Flushed, FrameLegal
<1>9. CASE Return
  BY <1>9, Zenon DEF Return, FrameLegal
<1>10. CASE UNCHANGED vars
  BY <1>10, Zenon DEF vars, FrameLegal
<1>11. QED
  BY <1>1, <1>2, <1>3, <1>4, <1>5, <1>6, <1>7, <1>8, <1>9, <1>10, Zenon DEF Next, Send

\* The account of FillGap: with a gap of d bytes, l left over, of which a frame
\* of f bytes leaves r, no more than l is lost, and nothing if the frame
\* fills the gap.
LEMMA FrameAccount ==
    ASSUME NEW q \in Nat, NEW e \in Nat, NEW l \in Nat, NEW d \in Nat, NEW al \in Nat,
           NEW f \in Nat, NEW r \in Nat,
           e + l + d <= q, q <= e + l + d + al, l < MinPktSize,
           f + r <= d + l, d + l <= f + r + l,
           d + l < MaxFrame => f + r = d + l,
           d + l >= MaxFrame /\ l > 0 => q <= e + l + d + al - (MinPktSize - 1)
    PROVE  /\ (e + f) + 0 + r <= q
           /\ q <= (e + f) + 0 + r + al
  BY SizesAreNat

\* The account of NextPacket: a gap of g bytes is asked for.
LEMMA GapAccount ==
    ASSUME NEW q \in Nat, NEW e \in Nat, NEW l \in Nat, NEW al \in Nat, NEW g \in Nat,
           NEW al2,
           e + l + 0 <= q, q <= e + l + 0 + al,
           al2 = IF g + MinPktSize > MaxFrame THEN al + MinPktSize - 1 ELSE al
    PROVE  /\ e + l + g <= q + g
           /\ q + g <= e + l + g + al2
           /\ g + MinPktSize > MaxFrame => q + g <= e + l + g + al2 - (MinPktSize - 1)
  BY SizesAreNat

\* Every step keeps the account of the delays.
LEMMA DelayNext == Inv /\ [Next]_vars => DelayInv'
<1> SUFFICES ASSUME Inv, [Next]_vars PROVE DelayInv'
  BY Zenon
<1> USE SizesAreNat DEF Inv, TypeOK, history, DelayInv, NeverSlower
<1>a. /\ delay \in Nat /\ leftover_delay \in Nat
      /\ requested \in Nat /\ emitted \in Nat /\ allowance \in Nat
  BY Zenon
<1>b. /\ leftover_delay < MinPktSize
      /\ emitted + leftover_delay + delay <= requested
      /\ requested <= emitted + leftover_delay + delay + allowance
  BY Zenon
<1>1. CASE Call
  BY <1>1, Zenon DEF Call, sendWithDelay, sendWithDelayLoss, Begin
<1>2. CASE NextPacket
  <2>1. delay' \in Nat
    BY <1>2, TypeNext, Zenon DEF Next, Send
  <2>2. delay = 0 /\ pc' = "gap" /\ requested' = requested + delay'
        /\ UNCHANGED <<leftover_delay, emitted>>
    BY <1>2, Zenon DEF NextPacket
  <2>3. allowance' = IF delay' + MinPktSize > MaxFrame
                     THEN allowance + MinPktSize - 1 ELSE allowance
    BY <1>2, Zenon DEF NextPacket
  <2>4. QED
    <3>1. /\ emitted + leftover_delay + 0 <= requested
          /\ requested <= emitted + leftover_delay + 0 + allowance
      BY <1>b, <2>2, Zenon
    <3>2. /\ emitted + leftover_delay + delay' <= requested + delay'
          /\ requested + delay' <= emitted + leftover_delay + delay' + allowance'
          /\ delay' + MinPktSize > MaxFrame =>
               requested + delay' <= emitted + leftover_delay + delay' + allowance' - (MinPktSize - 1)
      BY ONLY <1>a, <2>1, <2>3, <3>1, GapAccount, ZenonT(60)
    <3>3. QED
      BY ONLY <1>b, <2>2, <3>2, Zenon DEF DelayInv, NeverSlower
<1>3. CASE GapTooShort
  BY <1>3 DEF GapTooShort
<1>4. CASE FillGap
  <2> DEFINE d == delay + leftover_delay
             f == FrameSize(d)
  <2>a. d \in Nat /\ d >= MinPktSize
    BY <1>4 DEF FillGap
  <2>1. /\ f \in Nat /\ f <= d
        /\ d < MaxFrame => f = d
    BY ONLY <2>a, FrameSizeLegal, Zenon
  <2>2. leftover_delay' = 0 /\ delay' = Remaining(f) /\ emitted' = emitted + f
        /\ UNCHANGED <<requested, allowance>>
    BY <1>4, Zenon DEF FillGap
  <2>3. pc = "gap" /\ pc' \notin {"idle", "next", "flush"}
    BY <1>4, Zenon DEF FillGap
  <2> HIDE DEF f
  <2>4. /\ delay' \in Nat /\ f + delay' <= d /\ d <= f + delay' + leftover_delay
        /\ d < MaxFrame => f + delay' = d
    BY ONLY <1>a, <2>1, <2>2 DEF Remaining
  <2>5. d >= MaxFrame /\ leftover_delay > 0 =>
            requested <= emitted + leftover_delay + delay + allowance - (MinPktSize - 1)
    <3>1. d >= MaxFrame => delay + MinPktSize > MaxFrame
      BY ONLY <1>a, <1>b, SizesAreNat
    <3>2. QED
      BY <2>3, <3>1, Zenon
  <2>6. /\ (emitted + f) + 0 + delay' <= requested
        /\ requested <= (emitted + f) + 0 + delay' + allowance
    BY ONLY <1>a, <1>b, <2>1, <2>4, <2>5, FrameAccount, Zenon
  <2>7. QED
    BY ONLY <2>2, <2>3, <2>6, SizesAreNat DEF DelayInv, NeverSlower
<1>5. CASE SendPacket
  BY <1>5, Zenon DEF SendPacket, HandOver
<1>6. CASE LosePacket
  BY <1>6, Zenon DEF LosePacket, HandOver
<1>7. CASE TxBurst
  BY <1>7, Zenon DEF TxBurst
<1>8. CASE Flushed
  BY <1>8, Zenon DEF Flushed
<1>9. CASE Return
  BY <1>9, Zenon DEF Return
<1>10. CASE UNCHANGED vars
  BY <1>10, Zenon DEF vars
<1>11. QED
  BY <1>1, <1>2, <1>3, <1>4, <1>5, <1>6, <1>7, <1>8, <1>9, <1>10, Zenon DEF Next, Send

\* The invariant holds in every reachable state.
THEOREM Invariance == Spec => []Inv
<1>1. Inv /\ [Next]_vars => Inv'
  BY TypeNext, ArrayNext, DelayNext, Zenon DEF Inv
<1>2. QED
  BY InvInit, <1>1, PTL DEF Spec
-----------------------------------------------------------------------------
\* The variables of the limiter keep their types; in particular the unsigned
\* rem_delay of get_delay_pkt_bad_crc never passes below zero.
THEOREM TypeCorrect == Spec => []TypeOK
<1>1. Inv => TypeOK
  BY Zenon DEF Inv
<1>2. QED
  BY <1>1, Invariance, PTL

\* The array of BUF_SIZE entries is never overrun.
THEOREM ArrayRespected == Spec => []WithinArray
<1>1. Inv => WithinArray
  BY Zenon DEF Inv, RoomInv
<1>2. QED
  BY <1>1, Invariance, PTL

\* Every frame made by get_delay_pkt_bad_crc has a size the device can send.
THEOREM FramesLegal == Spec => []FrameLegal
<1>1. Inv => FrameLegal
  BY Zenon DEF Inv
<1>2. QED
  BY <1>1, Invariance, PTL

\* Packets are never spaced further apart than requested.
THEOREM NotSlower == Spec => []NeverSlower
<1>1. Inv => NeverSlower
  BY Zenon DEF Inv, DelayInv
<1>2. QED
  BY <1>1, Invariance, PTL

\* The delay lost is bounded: less than one minimal frame for each gap that
\* is too long for a single frame, and nothing otherwise.
THEOREM NotMuchFaster == Spec => []HardlyFaster
<1>1. Inv => HardlyFaster
  BY Zenon DEF Inv, DelayInv, HardlyFaster
<1>2. QED
  BY <1>1, Invariance, PTL
-----------------------------------------------------------------------------
(* The software rate limiter.  First, induction over the naturals on sets  *)

\* A nonempty set of naturals has a least element.
LEMMA Least ==
    ASSUME NEW T \in SUBSET Nat, T # {}
    PROVE  \E x \in T : \A y \in T : x <= y
<1> DEFINE R == OpToRel(<, Nat)
<1>1. IsWellFoundedOn(R, Nat)
  BY NatLessThanWellFounded, Zenon
<1>2. \A x, y \in Nat : x < y => <<x, y>> \in R
  BY Zenon DEF OpToRel
<1> HIDE DEF R
<1>3. PICK x \in T : \A y \in T : ~(<<y, x>> \in R)
  BY <1>1, WFMin, Zenon
<1>4. \A y \in T : ~(y < x)
  BY <1>2, <1>3, Zenon
<1>5. \A y \in T : x <= y
  BY <1>4
<1>6. QED
  BY <1>5, Zenon

\* A set with 0 and closed under successor is Nat.
LEMMA Induction ==
    ASSUME NEW S \in SUBSET Nat, 0 \in S, \A n \in S : n + 1 \in S
    PROVE  S = Nat
<1> SUFFICES ASSUME S # Nat PROVE FALSE
  BY Zenon
<1>1. PICK x \in Nat \ S : \A y \in Nat \ S : x <= y
  BY Least, Zenon
<1>2. x # 0 /\ x - 1 \in Nat /\ x - 1 \in S
  BY <1>1
<1>3. (x - 1) + 1 = x
  BY <1>1
<1>4. QED
  BY <1>1, <1>2, <1>3, Zenon

\* A packet as the ring holds it, and one handed to the card.
Packets == [id : Nat, gap : Nat]
Records == [id : Nat, gap : Nat, time : Nat, batch : Nat]

\* f[k] is the sum of the first k gaps of s.
GapSums(f, s) ==
    /\ f \in [0 .. Len(s) -> Nat]
    /\ f[0] = 0
    /\ \A k \in 1 .. Len(s) : f[k] = f[k - 1] + s[k].gap

\* The function the recursive definition of Total speaks of.
GapRecursion(f, s) ==
    f = [k \in 0 .. Len(s) |-> IF k = 0 THEN 0 ELSE f[k - 1] + s[k].gap]

\* Total takes the last value of that function.
LEMMA TotalChosen ==
    ASSUME NEW s PROVE Total(s) = (CHOOSE f : GapRecursion(f, s))[Len(s)]
  BY Zenon DEF Total, GapRecursion

\* Whatever function has the partial sums, its last value is the total.
LEMMA TotalIs ==
    ASSUME NEW s \in Seq(Records), NEW f, GapSums(f, s)
    PROVE  Total(s) = f[Len(s)]
<1>1. Len(s) \in Nat
  OBVIOUS
<1>2. GapRecursion(f, s)
  BY <1>1 DEF GapSums, GapRecursion
<1>3. ASSUME NEW h, GapRecursion(h, s) PROVE h = f
  <2> DEFINE S == {k \in Nat : k <= Len(s) => h[k] = f[k]}
  <2>0. /\ 0 \in 0 .. Len(s)
        /\ \A k \in 0 .. Len(s) : h[k] = IF k = 0 THEN 0 ELSE h[k - 1] + s[k].gap
    BY <1>1, <1>3 DEF GapRecursion
  <2>1. 0 \in S
    BY <2>0, Zenon DEF GapSums
  <2>2. ASSUME NEW k \in S PROVE k + 1 \in S
    <3> SUFFICES ASSUME k + 1 <= Len(s) PROVE h[k + 1] = f[k + 1]
      OBVIOUS
    <3>1. k + 1 \in 1 .. Len(s) /\ k + 1 \in 0 .. Len(s) /\ (k + 1) - 1 = k
          /\ k + 1 # 0 /\ h[k] = f[k]
      BY <1>1
    <3>2. QED
      BY <2>0, <3>1 DEF GapSums
  <2>3. S = Nat
    <3>1. S \in SUBSET Nat
      BY Zenon
    <3> HIDE DEF S
    <3>2. QED
      BY <2>1, <2>2, <3>1, Induction, Zenon
  <2>4. \A k \in 0 .. Len(s) : h[k] = f[k]
    BY <1>1, <2>3
  <2>5. h = [k \in 0 .. Len(s) |-> h[k]]
    BY <1>3, Zenon DEF GapRecursion
  <2>6. f = [k \in 0 .. Len(s) |-> f[k]]
    BY Zenon DEF GapSums
  <2>7. QED
    BY <2>4, <2>5, <2>6, Zenon
<1>4. GapRecursion(CHOOSE h : GapRecursion(h, s), s)
  BY <1>2, Zenon
<1>5. (CHOOSE h : GapRecursion(h, s)) = f
  BY <1>3, <1>4, Zenon
<1>6. QED
  BY <1>5, TotalChosen, Zenon

\* One more packet extends the partial sums by its gap.
LEMMA SumsAppend ==
    ASSUME NEW s \in Seq(Records), NEW e \in Records, NEW f, GapSums(f, s)
    PROVE  GapSums([k \in 0 .. Len(s) + 1 |-> IF k = Len(s) + 1 THEN f[Len(s)] + e.gap
                                                               ELSE f[k]],
                   Append(s, e))
<1> DEFINE n == Len(s)
           t == Append(s, e)
           g == [k \in 0 .. n + 1 |-> IF k = n + 1 THEN f[n] + e.gap ELSE f[k]]
<1>1. /\ n \in Nat /\ Len(t) = n + 1 /\ t[n + 1] = e /\ \A k \in 1 .. n : t[k] = s[k]
  OBVIOUS
<1>2. e.gap \in Nat
  BY DEF Records
<1>3. /\ f \in [0 .. n -> Nat] /\ f[0] = 0
      /\ \A k \in 1 .. n : f[k] = f[k - 1] + s[k].gap
  BY Zenon DEF GapSums
<1> HIDE DEF n, t
<1>4. g \in [0 .. n + 1 -> Nat] /\ g[0] = 0
  BY <1>1, <1>2, <1>3
<1>5. ASSUME NEW k \in 1 .. n + 1 PROVE g[k] = g[k - 1] + t[k].gap
  <2>1. CASE k = n + 1
    BY <1>1, <1>2, <1>3, <2>1
  <2>2. CASE k # n + 1
    <3>1. k \in 1 .. n /\ k \in 0 .. n + 1 /\ k - 1 \in 0 .. n + 1 /\ k - 1 # n + 1
      BY <1>1, <2>2
    <3>2. f[k] = f[k - 1] + s[k].gap /\ t[k] = s[k]
      BY <1>1, <1>3, <3>1, Zenon
    <3>3. g[k] = f[k] /\ g[k - 1] = f[k - 1]
      BY <2>2, <3>1, Zenon
    <3>4. QED
      BY <3>2, <3>3, Zenon
  <2>3. QED
    BY <2>1, <2>2, Zenon
<1>6. GapSums(g, t)
  BY <1>1, <1>4, <1>5, Zenon DEF GapSums
<1>7. QED
  BY <1>6, Zenon DEF n, t

\* No packets, no gaps.
LEMMA TotalEmpty == GapSums([k \in 0 .. 0 |-> 0], <<>>) /\ Total(<<>>) = 0
<1>1. GapSums([k \in 0 .. 0 |-> 0], <<>>)
  BY DEF GapSums
<1>2. QED
  BY <1>1, TotalIs

\* Partial sums exist for every sequence of records.
LEMMA GapSumsExist ==
    ASSUME NEW s \in Seq(Records) PROVE \E f : GapSums(f, s)
<1> DEFINE S == {n \in Nat : n <= Len(s) => \E f : GapSums(f, SubSeq(s, 1, n))}
<1>0. Len(s) \in Nat
  OBVIOUS
<1>1. 0 \in S
  <2>1. SubSeq(s, 1, 0) = <<>>
    OBVIOUS
  <2>2. QED
    BY <2>1, TotalEmpty, ZenonT(60)
<1>2. ASSUME NEW n \in S PROVE n + 1 \in S
  <2> SUFFICES ASSUME n + 1 <= Len(s) PROVE \E f : GapSums(f, SubSeq(s, 1, n + 1))
    OBVIOUS
  <2> DEFINE a == SubSeq(s, 1, n)
  <2>1. n \in Nat /\ n + 1 \in 1 .. Len(s) /\ n <= Len(s)
    BY <1>0
  <2>2. a \in Seq(Records) /\ s[n + 1] \in Records
    BY <2>1
  <2>3. SubSeq(s, 1, n + 1) = Append(a, s[n + 1])
    BY <2>1
  <2>4. PICK f : GapSums(f, a)
    BY <2>1, Zenon
  <2> HIDE DEF a
  <2>5. QED
    BY <2>2, <2>3, <2>4, SumsAppend, Zenon
<1>3. S = Nat
  <2>1. S \in SUBSET Nat
    BY Zenon
  <2> HIDE DEF S
  <2>2. QED
    BY <1>1, <1>2, <2>1, Induction, Zenon
<1>4. \E f : GapSums(f, SubSeq(s, 1, Len(s)))
  <2>1. Len(s) \in S
    BY <1>0, <1>3, Zenon
  <2>2. Len(s) <= Len(s)
    BY <1>0
  <2>3. QED
    BY <2>1, <2>2, Zenon
<1>5. SubSeq(s, 1, Len(s)) = s
  OBVIOUS
<1>6. QED
  BY <1>4, <1>5, Zenon

\* The total is a number, and one more packet adds its gap to it.
LEMMA TotalAppend ==
    ASSUME NEW s \in Seq(Records), NEW e \in Records
    PROVE  Total(s) \in Nat /\ Total(Append(s, e)) = Total(s) + e.gap
<1>1. PICK f : GapSums(f, s)
  BY GapSumsExist, Zenon
<1>2. Total(s) = f[Len(s)]
  BY <1>1, TotalIs, Zenon
<1>3. PICK g : /\ g = [k \in 0 .. Len(s) + 1 |-> IF k = Len(s) + 1 THEN f[Len(s)] + e.gap
                                                               ELSE f[k]]
               /\ GapSums(g, Append(s, e))
  BY <1>1, SumsAppend, Zenon
<1>4. Append(s, e) \in Seq(Records) /\ Len(Append(s, e)) = Len(s) + 1 /\ Len(s) \in Nat
  OBVIOUS
<1>5. Total(Append(s, e)) = g[Len(s) + 1]
  BY <1>3, <1>4, TotalIs, Zenon
<1>6. g[Len(s) + 1] = f[Len(s)] + e.gap
  BY <1>3, <1>4
<1>7. f[Len(s)] \in Nat
  BY <1>1, <1>4 DEF GapSums
<1>8. QED
  BY <1>2, <1>5, <1>6, <1>7, Zenon

\* Parts of a sequence, and parts of one that has grown by an element.
LEMMA PartAppend ==
    ASSUME NEW s \in Seq(Records), NEW e \in Records, NEW j \in 1 .. Len(s) + 1
    PROVE  /\ \A k \in 0 .. Len(s) : /\ SubSeq(s, j, k) \in Seq(Records)
                                     /\ SubSeq(Append(s, e), j, k) = SubSeq(s, j, k)
           /\ SubSeq(Append(s, e), j, Len(s) + 1) = Append(SubSeq(s, j, Len(s)), e)
<1> DEFINE n == Len(s)
           t == Append(s, e)
<1>1. /\ n \in Nat /\ t \in Seq(Records) /\ Len(t) = n + 1
      /\ t[n + 1] = e /\ \A k \in 1 .. n : t[k] = s[k]
  OBVIOUS
<1>2. ASSUME NEW k \in 0 .. n
      PROVE  SubSeq(s, j, k) \in Seq(Records) /\ SubSeq(t, j, k) = SubSeq(s, j, k)
  BY <1>1
<1>3. SubSeq(t, j, n + 1) = Append(SubSeq(s, j, n), e)
  BY <1>1
<1>4. QED
  BY <1>2, <1>3, Zenon

\* The total of a part that has grown by an element.
LEMMA PartTotal ==
    ASSUME NEW s \in Seq(Records), NEW e \in Records, NEW j \in 1 .. Len(s) + 1
    PROVE  /\ Total(SubSeq(s, j, Len(s))) \in Nat
           /\ Total(SubSeq(Append(s, e), j, Len(s) + 1)) = Total(SubSeq(s, j, Len(s))) + e.gap
<1>1. Len(s) \in 0 .. Len(s)
  OBVIOUS
<1>2. SubSeq(s, j, Len(s)) \in Seq(Records)
  BY <1>1, PartAppend, Zenon
<1>3. SubSeq(Append(s, e), j, Len(s) + 1) = Append(SubSeq(s, j, Len(s)), e)
  BY PartAppend, Zenon
<1>4. QED
  BY <1>2, <1>3, TotalAppend, Zenon

\* The state of the limiter, with the records the proofs speak about.
SoftTypes ==
    /\ pending \in Seq(Packets) /\ ring \in Seq(Packets)
    /\ queued \in Seq(Packets) /\ bufs \in Seq(Packets)
    /\ sent \in Seq(Records) /\ started \in Seq(Nat)
    /\ pos \in Nat \ {0} /\ cur_batch_size \in Nat \ {0}
    /\ now \in Nat /\ next_send \in Nat /\ count \in Nat
    /\ step \in {"loop", "dequeue", "restart", "gap", "wait", "tx", "retry", "count", "check", "exit"}

\* Which packet of the batch the limiter is at.
SoftPosition ==
    /\ step \in {"gap", "wait", "tx", "retry"} => pos \in 1 .. Len(bufs)
    /\ step \in {"loop", "dequeue", "restart", "check"} => pos = 1
    /\ step \in {"loop", "dequeue", "check"} => bufs = <<>>
    /\ step = "count" => pos = Len(bufs) + 1
    /\ step = "gap" => mode = "custom"
    /\ step = "restart" => mode # "custom"

\* The packets of the current batch are in sent already, up to position i.
SoftCounted ==
    /\ count <= Len(sent)
    /\ step # "exit" => Len(sent) = count + (pos - 1)

\* The time x is late enough for all gaps of the batch last begun that lie
\* behind packets already sent, but for the 10 ms that may be made up for.
PassedBy(x, se, st) ==
    \A j \in 1 .. Len(se) + 1 :
       (j <= Len(se) => se[j].batch = Len(st)) =>
          x >= st[Len(st)] - Restart + Total(SubSeq(se, j, Len(se)))

\* The packets of every batch are as far apart as CatchUpBounded says.
CatchUp(se, st) ==
    \A j, k \in 1 .. Len(se) :
       j <= k /\ se[j].batch = se[k].batch =>
          se[k].time >= st[se[k].batch] - Restart + Total(SubSeq(se, j, k - 1))

\* Every packet belongs to a batch that was begun.
Batched(se, st) == \A k \in 1 .. Len(se) : se[k].batch \in 1 .. Len(st)

\* Modes "cbr" and "poisson": the schedule of the current batch.
Pace ==
    mode # "custom" =>
       /\ Batched(sent, started) /\ CatchUp(sent, started)
       /\ step \in {"wait", "tx", "retry"} => Len(started) > 0
       /\ step = "wait" => PassedBy(next_send, sent, started)
       /\ step \in {"tx", "retry"} => /\ PassedBy(now, sent, started)
                                    /\ PassedBy(next_send - bufs[pos].gap, sent, started)

\* Mode "custom": next_send is the sum of the gaps up to the next packet.
Owed ==
    mode = "custom" =>
       /\ step \in {"loop", "dequeue", "gap", "count", "check"} => next_send = Start + Total(sent)
       /\ step \in {"wait", "tx", "retry"} => next_send = Start + Total(sent) + bufs[pos].gap
       /\ step \in {"tx", "retry"} => now >= next_send

-----------------------------------------------------------------------------
\* What has passed by some time has passed at any later time.
LEMMA PassedLater ==
    ASSUME NEW se \in Seq(Records), NEW st \in Seq(Nat), Len(st) > 0,
           NEW x \in Int, NEW y \in Int, x <= y, PassedBy(x, se, st)
    PROVE  PassedBy(y, se, st)
<1>0. Restart \in Nat
  BY LimiterAssumption, Zenon
<1>1. st[Len(st)] \in Nat
  OBVIOUS
<1> SUFFICES ASSUME NEW j \in 1 .. Len(se) + 1, j <= Len(se) => se[j].batch = Len(st)
             PROVE  y >= st[Len(st)] - Restart + Total(SubSeq(se, j, Len(se)))
  BY Zenon DEF PassedBy
<1>2. Total(SubSeq(se, j, Len(se))) \in Nat
  <2>1. SubSeq(se, j, Len(se)) \in Seq(Records)
    OBVIOUS
  <2>2. [id |-> 0, gap |-> 0, time |-> 0, batch |-> 0] \in Records
    BY DEF Records
  <2>3. QED
    BY <2>1, <2>2, TotalAppend, Zenon
<1>3. x >= st[Len(st)] - Restart + Total(SubSeq(se, j, Len(se)))
  BY Zenon DEF PassedBy
<1> DEFINE a == st[Len(st)]
           b == Total(SubSeq(se, j, Len(se)))
<1> HIDE DEF a, b
<1>4. a \in Nat /\ b \in Nat /\ x >= a - Restart + b
  BY <1>1, <1>2, <1>3, Zenon DEF a, b
<1>5. y >= a - Restart + b
  BY <1>0, <1>4
<1>6. QED
  BY <1>5, Zenon DEF a, b

\* A batch just begun has no packets yet.
LEMMA PassedFresh ==
    ASSUME NEW se \in Seq(Records), NEW st \in Seq(Nat), NEW t \in Nat,
           Batched(se, st), NEW x \in Nat, x >= t - Restart
    PROVE  PassedBy(x, se, Append(st, t))
<1>0. Restart \in Nat
  BY LimiterAssumption, Zenon
<1>1. /\ Len(Append(st, t)) = Len(st) + 1 /\ Append(st, t)[Len(st) + 1] = t
      /\ Len(st) \in Nat /\ Len(se) \in Nat
  OBVIOUS
<1> SUFFICES ASSUME NEW j \in 1 .. Len(se) + 1, j <= Len(se) => se[j].batch = Len(st) + 1
             PROVE  x >= t - Restart + Total(SubSeq(se, j, Len(se)))
  BY <1>1, Zenon DEF PassedBy
<1>2. ~(j <= Len(se))
  BY <1>1 DEF Batched
<1>3. SubSeq(se, j, Len(se)) = <<>>
  BY <1>1, <1>2
<1>4. Total(SubSeq(se, j, Len(se))) = 0
  BY <1>3, TotalEmpty, Zenon
<1>5. QED
  BY <1>0, <1>4

\* One more packet of the batch: its gap must pass as well.
LEMMA PassedSent ==
    ASSUME NEW se \in Seq(Records), NEW st \in Seq(Nat), Len(st) > 0,
           NEW e \in Records, e.batch = Len(st), NEW x \in Int, PassedBy(x, se, st)
    PROVE  PassedBy(x + e.gap, Append(se, e), st)
<1> DEFINE n == Len(se)
           a == st[Len(st)] - Restart
           p(j) == Total(SubSeq(se, j, n))
           q(j) == Total(SubSeq(Append(se, e), j, n + 1))
<1>1. /\ n \in Nat /\ Len(Append(se, e)) = n + 1
      /\ \A k \in 1 .. n : Append(se, e)[k] = se[k]
  OBVIOUS
<1>2. a \in Int /\ e.gap \in Nat
  <2>1. st[Len(st)] \in Nat
    OBVIOUS
  <2>2. QED
    BY <2>1, LimiterAssumption DEF Records
<1>3. \A j \in 1 .. n + 1 : p(j) \in Nat /\ q(j) = p(j) + e.gap
  BY PartTotal, Zenon
<1>4. \A j \in 1 .. n + 1 : (j <= n => se[j].batch = Len(st)) => x >= a + p(j)
  BY Zenon DEF PassedBy
<1>5. q(n + 2) = 0
  <2>1. SubSeq(Append(se, e), n + 2, n + 1) = <<>>
    BY <1>1
  <2>2. QED
    BY <2>1, TotalEmpty, Zenon
<1> SUFFICES ASSUME NEW j \in 1 .. n + 2,
                    j <= n + 1 => Append(se, e)[j].batch = Len(st)
             PROVE  x + e.gap >= a + q(j)
  <2>1. (n + 1) + 1 = n + 2
    BY <1>1
  <2>2. QED
    BY <1>1, <2>1, Zenon DEF PassedBy
<1>6. n + 1 \in 1 .. n + 1 /\ ~(n + 1 <= n)
  BY <1>1
<1>7. x >= a + p(n + 1) /\ p(n + 1) \in Nat
  BY <1>3, <1>4, <1>6, Zenon
<1>8. CASE j = n + 2
  <2> HIDE DEF p, q, a, n
  <2>1. QED
    BY <1>2, <1>5, <1>7, <1>8, SMTT(30)
<1>9. CASE j # n + 2
  <2>1. j \in 1 .. n + 1
    BY <1>1, <1>9
  <2>2. j <= n => se[j].batch = Len(st)
    <3> SUFFICES ASSUME j <= n PROVE se[j].batch = Len(st)
      BY Zenon
    <3>1. j \in 1 .. n /\ j <= n + 1
      BY <1>1, <2>1
    <3>2. QED
      BY <1>1, <3>1, Zenon
  <2>3. x >= a + p(j) /\ p(j) \in Nat /\ q(j) = p(j) + e.gap
    BY <1>3, <1>4, <2>1, <2>2, Zenon
  <2> HIDE DEF p, q, a, n
  <2>4. QED
    BY <1>2, <2>3, SMTT(30)
<1>10. QED
  BY <1>8, <1>9, Zenon

\* A packet sent when the gaps in front of it have passed keeps its distance
\* from all packets of its batch.
LEMMA CatchUpSent ==
    ASSUME NEW se \in Seq(Records), NEW st \in Seq(Nat), NEW e \in Records,
           e.batch = Len(st), CatchUp(se, st), PassedBy(e.time, se, st)
    PROVE  CatchUp(Append(se, e), st)
<1> DEFINE n == Len(se)
           t == Append(se, e)
<1>1. /\ n \in Nat /\ Len(t) = n + 1 /\ t[n + 1] = e
      /\ \A k \in 1 .. n : t[k] = se[k]
  OBVIOUS
<1>2. \A j \in 1 .. n + 1 : \A k \in 0 .. n : SubSeq(t, j, k) = SubSeq(se, j, k)
  BY PartAppend, Zenon
<1> HIDE DEF t
<1> SUFFICES ASSUME NEW j \in 1 .. n + 1, NEW k \in 1 .. n + 1, j <= k,
                    t[j].batch = t[k].batch
             PROVE  t[k].time >= st[t[k].batch] - Restart + Total(SubSeq(t, j, k - 1))
  BY <1>1, Zenon DEF CatchUp, t
<1>3. SubSeq(t, j, k - 1) = SubSeq(se, j, k - 1)
  <2>1. k - 1 \in 0 .. n
    BY <1>1
  <2>2. QED
    BY <1>2, <2>1, Zenon
<1>4. CASE k = n + 1
  <2>1. t[k] = e /\ k - 1 = n
    BY <1>1, <1>4
  <2>2. j <= n => se[j].batch = Len(st)
    <3> SUFFICES ASSUME j <= n PROVE se[j].batch = Len(st)
      BY Zenon
    <3>1. j \in 1 .. n
      BY <1>1
    <3>2. QED
      BY <1>1, <2>1, <3>1, Zenon
  <2>3. e.time >= st[Len(st)] - Restart + Total(SubSeq(se, j, n))
    BY <2>2, Zenon DEF PassedBy
  <2>4. QED
    BY <1>3, <2>1, <2>3, Zenon
<1>5. CASE k # n + 1
  <2>1. j \in 1 .. n /\ k \in 1 .. n
    BY <1>1, <1>5
  <2>2. t[j] = se[j] /\ t[k] = se[k]
    BY <1>1, <2>1, Zenon
  <2>3. se[k].time >= st[se[k].batch] - Restart + Total(SubSeq(se, j, k - 1))
    BY <2>1, <2>2, Zenon DEF CatchUp
  <2>4. QED
    BY <1>3, <2>2, <2>3, Zenon
<1>6. QED
  BY <1>4, <1>5, Zenon

\* The start of a batch changes nothing for the batches before it.
LEMMA BatchBegun ==
    ASSUME NEW se \in Seq(Records), NEW st \in Seq(Nat), NEW t \in Nat,
           Batched(se, st), CatchUp(se, st)
    PROVE  Batched(se, Append(st, t)) /\ CatchUp(se, Append(st, t))
<1> DEFINE u == Append(st, t)
<1>1. /\ Len(st) \in Nat /\ Len(u) = Len(st) + 1 /\ \A k \in 1 .. Len(st) : u[k] = st[k]
  OBVIOUS
<1> HIDE DEF u
<1>2. \A k \in 1 .. Len(se) : se[k].batch \in 1 .. Len(st)
  BY Zenon DEF Batched
<1>3. 1 .. Len(st) \subseteq 1 .. Len(u)
  BY <1>1
<1>4. Batched(se, u)
  BY <1>2, <1>3, Zenon DEF Batched
<1>5. CatchUp(se, u)
  BY <1>1, <1>2, Zenon DEF CatchUp
<1>6. QED
  BY <1>4, <1>5, Zenon DEF u
-----------------------------------------------------------------------------
\* Types, position and count: what the other parts of the invariant build on.
Base == SoftTypes /\ SoftPosition /\ SoftCounted

\* The fields of a packet are numbers.
LEMMA PacketAt ==
    ASSUME NEW s \in Seq(Packets), NEW k \in 1 .. Len(s)
    PROVE  s[k] \in Packets /\ s[k].id \in Nat /\ s[k].gap \in Nat
<1>1. s[k] \in Packets
  OBVIOUS
<1>2. QED
  BY <1>1, Zenon DEF Packets

\* A gap behind a packet is a number.
LEMMA GapAfterNat == ASSUME NEW g \in GapAfter PROVE g \in Nat
  BY LimiterAssumption DEF GapAfter

\* What the task does, the end of the program and the passing of time: the
\* limiter stays as it is.
LEMMA TaskStep ==
    ASSUME SoftTypes,
           \/ \E n \in Sizes : SendN(n)
           \/ Enqueue \/ GiveUp \/ Stop \/ EndProgram \/ Tick \/ UNCHANGED softVars
    PROVE  UNCHANGED <<mode, limiter>> /\ now' \in Nat /\ now' >= now
<1>0. now \in Nat
  BY Zenon DEF SoftTypes
<1>1. CASE \E n \in Sizes : SendN(n)
  BY <1>0, <1>1 DEF SendN, control
<1>2. CASE Enqueue \/ GiveUp \/ Stop \/ EndProgram
  BY <1>0, <1>2 DEF Enqueue, GiveUp, Stop, EndProgram, control
<1>3. CASE Tick \/ UNCHANGED softVars
  BY <1>0, <1>3 DEF Tick, softVars, control
<1>4. QED
  BY <1>1, <1>2, <1>3, Zenon

\* The sequences of the task stay sequences of packets.
LEMMA TaskTypes ==
    ASSUME SoftTypes,
           \/ \E n \in Sizes : SendN(n)
           \/ Enqueue \/ GiveUp \/ Stop \/ EndProgram \/ Tick \/ UNCHANGED softVars
    PROVE  pending' \in Seq(Packets) /\ ring' \in Seq(Packets) /\ queued' \in Seq(Packets)
<1>0. pending \in Seq(Packets) /\ ring \in Seq(Packets) /\ queued \in Seq(Packets)
  BY Zenon DEF SoftTypes
<1>1. CASE \E n \in Sizes : SendN(n)
  <2>1. PICK n \in Sizes : SendN(n)
    BY <1>1, Zenon
  <2>2. PICK gaps \in [1 .. n -> Gaps] :
           pending' = [k \in 1 .. n |-> [id |-> Len(queued) + k, gap |-> gaps[k]]]
    BY <2>1, Zenon DEF SendN
  <2>3. n \in Nat /\ Gaps \subseteq Nat /\ Len(queued) \in Nat
    BY <1>0, <2>1, LimiterAssumption
  <2>4. \A k \in 1 .. n : [id |-> Len(queued) + k, gap |-> gaps[k]] \in Packets
    <3> SUFFICES ASSUME NEW k \in 1 .. n
                 PROVE  [id |-> Len(queued) + k, gap |-> gaps[k]] \in Packets
      BY Zenon
    <3>1. Len(queued) + k \in Nat
      BY <2>3
    <3>2. gaps[k] \in Nat
      BY <2>2, <2>3, Zenon
    <3>3. QED
      BY <3>1, <3>2, Zenon DEF Packets
  <2>5. pending' \in [1 .. n -> Packets]
    BY <2>2, <2>4, Zenon
  <2>6. pending' \in Seq(Packets)
    BY <2>3, <2>5
  <2>7. ring' = ring /\ queued' = queued
    BY <2>1, Zenon DEF SendN
  <2>8. QED
    BY <1>0, <2>6, <2>7, Zenon
<1>2. CASE Enqueue
  BY <1>0, <1>2 DEF Enqueue
<1>3. CASE GiveUp
  BY <1>0, <1>3 DEF GiveUp
<1>4. CASE Stop \/ EndProgram \/ Tick \/ UNCHANGED softVars
  BY <1>0, <1>4 DEF Stop, EndProgram, Tick, softVars, task
<1>5. QED
  BY <1>1, <1>2, <1>3, <1>4, Zenon

\* Base holds at the start.
LEMMA BaseInit == ASSUME SoftInit PROVE Base
<1>1. SoftTypes
  BY LimiterAssumption DEF SoftInit, SoftTypes
<1>2. SoftPosition
  BY DEF SoftInit, SoftPosition
<1>3. SoftCounted
  BY DEF SoftInit, SoftCounted
<1>4. QED
  BY <1>1, <1>2, <1>3, Zenon DEF Base

\* Every step keeps Base.
LEMMA BaseStep == ASSUME Base, [SoftNext]_softVars PROVE Base'
<1>0. SoftTypes /\ SoftPosition /\ SoftCounted
  BY Zenon DEF Base
<1>1. CASE \/ \E n \in Sizes : SendN(n)
           \/ Enqueue \/ GiveUp \/ Stop \/ EndProgram \/ Tick \/ UNCHANGED softVars
  <2>1. UNCHANGED <<mode, limiter>> /\ now' \in Nat
    BY <1>0, <1>1, TaskStep, Zenon
  <2>2. pending' \in Seq(Packets) /\ ring' \in Seq(Packets) /\ queued' \in Seq(Packets)
    BY <1>0, <1>1, TaskTypes, Zenon
  <2>3. UNCHANGED <<mode, step, cur_batch_size, bufs, pos, next_send, count, sent, started>>
    BY <2>1, Zenon DEF limiter
  <2>4. SoftTypes'
    BY <1>0, <2>1, <2>2, <2>3, Zenon DEF SoftTypes
  <2>5. SoftPosition'
    BY <1>0, <2>3, Zenon DEF SoftPosition
  <2>6. SoftCounted'
    BY <1>0, <2>3, Zenon DEF SoftCounted
  <2>7. QED
    BY <2>4, <2>5, <2>6, Zenon DEF Base
<1>2. CASE Loop
  <2>1. SoftTypes'
    BY <1>0, <1>2, LimiterAssumption DEF SoftTypes, Loop, task
  <2>2. SoftPosition' /\ SoftCounted'
    BY <1>0, <1>2 DEF SoftPosition, SoftCounted, Loop, control
  <2>3. QED
    BY <2>1, <2>2, Zenon DEF Base
<1>3. CASE Dequeue
  <2>1. SoftTypes'
    BY <1>0, <1>3, SMTT(30) DEF SoftTypes, Dequeue
  <2>2. Len(bufs') = cur_batch_size /\ cur_batch_size >= 1 /\ cur_batch_size \in Nat
    BY <1>0, <1>3 DEF SoftTypes, Dequeue
  <2>3. SoftPosition'
    BY <1>0, <1>3, <2>2 DEF SoftPosition, Dequeue, control
  <2>4. SoftCounted'
    BY <1>0, <1>3 DEF SoftPosition, SoftCounted, Dequeue
  <2>5. QED
    BY <2>1, <2>3, <2>4, Zenon DEF Base
<1>4. CASE DequeueNothing
  <2>1. SoftTypes'
    BY <1>0, <1>4, SMTT(30) DEF SoftTypes, DequeueNothing, TryLess, task
  <2>2. SoftPosition' /\ SoftCounted'
    BY <1>0, <1>4 DEF SoftPosition, SoftCounted, DequeueNothing, TryLess, control
  <2>3. QED
    BY <2>1, <2>2, Zenon DEF Base
<1>5. CASE RestartRate
  <2>1. SoftTypes'
    BY <1>0, <1>5 DEF SoftTypes, RestartRate, task
  <2>2. bufs \in Seq(Packets) /\ (bufs # <<>> => Len(bufs) >= 1)
    BY <1>0 DEF SoftTypes
  <2>3. SoftPosition' /\ SoftCounted'
    BY <1>0, <1>5, <2>2 DEF SoftPosition, SoftCounted, RestartRate, control
  <2>4. QED
    BY <2>1, <2>3, Zenon DEF Base
<1>6. CASE AddGap
  <2>1. bufs[pos].gap \in Nat
    <3>1. bufs \in Seq(Packets) /\ pos \in 1 .. Len(bufs)
      BY <1>0, <1>6 DEF SoftTypes, SoftPosition, AddGap
    <3>2. QED
      BY <3>1, PacketAt, Zenon
  <2>2. SoftTypes'
    <3>1. next_send' \in Nat
      <4>1. next_send \in Nat /\ next_send' = next_send + bufs[pos].gap
        BY <1>0, <1>6, Zenon DEF SoftTypes, AddGap
      <4>2. QED
        BY <2>1, <4>1
    <3>2. started' \in Seq(Nat)
      <4>1. started \in Seq(Nat) /\ now \in Nat
        BY <1>0, Zenon DEF SoftTypes
      <4>2. Append(started, now) \in Seq(Nat)
        BY <4>1
      <4>3. QED
        BY <1>6, <4>1, <4>2, Zenon DEF AddGap
    <3>3. step' = "wait" /\ UNCHANGED <<pending, ring, queued, cur_batch_size, bufs, pos, count, sent, now>>
      BY <1>6, Zenon DEF AddGap, task
    <3>4. QED
      BY <1>0, <3>1, <3>2, <3>3, Zenon DEF SoftTypes
  <2>3. SoftPosition' /\ SoftCounted'
    BY <1>0, <1>6 DEF SoftPosition, SoftCounted, AddGap, control
  <2>4. QED
    BY <2>2, <2>3, Zenon DEF Base
<1>7. CASE Wait
  <2>1. PICK g \in GapAfter :
           /\ next_send' = next_send + g
           /\ bufs' = IF mode = "custom" THEN bufs ELSE [bufs EXCEPT ![pos].gap = g]
    BY <1>7, Zenon DEF Wait
  <2>2. g \in Nat
    BY GapAfterNat, Zenon
  <2>3. bufs' \in Seq(Packets) /\ Len(bufs') = Len(bufs)
    <3>1. bufs \in Seq(Packets) /\ pos \in 1 .. Len(bufs)
      BY <1>0, <1>7 DEF SoftTypes, SoftPosition, Wait
    <3>2. bufs[pos] \in Packets
      BY <3>1
    <3>3. [bufs[pos] EXCEPT !.gap = g] \in Packets
      BY <2>2, <3>2 DEF Packets
    <3>4. [bufs EXCEPT ![pos].gap = g] = [bufs EXCEPT ![pos] = [bufs[pos] EXCEPT !.gap = g]]
      BY <3>1, Zenon
    <3>5. /\ [bufs EXCEPT ![pos] = [bufs[pos] EXCEPT !.gap = g]] \in Seq(Packets)
          /\ Len([bufs EXCEPT ![pos] = [bufs[pos] EXCEPT !.gap = g]]) = Len(bufs)
      BY <3>1, <3>3
    <3>6. QED
      BY <2>1, <3>1, <3>4, <3>5, Zenon
  <2>4. SoftTypes'
    BY <1>0, <1>7, <2>1, <2>2, <2>3, SMTT(30) DEF SoftTypes, Wait, task
  <2>5. SoftPosition' /\ SoftCounted'
    BY <1>0, <1>7, <2>3 DEF SoftPosition, SoftCounted, Wait, control
  <2>6. QED
    BY <2>4, <2>5, Zenon DEF Base
<1>8. CASE Transmit
  <2>1. /\ bufs \in Seq(Packets) /\ pos \in 1 .. Len(bufs) /\ sent \in Seq(Records)
        /\ started \in Seq(Nat) /\ now \in Nat
    BY <1>0, <1>8 DEF SoftTypes, SoftPosition, Transmit
  <2>2. bufs[pos].id \in Nat /\ bufs[pos].gap \in Nat /\ Len(started) \in Nat
    <3>1. bufs[pos].id \in Nat /\ bufs[pos].gap \in Nat
      BY <2>1, PacketAt, Zenon
    <3>2. Len(started) \in Nat
      BY <2>1
    <3>3. QED
      BY <3>1, <3>2, Zenon
  <2>3. [id |-> bufs[pos].id, gap |-> bufs[pos].gap, time |-> now, batch |-> Len(started)]
           \in Records
    BY <2>1, <2>2 DEF Records
  <2>4. sent' \in Seq(Records) /\ Len(sent') = Len(sent) + 1 /\ Len(sent) \in Nat
    BY <1>8, <2>1, <2>3 DEF Transmit
  <2>5. SoftTypes'
    BY <1>0, <1>8, <2>4 DEF SoftTypes, Transmit, AfterPacket, task
  <2>6. SoftPosition'
    BY <1>0, <1>8, <2>1 DEF SoftPosition, Transmit, AfterPacket, control
  <2>7. SoftCounted'
    BY <1>0, <1>8, <2>1, <2>4 DEF SoftCounted, Transmit, SoftTypes
  <2>8. QED
    BY <2>5, <2>6, <2>7, Zenon DEF Base
<1>9. CASE CardFull \/ Retry \/ Check
  <2>1. SoftTypes'
    BY <1>0, <1>9, SMTT(30) DEF SoftTypes, CardFull, Retry, Check, task
  <2>2. SoftPosition' /\ SoftCounted'
    BY <1>0, <1>9 DEF SoftPosition, SoftCounted, CardFull, Retry, Check, control
  <2>3. QED
    BY <2>1, <2>2, Zenon DEF Base
<1>10. CASE CountPackets
  <2>1. SoftTypes'
    BY <1>0, <1>10 DEF SoftTypes, CountPackets, Counted, task
  <2>2. SoftPosition'
    BY <1>0, <1>10 DEF SoftPosition, CountPackets, control
  <2>3. SoftCounted'
    BY <1>0, <1>10, SMTT(30) DEF SoftPosition, SoftCounted, SoftTypes, CountPackets, Counted
  <2>4. QED
    BY <2>1, <2>2, <2>3, Zenon DEF Base
<1>11. QED
  BY <1>1, <1>2, <1>3, <1>4, <1>5, <1>6, <1>7, <1>8, <1>9, <1>10, Zenon
     DEF SoftNext, Limiter
-----------------------------------------------------------------------------
(* The schedule *)

\* No packet is sent before the gaps up to its own have passed.
Punctual(se) == \A k \in 1 .. Len(se) : se[k].time >= Start + Total(SubSeq(se, 1, k))

\* A packet sent when all gaps have passed is not early either.
LEMMA PunctualSent ==
    ASSUME NEW se \in Seq(Records), NEW e \in Records, Punctual(se),
           e.time >= Start + (Total(se) + e.gap)
    PROVE  Punctual(Append(se, e))
<1> DEFINE n == Len(se)
           t == Append(se, e)
<1>1. /\ n \in Nat /\ Len(t) = n + 1 /\ t[n + 1] = e /\ 1 \in 1 .. n + 1
      /\ \A k \in 1 .. n : t[k] = se[k]
      /\ SubSeq(t, 1, n + 1) = t
  OBVIOUS
<1>2. \A k \in 0 .. n : SubSeq(t, 1, k) = SubSeq(se, 1, k)
  BY <1>1, PartAppend, Zenon
<1>3. Total(t) = Total(se) + e.gap
  BY TotalAppend, Zenon
<1> HIDE DEF t
<1> SUFFICES ASSUME NEW k \in 1 .. n + 1 PROVE t[k].time >= Start + Total(SubSeq(t, 1, k))
  BY <1>1, Zenon DEF Punctual, t
<1>4. CASE k = n + 1
  BY <1>1, <1>3, <1>4, Zenon
<1>5. CASE k # n + 1
  <2>1. k \in 1 .. n /\ k \in 0 .. n
    BY <1>1, <1>5
  <2>2. QED
    BY <1>1, <1>2, <2>1, Zenon DEF Punctual
<1>6. QED
  BY <1>4, <1>5, Zenon

\* Both schedules.
Schedule == Pace /\ Owed /\ (mode = "custom" => Punctual(sent))

\* A step that leaves the schedule alone and does not move the limiter to another
\* point of it.
LEMMA ScheduleKept ==
    ASSUME SoftTypes, SoftPosition, Schedule,
           UNCHANGED <<mode, sent, started, next_send>>, now' \in Nat, now' >= now,
           step' \in {"loop", "dequeue", "gap", "count", "check"}
              => step \in {"loop", "dequeue", "gap", "count", "check"} \/ mode # "custom",
           step' \in {"wait", "tx", "retry"}
              => /\ bufs' = bufs /\ pos' = pos
                 /\ \/ step' = "wait" /\ step = "wait"
                    \/ step' # "wait" /\ step \in {"tx", "retry"}
    PROVE  Schedule'
<1>0. /\ sent \in Seq(Records) /\ started \in Seq(Nat) /\ now \in Nat /\ now \in Int
      /\ next_send \in Nat /\ now' \in Int
  BY DEF SoftTypes
<1>1. Pace'
  <2> SUFFICES ASSUME mode # "custom" PROVE Pace'
    BY Zenon DEF Pace
  <2>1. Batched(sent', started') /\ CatchUp(sent', started')
    BY Zenon DEF Schedule, Pace
  <2>2. ASSUME step' \in {"wait", "tx", "retry"}
        PROVE  /\ Len(started') > 0
               /\ step' = "wait" => PassedBy(next_send', sent', started')
               /\ step' \in {"tx", "retry"} => /\ PassedBy(now', sent', started')
                                             /\ PassedBy(next_send' - bufs'[pos'].gap, sent', started')
    <3>1. /\ step \in {"wait", "tx", "retry"} /\ bufs' = bufs /\ pos' = pos
          /\ Len(started) > 0
      BY <2>2, Zenon DEF Schedule, Pace
    <3>2. step' = "wait" => PassedBy(next_send, sent, started)
      BY <2>2, Zenon DEF Schedule, Pace
    <3>3. step' \in {"tx", "retry"} => /\ PassedBy(now, sent, started)
                                     /\ PassedBy(next_send - bufs[pos].gap, sent, started)
      BY <2>2, Zenon DEF Schedule, Pace
    <3>4. step' \in {"tx", "retry"} => PassedBy(now', sent, started)
      <4>1. now <= now'
        BY <1>0
      <4>2. QED
        BY <1>0, <3>1, <3>3, <4>1, PassedLater, Zenon
    <3>5. QED
      BY <3>1, <3>2, <3>3, <3>4, Zenon
  <2>3. QED
    BY <2>1, <2>2, Zenon DEF Pace
<1>2. Owed'
  <2> SUFFICES ASSUME mode = "custom" PROVE Owed'
    BY Zenon DEF Owed
  <2>1. step' \in {"loop", "dequeue", "gap", "count", "check"}
           => next_send' = Start + Total(sent')
    BY Zenon DEF Schedule, Owed
  <2>2. step' \in {"wait", "tx", "retry"}
           => next_send' = Start + Total(sent') + bufs'[pos'].gap
    BY Zenon DEF Schedule, Owed
  <2>3. step' \in {"tx", "retry"} => now >= next_send
    BY Zenon DEF Schedule, Owed
  <2>4. step' \in {"tx", "retry"} => now' >= next_send'
    BY <1>0, <2>3
  <2>5. QED
    BY <2>1, <2>2, <2>4, Zenon DEF Owed
<1>3. QED
  BY <1>1, <1>2, Zenon DEF Schedule

\* The schedule starts with the time stamp counter.
LEMMA ScheduleInit == ASSUME SoftInit PROVE Schedule
<1>0. sent = <<>> /\ started = <<>> /\ step = "loop" /\ Len(sent) = 0 /\ Total(sent) = 0
      /\ Start \in Nat
  BY TotalEmpty, LimiterAssumption DEF SoftInit
<1>1. Pace
  BY <1>0 DEF Pace, Batched, CatchUp
<1>2. Owed
  <2>1. mode = "custom" => next_send = Start
    BY Zenon DEF SoftInit
  <2>2. QED
    BY <1>0, <2>1 DEF Owed
<1>3. Punctual(sent)
  BY <1>0 DEF Punctual
<1>4. QED
  BY <1>1, <1>2, <1>3, Zenon DEF Schedule

\* The restart at the head of a batch gives up all but 10 ms of the time lost.
LEMMA ScheduleRestart == ASSUME Base, Schedule, RestartRate PROVE Schedule'
<1>0. /\ sent \in Seq(Records) /\ started \in Seq(Nat) /\ now \in Nat /\ next_send \in Nat
      /\ mode # "custom" /\ mode' = mode /\ sent' = sent /\ Restart \in Nat
  BY LimiterAssumption DEF Base, SoftTypes, SoftPosition, RestartRate, control
<1>1. next_send' \in Nat /\ next_send' >= now - Restart
  BY <1>0 DEF RestartRate, Late
<1>2. CASE bufs = <<>>
  <2>1. started' = started /\ step' = "check"
    BY <1>2, Zenon DEF RestartRate
  <2>2. Pace'
    BY <1>0, <2>1 DEF Schedule, Pace
  <2>3. QED
    BY <1>0, <2>2, Zenon DEF Schedule, Owed
<1>3. CASE bufs # <<>>
  <2>1. started' = Append(started, now) /\ step' = "wait"
    BY <1>3, Zenon DEF RestartRate
  <2>2. Batched(sent, started) /\ CatchUp(sent, started)
    BY <1>0, Zenon DEF Schedule, Pace
  <2>3. Batched(sent', started') /\ CatchUp(sent', started')
    BY <1>0, <2>1, <2>2, BatchBegun, Zenon
  <2>4. PassedBy(next_send', sent', started')
    BY <1>0, <1>1, <2>1, <2>2, PassedFresh, Zenon
  <2>5. Len(started') > 0
    BY <1>0, <2>1
  <2>6. Pace'
    BY <2>1, <2>3, <2>4, <2>5 DEF Pace
  <2>7. QED
    BY <1>0, <2>6, Zenon DEF Schedule, Owed
<1>4. QED
  BY <1>2, <1>3, Zenon

\* Mode "custom" adds the gap of the next packet.
LEMMA ScheduleGap == ASSUME Base, Schedule, AddGap PROVE Schedule'
<1>1. /\ mode = "custom" /\ mode' = mode /\ sent' = sent /\ bufs' = bufs /\ pos' = pos
      /\ step' = "wait"
  BY Zenon DEF Base, SoftPosition, AddGap, control
<1>2. next_send' = Start + Total(sent') + bufs'[pos'].gap
  BY <1>1, Zenon DEF AddGap, Schedule, Owed
<1>3. Owed'
  BY <1>1, <1>2 DEF Owed
<1>4. QED
  BY <1>1, <1>3, Zenon DEF Schedule, Pace

\* The wait ends when next_send is reached; the gap behind the packet is added.
LEMMA ScheduleWait == ASSUME Base, Schedule, Wait PROVE Schedule'
<1>0. /\ sent \in Seq(Records) /\ started \in Seq(Nat) /\ now \in Nat /\ next_send \in Nat
      /\ now >= next_send /\ bufs \in Seq(Packets) /\ pos \in 1 .. Len(bufs)
  BY DEF Base, SoftTypes, SoftPosition, Wait, TimeReached
<1>1. /\ step = "wait" /\ step' = "tx" /\ mode' = mode /\ pos' = pos /\ sent' = sent
      /\ started' = started /\ now' = now
  BY Zenon DEF Wait, control
<1>2. PICK g \in GapAfter :
         /\ next_send' = next_send + g
         /\ bufs' = IF mode = "custom" THEN bufs ELSE [bufs EXCEPT ![pos].gap = g]
  BY Zenon DEF Wait
<1>3. g \in Nat
  BY GapAfterNat, Zenon
<1>4. CASE mode = "custom"
  <2>1. g = 0
    BY <1>4 DEF GapAfter
  <2>2. next_send' = next_send /\ bufs' = bufs
    BY <1>0, <1>2, <1>4, <2>1
  <2>3. next_send = Start + Total(sent) + bufs[pos].gap
    BY <1>1, <1>4, Zenon DEF Schedule, Owed
  <2>4. Owed'
    BY <1>0, <1>1, <1>4, <2>2, <2>3 DEF Owed
  <2>5. QED
    BY <1>1, <1>4, <2>4, Zenon DEF Schedule, Pace
<1>5. CASE mode # "custom"
  <2>1. bufs'[pos] .gap = g
    <3>1. bufs' = [bufs EXCEPT ![pos].gap = g]
      BY <1>2, <1>5, Zenon
    <3>2. bufs[pos] \in Packets
      BY <1>0, PacketAt, Zenon
    <3>3. bufs'[pos] = [bufs[pos] EXCEPT !.gap = g]
      BY <1>0, <3>1
    <3>4. QED
      BY <3>2, <3>3, Zenon DEF Packets
  <2>2. next_send' - bufs'[pos'].gap = next_send
    BY <1>0, <1>1, <1>2, <1>3, <2>1
  <2>3. PassedBy(next_send, sent, started) /\ Len(started) > 0
    BY <1>1, <1>5, Zenon DEF Schedule, Pace
  <2>4. PassedBy(now, sent, started)
    <3>1. next_send \in Int /\ now \in Int /\ next_send <= now
      BY <1>0
    <3>2. QED
      BY <1>0, <2>3, <3>1, PassedLater, Zenon
  <2>5. Batched(sent, started) /\ CatchUp(sent, started)
    BY <1>5, Zenon DEF Schedule, Pace
  <2>6. Pace'
    BY <1>1, <2>2, <2>3, <2>4, <2>5 DEF Pace
  <2>7. QED
    BY <1>1, <1>5, <2>6, Zenon DEF Schedule, Owed
<1>6. QED
  BY <1>4, <1>5, Zenon

\* The card takes a packet whose time has come.
LEMMA ScheduleTransmit == ASSUME Base, Schedule, Transmit PROVE Schedule'
<1> DEFINE e == [id |-> bufs[pos].id, gap |-> bufs[pos].gap, time |-> now, batch |-> Len(started)]
<1>0. /\ sent \in Seq(Records) /\ started \in Seq(Nat) /\ now \in Nat /\ next_send \in Nat
      /\ bufs \in Seq(Packets) /\ pos \in 1 .. Len(bufs) /\ Start \in Nat
  BY LimiterAssumption DEF Base, SoftTypes, SoftPosition, Transmit
<1>1. bufs[pos].id \in Nat /\ bufs[pos].gap \in Nat
  BY <1>0, PacketAt, Zenon
<1>2. e \in Records /\ e.gap = bufs[pos].gap /\ e.time = now /\ e.batch = Len(started)
  <2>1. Len(started) \in Nat
    BY <1>0
  <2>2. QED
    BY <1>0, <1>1, <2>1 DEF Records
<1>3. /\ step = "tx" /\ sent' = Append(sent, e) /\ mode' = mode /\ started' = started
      /\ next_send' = next_send
  BY Zenon DEF Transmit, control
<1>4. step' \in {"count", "gap", "wait"} /\ (step' = "gap" => mode = "custom")
      /\ (step' = "wait" => mode # "custom")
  BY Zenon DEF Transmit, AfterPacket
<1> HIDE DEF e
<1>5. CASE mode = "custom"
  <2>1. next_send = Start + Total(sent) + e.gap /\ now >= next_send
    BY <1>2, <1>3, <1>5, Zenon DEF Schedule, Owed
  <2>2. Total(sent) \in Nat /\ Total(sent') = Total(sent) + e.gap
    BY <1>0, <1>2, <1>3, TotalAppend, ZenonT(60)
  <2>3. next_send' = Start + Total(sent') /\ e.time >= Start + (Total(sent) + e.gap)
    BY <1>0, <1>1, <1>2, <1>3, <2>1, <2>2, SMTT(30)
  <2>4. Punctual(sent)
    BY <1>5, Zenon DEF Schedule
  <2>5. Punctual(sent')
    BY <1>0, <1>2, <1>3, <2>3, <2>4, PunctualSent, Zenon
  <2>6. Owed'
    BY <1>3, <1>4, <1>5, <2>3 DEF Owed
  <2>7. QED
    BY <1>3, <1>5, <2>5, <2>6, Zenon DEF Schedule, Pace
<1>6. CASE mode # "custom"
  <2>1. /\ Batched(sent, started) /\ CatchUp(sent, started) /\ Len(started) > 0
        /\ PassedBy(e.time, sent, started)
        /\ PassedBy(next_send - e.gap, sent, started)
    BY <1>2, <1>3, <1>6, Zenon DEF Schedule, Pace
  <2>2. CatchUp(sent', started')
    BY <1>0, <1>2, <1>3, <2>1, CatchUpSent, Zenon
  <2>3. Batched(sent', started')
    <3>1. Len(started) \in 1 .. Len(started)
      BY <1>0, <2>1
    <3>2. /\ Len(sent') = Len(sent) + 1 /\ sent'[Len(sent) + 1] = e
          /\ \A k \in 1 .. Len(sent) : sent'[k] = sent[k]
      BY <1>0, <1>2, <1>3
    <3>3. ASSUME NEW k \in 1 .. Len(sent) + 1 PROVE k = Len(sent) + 1 \/ k \in 1 .. Len(sent)
      BY <1>0
    <3>4. QED
      BY <1>2, <1>3, <2>1, <3>1, <3>2, <3>3, Zenon DEF Batched
  <2>4. PassedBy(next_send', sent', started')
    <3>1. next_send - e.gap \in Int /\ (next_send - e.gap) + e.gap = next_send
      BY <1>0, <1>1, <1>2
    <3>2. PassedBy((next_send - e.gap) + e.gap, Append(sent, e), started)
      BY <1>0, <1>2, <2>1, <3>1, PassedSent, ZenonT(60)
    <3>3. QED
      BY <1>3, <3>1, <3>2, Zenon
  <2>5. Pace'
    BY <1>3, <1>4, <2>1, <2>2, <2>3, <2>4 DEF Pace
  <2>6. QED
    BY <1>3, <1>6, <2>5, Zenon DEF Schedule, Owed
<1>7. QED
  BY <1>5, <1>6, Zenon

\* Every step keeps the schedule.
LEMMA ScheduleStep == ASSUME Base, Schedule, [SoftNext]_softVars PROVE Schedule'
<1>0. SoftTypes /\ SoftPosition /\ now \in Nat /\ now >= now
  BY DEF Base, SoftTypes
<1>1. CASE \/ \E n \in Sizes : SendN(n)
           \/ Enqueue \/ GiveUp \/ Stop \/ EndProgram \/ Tick \/ UNCHANGED softVars
  <2>1. UNCHANGED <<mode, limiter>> /\ now' \in Nat /\ now' >= now
    BY <1>0, <1>1, TaskStep, Zenon
  <2>2. UNCHANGED <<mode, sent, started, next_send>> /\ step' = step /\ bufs' = bufs /\ pos' = pos
    BY <2>1, Zenon DEF limiter
  <2>3. QED
    BY <1>0, <2>1, <2>2, ScheduleKept
<1>2. CASE Loop \/ Dequeue \/ DequeueNothing \/ CardFull \/ Retry \/ CountPackets \/ Check
  <2>1. UNCHANGED <<mode, sent, started, next_send, now>>
    BY <1>2, Zenon
       DEF Loop, Dequeue, DequeueNothing, CardFull, Retry, CountPackets, Check, control
  <2>2. step' \in {"loop", "dequeue", "gap", "count", "check"}
              => step \in {"loop", "dequeue", "gap", "count", "check"} \/ mode # "custom"
    BY <1>2
       DEF Loop, Dequeue, DequeueNothing, CardFull, Retry, CountPackets, Check
  <2>3. step' \in {"wait", "tx", "retry"}
              => /\ bufs' = bufs /\ pos' = pos
                 /\ \/ step' = "wait" /\ step = "wait"
                    \/ step' # "wait" /\ step \in {"tx", "retry"}
    BY <1>2
       DEF Loop, Dequeue, DequeueNothing, CardFull, Retry, CountPackets, Check
  <2>4. now' \in Nat /\ now' >= now
    BY <1>0, <2>1
  <2>5. UNCHANGED <<mode, sent, started, next_send>>
    BY <2>1, Zenon
  <2>6. QED
    BY <1>0, <2>2, <2>3, <2>4, <2>5, ScheduleKept, Zenon
<1>3. QED
  BY <1>1, <1>2, ScheduleRestart, ScheduleGap, ScheduleWait, ScheduleTransmit, Zenon
     DEF SoftNext, Limiter
-----------------------------------------------------------------------------
(* The order of the packets *)

\* The identities of a sequence of packets, one by one.
LEMMA IdsAt ==
    ASSUME NEW s, s \in Seq(Packets) \/ s \in Seq(Records)
    PROVE  /\ Len(s) \in Nat
           /\ Ids(s) \in Seq(Nat) /\ Len(Ids(s)) = Len(s)
           /\ \A k \in 1 .. Len(s) : Ids(s)[k] = s[k].id
<1>1. Len(s) \in Nat
  OBVIOUS
<1>2. \A k \in 1 .. Len(s) : s[k].id \in Nat
  <2> SUFFICES ASSUME NEW k \in 1 .. Len(s) PROVE s[k].id \in Nat
    BY Zenon
  <2>1. s[k] \in Packets \/ s[k] \in Records
    OBVIOUS
  <2>2. QED
    BY <2>1, Zenon DEF Packets, Records
<1>3. Ids(s) \in [1 .. Len(s) -> Nat]
  BY <1>2, Zenon DEF Ids
<1>4. Ids(s) \in Seq(Nat) /\ Len(Ids(s)) = Len(s)
  BY <1>1, <1>3
<1>5. QED
  BY <1>1, <1>4, Zenon DEF Ids

\* Concatenation is associative.
LEMMA Associative ==
    ASSUME NEW a \in Seq(Nat), NEW b \in Seq(Nat), NEW c \in Seq(Nat)
    PROVE  (a \o b) \o c = a \o (b \o c)
  BY SMTT(30)

\* Sequences are equal when they have the same length and elements.
LEMMA SameSeq ==
    ASSUME NEW S, NEW a \in Seq(S), NEW b \in Seq(S), Len(a) = Len(b),
           \A k \in 1 .. Len(a) : a[k] = b[k]
    PROVE  a = b
  OBVIOUS

\* The elements of a concatenation.
LEMMA ConcatAt ==
    ASSUME NEW S, NEW a \in Seq(S), NEW b \in Seq(S)
    PROVE  /\ a \o b \in Seq(S) /\ Len(a \o b) = Len(a) + Len(b)
           /\ \A k \in 1 .. Len(a) : (a \o b)[k] = a[k]
           /\ \A k \in Len(a) + 1 .. Len(a) + Len(b) : (a \o b)[k] = b[k - Len(a)]
  OBVIOUS

\* What enqueue puts behind the ring.
LEMMA IdsConcat ==
    ASSUME NEW s \in Seq(Packets), NEW t \in Seq(Packets)
    PROVE  Ids(s \o t) = Ids(s) \o Ids(t)
<1> DEFINE a == Ids(s \o t)
           b == Ids(s) \o Ids(t)
<1>1. /\ s \o t \in Seq(Packets) /\ Len(s \o t) = Len(s) + Len(t)
      /\ \A k \in 1 .. Len(s) : (s \o t)[k] = s[k]
      /\ \A k \in Len(s) + 1 .. Len(s) + Len(t) : (s \o t)[k] = t[k - Len(s)]
  OBVIOUS
<1>2. /\ Len(s) \in Nat /\ Ids(s) \in Seq(Nat) /\ Len(Ids(s)) = Len(s)
      /\ \A k \in 1 .. Len(s) : Ids(s)[k] = s[k].id
  BY IdsAt, Zenon
<1>3. /\ Len(t) \in Nat /\ Ids(t) \in Seq(Nat) /\ Len(Ids(t)) = Len(t)
      /\ \A k \in 1 .. Len(t) : Ids(t)[k] = t[k].id
  BY IdsAt, Zenon
<1>4. /\ a \in Seq(Nat) /\ Len(a) = Len(s) + Len(t)
      /\ \A k \in 1 .. Len(s) + Len(t) : a[k] = (s \o t)[k].id
  BY <1>1, IdsAt, Zenon
<1>5. /\ b \in Seq(Nat) /\ Len(b) = Len(s) + Len(t)
      /\ \A k \in 1 .. Len(s) : b[k] = Ids(s)[k]
      /\ \A k \in Len(s) + 1 .. Len(s) + Len(t) : b[k] = Ids(t)[k - Len(s)]
  <2> DEFINE p == Ids(s)
             q == Ids(t)
  <2>1. p \in Seq(Nat) /\ q \in Seq(Nat) /\ Len(p) = Len(s) /\ Len(q) = Len(t)
    BY <1>2, <1>3, Zenon
  <2> HIDE DEF p, q
  <2>2. /\ p \o q \in Seq(Nat) /\ Len(p \o q) = Len(p) + Len(q)
        /\ \A k \in 1 .. Len(p) : (p \o q)[k] = p[k]
        /\ \A k \in Len(p) + 1 .. Len(p) + Len(q) : (p \o q)[k] = q[k - Len(p)]
    BY <2>1, ConcatAt, ZenonT(60)
  <2>3. /\ p \o q \in Seq(Nat) /\ Len(p \o q) = Len(s) + Len(t)
        /\ \A k \in 1 .. Len(s) : (p \o q)[k] = p[k]
        /\ \A k \in Len(s) + 1 .. Len(s) + Len(t) : (p \o q)[k] = q[k - Len(s)]
    BY <2>1, <2>2
  <2>4. QED
    BY <2>3, Zenon DEF p, q
<1> HIDE DEF a, b
<1>6. ASSUME NEW k \in 1 .. Len(a) PROVE a[k] = b[k]
  <2>1. CASE k <= Len(s)
    <3>1. k \in 1 .. Len(s) /\ k \in 1 .. Len(s) + Len(t)
      BY <1>2, <1>3, <1>4, <2>1
    <3>2. QED
      BY <1>1, <1>2, <1>4, <1>5, <3>1, ZenonT(60)
  <2>2. CASE ~(k <= Len(s))
    <3>1. /\ k \in Len(s) + 1 .. Len(s) + Len(t) /\ k \in 1 .. Len(s) + Len(t)
          /\ k - Len(s) \in 1 .. Len(t)
      BY <1>2, <1>3, <1>4, <2>2
    <3>2. QED
      BY <1>1, <1>3, <1>4, <1>5, <3>1, Zenon
  <2>3. QED
    BY <2>1, <2>2, Zenon
<1>7. a = b
  BY <1>4, <1>5, <1>6, SameSeq, Zenon
<1>8. QED
  BY <1>7, Zenon DEF a, b

\* Dequeue cuts the ring in two.
LEMMA IdsSplit ==
    ASSUME NEW s \in Seq(Packets), NEW c \in 0 .. Len(s)
    PROVE  /\ SubSeq(s, 1, c) \in Seq(Packets) /\ SubSeq(s, c + 1, Len(s)) \in Seq(Packets)
           /\ Ids(s) = Ids(SubSeq(s, 1, c)) \o Ids(SubSeq(s, c + 1, Len(s)))
<1> DEFINE a == SubSeq(s, 1, c)
           b == SubSeq(s, c + 1, Len(s))
<1>1. /\ a \in Seq(Packets) /\ b \in Seq(Packets)
      /\ Len(a) = c /\ Len(b) = Len(s) - c /\ Len(s) \in Nat
  OBVIOUS
<1>2. s = a \o b
  <2>1. /\ a \o b \in Seq(Packets) /\ Len(a \o b) = Len(a) + Len(b)
        /\ \A k \in 1 .. Len(a) : (a \o b)[k] = a[k]
        /\ \A k \in Len(a) + 1 .. Len(a) + Len(b) : (a \o b)[k] = b[k - Len(a)]
    BY <1>1, ConcatAt, Zenon
  <2>2. /\ \A k \in 1 .. c : a[k] = s[k]
        /\ \A k \in 1 .. Len(s) - c : b[k] = s[c + k]
    OBVIOUS
  <2> HIDE DEF a, b
  <2>3. Len(a \o b) = Len(s)
    BY <1>1, <2>1
  <2>4. ASSUME NEW k \in 1 .. Len(s) PROVE (a \o b)[k] = s[k]
    <3>1. CASE k <= c
      BY <1>1, <2>1, <2>2, <3>1
    <3>2. CASE ~(k <= c)
      <4>1. /\ k \in Len(a) + 1 .. Len(a) + Len(b) /\ k - Len(a) \in 1 .. Len(s) - c
            /\ c + (k - Len(a)) = k
        BY <1>1, <3>2
      <4>2. QED
        BY <2>1, <2>2, <4>1, Zenon
    <3>3. QED
      BY <3>1, <3>2, Zenon
  <2>5. \A k \in 1 .. Len(a \o b) : (a \o b)[k] = s[k]
    BY <2>3, <2>4, Zenon
  <2>6. a \o b = s
    BY <2>1, <2>3, <2>5, SameSeq, Zenon
  <2>7. QED
    BY <2>6, Zenon
<1> HIDE DEF a, b
<1>3. Ids(s) = Ids(a) \o Ids(b)
  BY <1>1, <1>2, IdsConcat, Zenon
<1>4. QED
  BY <1>1, <1>3, Zenon DEF a, b

\* One packet more in sent is one identity more.
LEMMA IdsSent ==
    ASSUME NEW s \in Seq(Records), NEW e \in Records
    PROVE  Ids(Append(s, e)) = Ids(s) \o <<e.id>>
<1> DEFINE t == Append(s, e)
           a == Ids(t)
           b == Ids(s) \o <<e.id>>
           n == Len(s)
<1>1. /\ t \in Seq(Records) /\ Len(t) = n + 1 /\ t[n + 1] = e
      /\ \A k \in 1 .. n : t[k] = s[k]
  OBVIOUS
<1>2. /\ n \in Nat /\ Ids(s) \in Seq(Nat) /\ Len(Ids(s)) = n
      /\ \A k \in 1 .. n : Ids(s)[k] = s[k].id
  BY IdsAt, Zenon
<1>3. a \in Seq(Nat) /\ Len(a) = n + 1 /\ \A k \in 1 .. n + 1 : a[k] = t[k].id
  BY <1>1, IdsAt, Zenon
<1>4. e.id \in Nat
  BY Zenon DEF Records
<1>5. /\ b \in Seq(Nat) /\ Len(b) = n + 1 /\ b[n + 1] = e.id
      /\ \A k \in 1 .. n : b[k] = Ids(s)[k]
  BY <1>2, <1>4
<1> HIDE DEF a, b, t, n
<1>6. ASSUME NEW k \in 1 .. Len(a) PROVE a[k] = b[k]
  <2>1. k \in 1 .. n + 1 /\ (k = n + 1 \/ k \in 1 .. n)
    BY <1>2, <1>3
  <2>2. QED
    BY <1>1, <1>2, <1>3, <1>5, <2>1, ZenonT(60)
<1>7. a = b
  BY <1>3, <1>5, <1>6, SameSeq, Zenon
<1>8. QED
  BY <1>7, Zenon DEF a, b, t

\* The packets of a batch from position k on, without the first of them.
LEMMA IdsRest ==
    ASSUME NEW s \in Seq(Packets), NEW k \in 1 .. Len(s)
    PROVE  /\ SubSeq(s, k, Len(s)) \in Seq(Packets) /\ SubSeq(s, k + 1, Len(s)) \in Seq(Packets)
           /\ Ids(SubSeq(s, k, Len(s))) = <<s[k].id>> \o Ids(SubSeq(s, k + 1, Len(s)))
<1> DEFINE u == SubSeq(s, k + 1, Len(s))
<1>1. s[k] \in Packets /\ s[k].id \in Nat
  BY PacketAt, Zenon
<1>2. /\ <<s[k]>> \in Seq(Packets) /\ Len(<<s[k]>>) = 1 /\ <<s[k]>>[1] = s[k]
      /\ u \in Seq(Packets) /\ SubSeq(s, k, Len(s)) \in Seq(Packets)
  BY <1>1
<1>3. SubSeq(s, k, Len(s)) = <<s[k]>> \o u
  BY <1>1
<1>4. Ids(<<s[k]>>) = <<s[k].id>>
  <2>1. /\ Ids(<<s[k]>>) \in Seq(Nat) /\ Len(Ids(<<s[k]>>)) = 1
        /\ \A m \in 1 .. 1 : Ids(<<s[k]>>)[m] = <<s[k]>>[m].id
    BY <1>2, IdsAt, Zenon
  <2>2. QED
    BY <1>1, <1>2, <2>1
<1> HIDE DEF u
<1>5. Ids(SubSeq(s, k, Len(s))) = Ids(<<s[k]>>) \o Ids(u)
  BY <1>2, <1>3, IdsConcat, Zenon
<1>6. QED
  BY <1>2, <1>4, <1>5, Zenon DEF u

\* The gap written into a packet of the batch does not change its identity.
LEMMA IdsKept ==
    ASSUME NEW s \in Seq(Packets), NEW t \in Seq(Packets), NEW k \in 1 .. Len(s) + 1,
           Len(t) = Len(s), \A m \in 1 .. Len(s) : t[m].id = s[m].id
    PROVE  Ids(SubSeq(t, k, Len(t))) = Ids(SubSeq(s, k, Len(s)))
<1> DEFINE a == SubSeq(s, k, Len(s))
           b == SubSeq(t, k, Len(t))
           n == Len(s) + 1 - k
<1>1. /\ a \in Seq(Packets) /\ Len(a) = n /\ n \in Nat
      /\ \A m \in 1 .. n : a[m] = s[k + m - 1]
  BY SMTT(30)
<1>2. /\ b \in Seq(Packets) /\ Len(b) = n
      /\ \A m \in 1 .. n : b[m] = t[k + m - 1]
  OBVIOUS
<1>3. \A m \in 1 .. n : k + m - 1 \in 1 .. Len(s)
  OBVIOUS
<1> HIDE DEF a, b, n
<1>4. /\ Ids(a) \in Seq(Nat) /\ Len(Ids(a)) = n /\ \A m \in 1 .. n : Ids(a)[m] = a[m].id
  BY <1>1, IdsAt, Zenon
<1>5. /\ Ids(b) \in Seq(Nat) /\ Len(Ids(b)) = n /\ \A m \in 1 .. n : Ids(b)[m] = b[m].id
  BY <1>2, IdsAt, Zenon
<1>6. \A m \in 1 .. n : Ids(b)[m] = Ids(a)[m]
  BY <1>1, <1>2, <1>3, <1>4, <1>5, ZenonT(60)
<1>7. Ids(b) = Ids(a)
  BY <1>4, <1>5, <1>6, SameSeq, Zenon
<1>8. QED
  BY <1>7, Zenon DEF a, b

\* No packet has no identity.
LEMMA IdsNone ==
    /\ Ids(<<>>) = <<>>
    /\ \A a \in Seq(Nat) : a \o <<>> = a
    /\ SubSeq(<<>>, 1, Len(<<>>)) = <<>>
<1>1. Ids(<<>>) = <<>>
  BY DEF Ids
<1>2. QED
  BY <1>1

\* The three pieces of the line of packets are sequences of identities.
LEMMA LineTypes ==
    ASSUME Base
    PROVE  /\ Unsent \in Seq(Packets)
           /\ Ids(sent) \in Seq(Nat) /\ Ids(Unsent) \in Seq(Nat) /\ Ids(ring) \in Seq(Nat)
           /\ Ids(pending) \in Seq(Nat)
<1>1. /\ sent \in Seq(Records) /\ ring \in Seq(Packets) /\ bufs \in Seq(Packets)
      /\ pending \in Seq(Packets) /\ pos \in Nat
  BY DEF Base, SoftTypes
<1>2. pos >= 1
  BY DEF Base, SoftTypes
<1>3. Unsent \in Seq(Packets)
  BY <1>1, <1>2 DEF Unsent
<1>4. QED
  BY <1>1, <1>3, IdsAt, Zenon

\* The line of packets through a step that moves none of them.
LEMMA FifoKept ==
    ASSUME Fifo, UNCHANGED <<sent, ring, queued>>, Ids(Unsent') = Ids(Unsent)
    PROVE  Fifo'
  BY Zenon DEF Fifo

\* Every step keeps the order of the packets.
LEMMA FifoStep == ASSUME Base, Fifo, [SoftNext]_softVars PROVE Fifo'
<1>0. /\ sent \in Seq(Records) /\ ring \in Seq(Packets) /\ bufs \in Seq(Packets)
      /\ pending \in Seq(Packets) /\ queued \in Seq(Packets) /\ cur_batch_size \in Nat
  BY DEF Base, SoftTypes
<1>t. /\ Unsent \in Seq(Packets)
      /\ Ids(sent) \in Seq(Nat) /\ Ids(Unsent) \in Seq(Nat) /\ Ids(ring) \in Seq(Nat)
      /\ Ids(pending) \in Seq(Nat)
  BY LineTypes, Zenon
<1>f. (Ids(sent) \o Ids(Unsent)) \o Ids(ring) = Ids(queued)
  BY Zenon DEF Fifo
<1>1. CASE \/ \E n \in Sizes : SendN(n)
           \/ GiveUp \/ Stop \/ EndProgram \/ Tick \/ UNCHANGED softVars
  <2>1. UNCHANGED <<sent, ring, queued, bufs, pos>>
    BY <1>1, Zenon DEF SendN, GiveUp, Stop, EndProgram, Tick, softVars, task, limiter
  <2>2. QED
    BY <2>1, FifoKept, Zenon DEF Unsent
<1>2. CASE Enqueue
  <2>1. /\ ring' = ring \o pending /\ queued' = queued \o pending
        /\ UNCHANGED <<sent, bufs, pos>>
    BY <1>2, Zenon DEF Enqueue, limiter
  <2>2. Ids(ring') = Ids(ring) \o Ids(pending) /\ Ids(queued') = Ids(queued) \o Ids(pending)
    BY <1>0, <2>1, IdsConcat, Zenon
  <2>3. Unsent' = Unsent
    BY <2>1, Zenon DEF Unsent
  <2>4. Ids(sent) \o Ids(Unsent) \in Seq(Nat)
    BY <1>t, ConcatAt, Zenon
  <2>5. (Ids(sent) \o Ids(Unsent)) \o (Ids(ring) \o Ids(pending)) = Ids(queued) \o Ids(pending)
    <3>1. ((Ids(sent) \o Ids(Unsent)) \o Ids(ring)) \o Ids(pending)
             = (Ids(sent) \o Ids(Unsent)) \o (Ids(ring) \o Ids(pending))
      BY <1>t, <2>4, Associative, ZenonT(60)
    <3>2. QED
      BY <1>f, <3>1, Zenon
  <2>6. QED
    BY <2>1, <2>2, <2>3, <2>5, Zenon DEF Fifo
<1>3. CASE Dequeue
  <2>1. /\ bufs = <<>> /\ pos = 1 /\ pos' = 1 /\ UNCHANGED <<sent, queued>>
        /\ bufs' = SubSeq(ring, 1, cur_batch_size)
        /\ ring' = SubSeq(ring, cur_batch_size + 1, Len(ring))
    BY <1>3, Zenon DEF Dequeue, Base, SoftPosition
  <2>2. cur_batch_size \in 0 .. Len(ring)
    BY <1>0, <1>3 DEF Dequeue
  <2>3. bufs' \in Seq(Packets) /\ Ids(ring) = Ids(bufs') \o Ids(ring') /\ ring' \in Seq(Packets)
    BY <1>0, <2>1, <2>2, IdsSplit, Zenon
  <2>4. Unsent' = bufs'
    <3>1. SubSeq(bufs', 1, Len(bufs')) = bufs'
      BY <2>3
    <3>2. QED
      BY <2>1, <3>1, Zenon DEF Unsent
  <2>5. Ids(Unsent) = <<>> /\ Ids(sent) \o <<>> = Ids(sent)
    BY <1>t, <2>1, IdsNone, Zenon DEF Unsent
  <2>6. Ids(bufs') \in Seq(Nat) /\ Ids(ring') \in Seq(Nat)
    BY <2>3, IdsAt, Zenon
  <2>7. (Ids(sent) \o Ids(bufs')) \o Ids(ring') = Ids(sent) \o Ids(ring)
    <3>1. (Ids(sent) \o Ids(bufs')) \o Ids(ring') = Ids(sent) \o (Ids(bufs') \o Ids(ring'))
      BY <1>t, <2>6, Associative, ZenonT(60)
    <3>2. QED
      BY <2>3, <3>1, Zenon
  <2>8. Ids(sent) \o Ids(ring) = Ids(queued)
    BY <1>f, <2>5, Zenon
  <2>9. QED
    BY <2>1, <2>4, <2>7, <2>8, Zenon DEF Fifo
<1>4. CASE DequeueNothing
  <2>1. UNCHANGED <<sent, ring, queued, bufs, pos>>
    BY <1>4, Zenon DEF DequeueNothing, Base, SoftPosition, task
  <2>2. QED
    BY <2>1, FifoKept, Zenon DEF Unsent
<1>5. CASE Loop \/ RestartRate \/ AddGap \/ CardFull \/ Retry \/ Check
  <2>1. UNCHANGED <<sent, ring, queued, bufs, pos>>
    BY <1>5, Zenon DEF Loop, RestartRate, AddGap, CardFull, Retry, Check, task
  <2>2. QED
    BY <2>1, FifoKept, Zenon DEF Unsent
<1>6. CASE Wait
  <2>1. UNCHANGED <<sent, ring, queued, pos>> /\ pos \in 1 .. Len(bufs)
    BY <1>6, Zenon DEF Wait, task, Base, SoftPosition
  <2>2. PICK g \in GapAfter :
           bufs' = IF mode = "custom" THEN bufs ELSE [bufs EXCEPT ![pos].gap = g]
    BY <1>6, Zenon DEF Wait
  <2>3. bufs' \in Seq(Packets)
    <3>1. Base'
      BY BaseStep, Zenon
    <3>2. QED
      BY <3>1, Zenon DEF Base, SoftTypes
  <2>4. Len(bufs') = Len(bufs)
    BY <1>0, <2>1, <2>2
  <2>5. ASSUME NEW m \in 1 .. Len(bufs) PROVE bufs'[m].id = bufs[m].id
    <3>1. CASE mode = "custom"
      BY <2>2, <3>1, Zenon
    <3>2. CASE mode # "custom" /\ m # pos
      BY <1>0, <2>2, <3>2
    <3>3. CASE mode # "custom" /\ m = pos
      <4>1. bufs[pos] \in Packets
        BY <1>0, <2>1, PacketAt, Zenon
      <4>2. bufs'[pos] = [bufs[pos] EXCEPT !.gap = g]
        <5>1. bufs' = [bufs EXCEPT ![pos].gap = g]
          BY <2>2, <3>3, Zenon
        <5>2. QED
          BY <1>0, <2>1, <5>1, SMTT(30)
      <4>3. QED
        BY <3>3, <4>1, <4>2, Zenon DEF Packets
    <3>4. QED
      BY <3>1, <3>2, <3>3, Zenon
  <2>6. pos \in 1 .. Len(bufs) + 1
    BY <1>0, <2>1
  <2>7. Ids(SubSeq(bufs', pos, Len(bufs'))) = Ids(SubSeq(bufs, pos, Len(bufs)))
    BY <1>0, <2>3, <2>4, <2>5, <2>6, IdsKept, Zenon
  <2>8. QED
    BY <2>1, <2>7, FifoKept, Zenon DEF Unsent
<1>7. CASE Transmit
  <2> DEFINE e == [id |-> bufs[pos].id, gap |-> bufs[pos].gap, time |-> now, batch |-> Len(started)]
             x == <<bufs[pos].id>>
             r == SubSeq(bufs, pos + 1, Len(bufs))
  <2>1. /\ sent' = Append(sent, e) /\ pos' = pos + 1 /\ pos \in 1 .. Len(bufs)
        /\ UNCHANGED <<ring, queued, bufs>>
    BY <1>7, Zenon DEF Transmit, task, Base, SoftPosition
  <2>2. bufs[pos].id \in Nat /\ bufs[pos].gap \in Nat
    BY <1>0, <2>1, PacketAt, Zenon
  <2>3. e \in Records /\ e.id = bufs[pos].id
    <3>1. now \in Nat /\ Len(started) \in Nat
      BY DEF Base, SoftTypes
    <3>2. QED
      BY <2>2, <3>1 DEF Records
  <2>4. x \in Seq(Nat)
    BY <2>2
  <2> HIDE DEF e
  <2>5. Ids(sent') = Ids(sent) \o x
    BY <1>0, <2>1, <2>3, IdsSent, Zenon
  <2>6. Unsent' = r
    BY <2>1, Zenon DEF Unsent
  <2>7. r \in Seq(Packets) /\ Ids(Unsent) = x \o Ids(r)
    BY <1>0, <2>1, IdsRest, Zenon DEF Unsent
  <2> HIDE DEF x, r
  <2>8. Ids(r) \in Seq(Nat)
    BY <2>7, IdsAt, Zenon
  <2>9. (Ids(sent) \o x) \o Ids(r) = Ids(sent) \o Ids(Unsent)
    <3>1. (Ids(sent) \o x) \o Ids(r) = Ids(sent) \o (x \o Ids(r))
      <4>1. PICK a \in Seq(Nat), b \in Seq(Nat), c \in Seq(Nat) :
               a = Ids(sent) /\ b = x /\ c = Ids(r)
        BY <1>t, <2>4, <2>8, Zenon
      <4>2. (a \o b) \o c = a \o (b \o c)
        BY Associative, Zenon
      <4>3. QED
        BY <4>1, <4>2, Zenon
    <3>2. QED
      BY <2>7, <3>1, Zenon
  <2>10. QED
    BY <1>f, <2>1, <2>5, <2>6, <2>9, Zenon DEF Fifo
<1>8. CASE CountPackets
  <2>1. UNCHANGED <<sent, ring, queued>> /\ pos = Len(bufs) + 1 /\ bufs' = <<>> /\ pos' = 1
    BY <1>8, Zenon DEF CountPackets, task, Base, SoftPosition
  <2>2. Unsent = <<>>
    BY <1>0, <2>1 DEF Unsent
  <2>3. Unsent' = <<>>
    BY <2>1, IdsNone, Zenon DEF Unsent
  <2>4. QED
    BY <2>1, <2>2, <2>3, FifoKept, Zenon
<1>9. QED
  BY <1>1, <1>2, <1>3, <1>4, <1>5, <1>6, <1>7, <1>8, Zenon DEF SoftNext, Limiter

\* The line of packets is empty at the start.
LEMMA FifoInit == ASSUME SoftInit PROVE Fifo
<1>1. sent = <<>> /\ ring = <<>> /\ queued = <<>> /\ bufs = <<>> /\ pos = 1
  BY Zenon DEF SoftInit
<1>2. Unsent = <<>>
  BY <1>1, IdsNone, Zenon DEF Unsent
<1>3. <<>> \o <<>> = <<>>
  OBVIOUS
<1>4. QED
  BY <1>1, <1>2, <1>3, IdsNone, Zenon DEF Fifo
-----------------------------------------------------------------------------
\* The position in the batch, both schedules and the order of the packets are
\* kept by the task and the limiter together.
LEMMA LimiterInv ==
    SoftSpec => [](Base /\ Schedule /\ Fifo)
<1>1. SoftInit => Base /\ Schedule /\ Fifo
  BY BaseInit, ScheduleInit, FifoInit, Zenon
<1>2. Base /\ Schedule /\ Fifo /\ [SoftNext]_softVars => (Base /\ Schedule /\ Fifo)'
  BY BaseStep, ScheduleStep, FifoStep, Zenon
<1>3. QED
  BY <1>1, <1>2, PTL DEF SoftSpec

\* Modes "cbr" and "poisson": the packets of a batch keep the gaps between them,
\* but for the 10 ms that the restart of next_send in main_loop_cbr and
\* main_loop_poisson lets them make up for, whatever the card refuses and
\* however late the thread looks at the clock.
THEOREM CatchUpBoundedHolds == SoftSpec => []CatchUpBounded
<1>1. Schedule => CatchUpBounded
  BY Zenon DEF Schedule, Pace, CatchUp, CatchUpBounded
<1>2. QED
  BY <1>1, LimiterInv, PTL

\* Mode "custom": main_loop never sends a packet before all gaps up to its own
\* have passed since it began.
THEOREM NotEarlyHolds == SoftSpec => []NotEarly
<1>1. Schedule => NotEarly
  BY Zenon DEF Schedule, Punctual, NotEarly
<1>2. QED
  BY <1>1, LimiterInv, PTL

\* Packets leave in the order in which send put them into the ring; none is
\* skipped, doubled or lost between the ring, the batch and the card.
THEOREM FifoHolds == SoftSpec => []Fifo
  BY LimiterInv, PTL

\* ctl->count never runs ahead of the packets handed to the card and is exact
\* between two batches.
THEOREM CountMatchesHolds == SoftSpec => []CountMatches
<1>1. Base => CountMatches
  <2> SUFFICES ASSUME Base PROVE CountMatches
    BY Zenon
  <2>1. count <= Len(sent)
    BY Zenon DEF Base, SoftCounted
  <2>2. step \in {"loop", "dequeue", "restart", "check"} => count = Len(sent)
    BY DEF Base, SoftTypes, SoftPosition, SoftCounted
  <2>3. QED
    BY <2>1, <2>2, Zenon DEF CountMatches
<1>2. QED
  BY <1>1, LimiterInv, PTL
=============================================================================

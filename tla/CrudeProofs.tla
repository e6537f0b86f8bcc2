---------------------------- MODULE CrudeProofs ----------------------------
(***************************************************************************)
(* What crude reports is right for every set of flows, numbers and delays  *)
(* and for any number of packets: the numbers printed are the lowest and   *)
(* the highest received, without duplicates the number of lost packets is  *)
(* exact, and the average delay is the one of the delays received.  The    *)
(* whole program implements these statistics, reports what it gathered     *)
(* however it ends, and prints what it recorded.                           *)
(***************************************************************************)
EXTENDS Crude, TLAPS

(* The statistics of the sequence numbers *)

\* Before its first packet a flow has the initial numbers and nothing received.
FreshInv ==
    \A f \in Flows : flows[f].rec = 0 =>
       seqs[f] = {} /\ flows[f].seq = ULONG_MAX /\ flows[f].seqmin = ULONG_MAX

\* While a packet is being classified the numbers are those of the packets
\* before it.
UpdatingInv ==
    \A f \in Flows : Updating(f) =>
       /\ flows[f].rec > 0
       /\ pkt.seq \in seqs[f]
       /\ \/ /\ flows[f].rec = 1 /\ seqs[f] = {pkt.seq}
             /\ flows[f].seq = ULONG_MAX /\ flows[f].seqmin = ULONG_MAX
          \/ /\ flows[f].rec # 1
             /\ {flows[f].seqmin, flows[f].seq} \subseteq seqs[f]
             /\ \A n \in seqs[f] \ {pkt.seq} : flows[f].seqmin <= n /\ n <= flows[f].seq

\* The history variable quiet is only ever cleared by the handler, and not when
\* it interrupts the reception.
QuietInv == pc \notin {"print", "exit"} => quiet

\* What was printed comes from the statistics, which do not change any more.
PrintedInv == pc = "exit" => \A f \in Flows : printed[f].lost = Lost(flows[f])

Inv == TypeOK /\ FreshInv /\ UpdatingInv /\ SeqRange /\ QuietInv /\ PrintedInv
-----------------------------------------------------------------------------
\* Sequence numbers are natural numbers below the initial value of seq, seqmin.
LEMMA NumberFacts ==
    /\ ULONG_MAX \in Nat
    /\ \A n \in Numbers : n \in Nat /\ n < ULONG_MAX
BY CrudeAssumption DEF CrudeAssumption, ULONG_MAX

\* A packet has a number and a delay.
LEMMA PacketFacts ==
    ASSUME NEW p \in Packets
    PROVE  p.seq \in Numbers /\ p.delay.sec \in Int /\ p.delay.usec \in Int
BY CrudeAssumption, Zenon DEF CrudeAssumption, Packets

\* What runtime_stats does to the numbers of a flow (main.c, 549 to 569).
LEMMA ClassifiedFacts ==
    ASSUME NEW s \in Stats, NEW q \in Nat
    PROVE  /\ Classified(s, q) \in Stats
           /\ Classified(s, q).rec = s.rec
           /\ Classified(s, q).seq =
                 IF q <= s.seq /\ ~(q < s.seqmin /\ s.rec = 1) THEN s.seq ELSE q
           /\ Classified(s, q).seqmin =
                 IF q <= s.seq /\ q < s.seqmin THEN q ELSE s.seqmin
<1>1. s.rec \in Nat /\ s.oos \in Nat /\ s.seq \in Nat /\ s.seqmin \in Nat
  BY Zenon DEF Stats
<1>2. CASE q <= s.seq /\ q < s.seqmin /\ s.rec = 1
  <2>1. Classified(s, q) = [s EXCEPT !.seqmin = q, !.seq = q]
    BY <1>2, Zenon DEF Classified
  <2> QED
    BY <1>1, <1>2, <2>1, Zenon DEF Stats
<1>3. CASE q <= s.seq /\ q < s.seqmin /\ s.rec # 1
  <2>1. Classified(s, q) = [s EXCEPT !.seqmin = q, !.oos = s.oos + 1]
    BY <1>3, Zenon DEF Classified
  <2> QED
    <3>1. s.oos + 1 \in Nat
      BY <1>1
    <3>2. Classified(s, q) \in Stats
      BY <2>1, <3>1, ZenonT(60) DEF Stats
    <3>3. /\ Classified(s, q).rec = s.rec
          /\ Classified(s, q).seq = s.seq
          /\ Classified(s, q).seqmin = q
      BY <2>1, <3>1, Zenon DEF Stats
    <3> QED
      BY ONLY <3>2, <3>3, <1>3, Zenon
<1>4. CASE q <= s.seq /\ ~(q < s.seqmin)
  <2>1. Classified(s, q) = [s EXCEPT !.oos = s.oos + 1]
    BY <1>4, Zenon DEF Classified
  <2> QED
    BY <1>1, <1>4, <2>1 DEF Stats
<1>5. CASE ~(q <= s.seq)
  <2>1. Classified(s, q) = [s EXCEPT !.seq = q]
    BY <1>5, Zenon DEF Classified
  <2> QED
    BY <1>1, <1>5, <2>1, Zenon DEF Stats
<1> QED
  BY <1>2, <1>3, <1>4, <1>5, Zenon

\* The absolute value of a jitter is a pair of integers.
LEMMA JitterType ==
    ASSUME NEW s \in Int, NEW us \in Int
    PROVE  Jitter(s, us).sec \in Int /\ Jitter(s, us).usec \in Int
<1> Second \in Int
  BY CrudeAssumption DEF CrudeAssumption
<1> QED
  BY DEF Jitter

\* The sums leave the numbers alone (main.c, 570 to 593).
LEMMA SummedFacts ==
    ASSUME NEW s \in Stats, NEW d, d.sec \in Int, d.usec \in Int,
           NEW j, j.sec \in Int, j.usec \in Int
    PROVE  /\ Summed(s, d, j) \in Stats
           /\ Summed(s, d, j).rec = s.rec
           /\ Summed(s, d, j).seq = s.seq
           /\ Summed(s, d, j).seqmin = s.seqmin
<1>0. /\ s.max_jitter_sec \in Int /\ s.max_jitter_usec \in Int
  BY Zenon DEF Stats
<1>1. PICK ms \in Int, mu \in Int :
         Summed(s, d, j) =
            [s EXCEPT !.ds_sec = s.ds_sec + d.sec, !.ds_usec = s.ds_usec + d.usec,
                      !.js_sec = s.js_sec + j.sec, !.js_usec = s.js_usec + j.usec,
                      !.max_jitter_sec = ms, !.max_jitter_usec = mu]
  BY <1>0, Zenon DEF Summed
<1>2. /\ s.ds_sec + d.sec \in Int /\ s.ds_usec + d.usec \in Int
      /\ s.js_sec + j.sec \in Int /\ s.js_usec + j.usec \in Int
  BY DEF Stats
<1>3. PICK a \in Int, b \in Int, c \in Int, e \in Int :
         Summed(s, d, j) =
            [s EXCEPT !.ds_sec = a, !.ds_usec = b, !.js_sec = c, !.js_usec = e,
                      !.max_jitter_sec = ms, !.max_jitter_usec = mu]
  BY <1>1, <1>2, Zenon
<1> DEFINE t == [s EXCEPT !.ds_sec = a, !.ds_usec = b, !.js_sec = c]
<1>4. t \in Stats /\ t.rec = s.rec /\ t.seq = s.seq /\ t.seqmin = s.seqmin
  BY <1>3, Zenon DEF Stats
<1>5. Summed(s, d, j) = [t EXCEPT !.js_usec = e, !.max_jitter_sec = ms, !.max_jitter_usec = mu]
  BY <1>3, Zenon
<1> HIDE DEF t
<1> QED
  BY <1>4, <1>5, ZenonT(60) DEF Stats

\* The invariant holds before the first packet.
LEMMA InvInit == Init => Inv
<1> SUFFICES ASSUME Init PROVE Inv
  BY Zenon
<1> USE DEF Init
<1>1. TypeOK
  BY NumberFacts DEF TypeOK, Stats, NoStats
<1>2. FreshInv
  BY Zenon DEF FreshInv, NoStats
<1>3. UpdatingInv /\ QuietInv /\ PrintedInv
  BY Zenon DEF UpdatingInv, QuietInv, PrintedInv, Updating
<1>4. SeqRange
  BY DEF SeqRange, Settled, NoStats
<1> QED
  BY <1>1, <1>2, <1>3, <1>4, Zenon DEF Inv
-----------------------------------------------------------------------------
\* Steps that leave all sequence numbers alone keep what is known of them; a
\* signal in the middle of a classification makes no claim about the results.
LEMMA CalmStep ==
    ASSUME Inv,
           \A f \in Flows : /\ flows'[f].rec = flows[f].rec
                            /\ flows'[f].seq = flows[f].seq
                            /\ flows'[f].seqmin = flows[f].seqmin,
           seqs' = seqs, dup' = dup,
           pc' # "classify",
           quiet' => quiet /\ pc # "classify",
           pc' \notin {"print", "exit"} => quiet'
    PROVE  FreshInv' /\ UpdatingInv' /\ SeqRange' /\ QuietInv'
<1>1. FreshInv'
  BY Zenon DEF Inv, FreshInv
<1>2. UpdatingInv' /\ QuietInv'
  BY Zenon DEF UpdatingInv, Updating, QuietInv
<1>3. SeqRange'
  <2> SUFFICES ASSUME NEW f \in Flows, Settled(f)'
               PROVE  /\ {flows[f].seqmin, flows[f].seq}' \subseteq seqs'[f]
                      /\ \A n \in seqs'[f] : flows'[f].seqmin <= n /\ n <= flows'[f].seq
    BY Zenon DEF SeqRange
  <2>1. quiet'
    BY Zenon DEF Settled
  <2>2. Settled(f)
    BY <2>1, Zenon DEF Settled, Updating
  <2> QED
    BY <2>2, Zenon DEF Inv, SeqRange
<1> QED
  BY <1>1, <1>2, <1>3, Zenon

\* A packet arrives.
LEMMA ReceiveStep ==
    ASSUME Inv, NEW p \in Packets, Receive(p)
    PROVE  Inv'
<1> DEFINE g == p.flowid
<1>0. /\ g \in Flows /\ pc = "recv" /\ pc' = "classify" /\ quiet /\ quiet' = quiet
      /\ pkt' = p /\ p.seq \in Numbers
      /\ seqs' = [seqs EXCEPT ![g] = @ \cup {p.seq}]
      /\ flows' = [flows EXCEPT ![g].rec = @ + 1]
  BY PacketFacts, Zenon DEF Receive, Inv, QuietInv
<1>1. /\ flows \in [Flows -> Stats] /\ seqs \in [Flows -> SUBSET Numbers]
      /\ \A f \in Flows : flows[f].rec \in Nat
  BY Zenon DEF Inv, TypeOK, Stats
<1>2. /\ flows' \in [Flows -> Stats]
      /\ seqs' \in [Flows -> SUBSET Numbers]
  BY <1>0, <1>1 DEF Stats
<1>3. TypeOK'
  BY <1>0, <1>2 DEF TypeOK, Inv, Receive
<1>4. /\ flows'[g].rec = flows[g].rec + 1
      /\ flows'[g].seq = flows[g].seq /\ flows'[g].seqmin = flows[g].seqmin
      /\ seqs'[g] = seqs[g] \cup {p.seq}
      /\ \A f \in Flows \ {g} : flows'[f] = flows[f] /\ seqs'[f] = seqs[f]
  BY <1>0, <1>1, Zenon DEF Stats
<1>5. FreshInv'
  BY <1>1, <1>4 DEF FreshInv, Inv
<1>6. UpdatingInv'
  <2> SUFFICES ASSUME NEW f \in Flows, Updating(f)'
               PROVE  /\ flows'[f].rec > 0
                      /\ pkt'.seq \in seqs'[f]
                      /\ \/ /\ flows'[f].rec = 1 /\ seqs'[f] = {pkt'.seq}
                            /\ flows'[f].seq = ULONG_MAX /\ flows'[f].seqmin = ULONG_MAX
                         \/ /\ flows'[f].rec # 1
                            /\ {flows'[f].seqmin, flows'[f].seq} \subseteq seqs'[f]
                            /\ \A n \in seqs'[f] \ {pkt'.seq} :
                                  flows'[f].seqmin <= n /\ n <= flows'[f].seq
    BY Zenon DEF UpdatingInv
  <2>1. f = g
    BY <1>0, Zenon DEF Updating
  <2>2. CASE flows[g].rec = 0
    BY <1>0, <1>4, <2>1, <2>2 DEF Inv, FreshInv
  <2>3. CASE flows[g].rec # 0
    <3>1. Settled(g)
      BY <1>0, <1>1, <2>3 DEF Settled, Updating
    <3>2. /\ {flows[g].seqmin, flows[g].seq} \subseteq seqs[g]
          /\ \A n \in seqs[g] : flows[g].seqmin <= n /\ n <= flows[g].seq
      BY <1>0, <3>1, Zenon DEF Inv, SeqRange
    <3>3. flows'[g].rec > 0 /\ flows'[g].rec # 1
      BY <1>0, <1>1, <1>4, <2>3
    <3> QED
      BY <1>0, <1>4, <2>1, <3>2, <3>3
  <2> QED
    BY <2>2, <2>3, Zenon
<1>7. SeqRange'
  <2> SUFFICES ASSUME NEW f \in Flows, Settled(f)'
               PROVE  /\ {flows[f].seqmin, flows[f].seq}' \subseteq seqs'[f]
                      /\ \A n \in seqs'[f] : flows'[f].seqmin <= n /\ n <= flows'[f].seq
    BY Zenon DEF SeqRange
  <2>1. f # g
    BY <1>0, Zenon DEF Settled, Updating
  <2>2. Settled(f)
    BY <1>0, <1>4, <2>1, Zenon DEF Settled, Updating
  <2> QED
    BY <1>4, <2>1, <2>2, Zenon DEF Inv, SeqRange
<1>9. QuietInv' /\ PrintedInv'
  BY <1>0, Zenon DEF QuietInv, PrintedInv
<1> QED
  BY <1>3, <1>5, <1>6, <1>7, <1>9, Zenon DEF Inv

\* The numbers of a flow after a packet cover the packet and what they covered.
LEMMA RangeGrows ==
    ASSUME NEW s \in Stats, NEW q \in Nat, NEW S \in SUBSET Nat, q \in S, q < ULONG_MAX,
           \/ s.rec = 1 /\ S = {q} /\ s.seq = ULONG_MAX /\ s.seqmin = ULONG_MAX
           \/ /\ s.rec # 1 /\ {s.seqmin, s.seq} \subseteq S
              /\ \A n \in S \ {q} : s.seqmin <= n /\ n <= s.seq
    PROVE  /\ {Classified(s, q).seqmin, Classified(s, q).seq} \subseteq S
           /\ \A n \in S : Classified(s, q).seqmin <= n /\ n <= Classified(s, q).seq
<1>1. s.seq \in Nat /\ s.seqmin \in Nat
  BY Zenon DEF Stats
<1>2. PICK hi \in Nat, lo \in Nat :
         /\ hi = Classified(s, q).seq /\ lo = Classified(s, q).seqmin
         /\ hi = IF q <= s.seq /\ ~(q < s.seqmin /\ s.rec = 1) THEN s.seq ELSE q
         /\ lo = IF q <= s.seq /\ q < s.seqmin THEN q ELSE s.seqmin
  BY <1>1, ClassifiedFacts, ZenonT(60)
<1>3. CASE s.rec = 1 /\ S = {q} /\ s.seq = ULONG_MAX /\ s.seqmin = ULONG_MAX
  <2>1. hi = q /\ lo = q
    BY <1>1, <1>2, <1>3
  <2> QED
    BY <1>2, <1>3, <2>1
<1>4. CASE /\ s.rec # 1 /\ {s.seqmin, s.seq} \subseteq S
           /\ \A n \in S \ {q} : s.seqmin <= n /\ n <= s.seq
  <2>0. s.seqmin = q \/ s.seqmin <= s.seq
    BY <1>4, Zenon
  <2>1. hi = (IF q <= s.seq THEN s.seq ELSE q) /\ hi \in S /\ lo \in S
    BY <1>2, <1>4, Zenon
  <2>2. ASSUME NEW n \in S PROVE lo <= n /\ n <= hi
    <3>1. CASE n = q
      <4>1. q <= hi
        BY ONLY <1>1, <2>1, q \in Nat
      <4>2. lo <= q
        BY <1>1, <1>2, <2>0, <1>4
      <4> QED
        BY <3>1, <4>1, <4>2, Zenon
    <3>2. CASE n # q
      <4>1. n \in Nat /\ s.seqmin <= n /\ n <= s.seq
        BY <1>4, <3>2, Zenon
      <4>2. s.seq <= hi /\ lo <= s.seqmin
        BY <1>1, <1>2, <2>1
      <4> QED
        BY <1>1, <4>1, <4>2
    <3> QED
      BY <3>1, <3>2, Zenon
  <2> QED
    BY <1>2, <2>1, <2>2, Zenon
<1> QED
  BY <1>3, <1>4, Zenon

\* A packet is classified.
LEMMA ClassifyStep ==
    ASSUME Inv, Classify
    PROVE  Inv'
<1> DEFINE g == pkt.flowid
           q == pkt.seq
<1>0. /\ g \in Flows /\ pkt \in Packets /\ q \in Numbers
      /\ pc = "classify" /\ pc' \in {"sums", "last"} /\ quiet /\ quiet' = quiet /\ pkt' = pkt
      /\ seqs' = seqs /\ dup' = dup
      /\ flows' = [flows EXCEPT ![g] = Classified(@, q)]
  <2>1. pkt \in Packets /\ g \in Flows /\ quiet
    BY Zenon DEF Inv, TypeOK, QuietInv, Classify
  <2> QED
    BY <2>1, PacketFacts, Zenon DEF Classify, history
<1>1. /\ flows \in [Flows -> Stats] /\ seqs \in [Flows -> SUBSET Numbers]
      /\ q \in Nat /\ q < ULONG_MAX /\ seqs[g] \in SUBSET Nat
  BY <1>0, NumberFacts, Zenon DEF Inv, TypeOK
<1>2. Classified(flows[g], q) \in Stats /\ Classified(flows[g], q).rec = flows[g].rec
  BY <1>0, <1>1, ClassifiedFacts, Zenon
<1>3. /\ flows' \in [Flows -> Stats]
      /\ flows'[g] = Classified(flows[g], q)
      /\ \A f \in Flows : flows'[f].rec = flows[f].rec
      /\ \A f \in Flows \ {g} : flows'[f] = flows[f]
  BY <1>0, <1>1, <1>2, Zenon
<1>4. TypeOK'
  BY <1>0, <1>3, Zenon DEF TypeOK, Inv, Classify, history
<1>5. Updating(g)
  BY <1>0, Zenon DEF Updating
<1>6. /\ flows[g].rec > 0 /\ q \in seqs[g]
      /\ \/ /\ flows[g].rec = 1 /\ seqs[g] = {q}
            /\ flows[g].seq = ULONG_MAX /\ flows[g].seqmin = ULONG_MAX
         \/ /\ flows[g].rec # 1
            /\ {flows[g].seqmin, flows[g].seq} \subseteq seqs[g]
            /\ \A n \in seqs[g] \ {q} : flows[g].seqmin <= n /\ n <= flows[g].seq
  BY <1>0, <1>5, Zenon DEF Inv, UpdatingInv
<1>7. FreshInv'
  <2> SUFFICES ASSUME NEW f \in Flows, flows'[f].rec = 0
               PROVE  /\ seqs'[f] = {}
                      /\ flows'[f].seq = ULONG_MAX /\ flows'[f].seqmin = ULONG_MAX
    BY Zenon DEF FreshInv
  <2>1. f # g
    BY <1>3, <1>6
  <2> QED
    BY <1>0, <1>3, <2>1, Zenon DEF Inv, FreshInv
<1>9. UpdatingInv' /\ QuietInv' /\ PrintedInv'
  BY <1>0, Zenon DEF UpdatingInv, Updating, QuietInv, PrintedInv
<1>10. SeqRange'
  <2> SUFFICES ASSUME NEW f \in Flows, Settled(f)'
               PROVE  /\ {flows[f].seqmin, flows[f].seq}' \subseteq seqs'[f]
                      /\ \A n \in seqs'[f] : flows'[f].seqmin <= n /\ n <= flows'[f].seq
    BY Zenon DEF SeqRange
  <2>1. CASE f = g
    <3>1. flows[g] \in Stats
      BY <1>0, <1>1, Zenon
    <3>2. /\ {Classified(flows[g], q).seqmin, Classified(flows[g], q).seq} \subseteq seqs[g]
          /\ \A n \in seqs[g] : /\ Classified(flows[g], q).seqmin <= n
                                /\ n <= Classified(flows[g], q).seq
      BY ONLY <1>1, <1>6, <3>1, RangeGrows, Zenon
    <3> QED
      BY <1>0, <1>3, <2>1, <3>2, Zenon
  <2>2. CASE f # g
    <3>1. Settled(f)
      BY <1>0, <1>3, <2>2, Zenon DEF Settled, Updating
    <3> QED
      BY <1>0, <1>3, <2>2, <3>1, Zenon DEF Inv, SeqRange
  <2> QED
    BY <2>1, <2>2, Zenon
<1> QED
  BY <1>4, <1>7, <1>9, <1>10, Zenon DEF Inv

\* The steps that do not touch the statistics.
LEMMA IdleStep ==
    ASSUME Inv, flows' = flows, seqs' = seqs, dup' = dup,
           \/ \E p \in Packets : Ignore(p)
           \/ ReceiveFails \/ CountPacket \/ print_stats \/ crude_handler
    PROVE  Inv'
<1>1. /\ pc' # "classify"
      /\ quiet' => quiet /\ pc # "classify"
      /\ pc' \notin {"print", "exit"} => quiet'
  <2>1. CASE ReceiveFails \/ CountPacket \/ \E p \in Packets : Ignore(p)
    <3>1. quiet' = quiet /\ pc # "classify" /\ pc' # "classify" /\ pc \notin {"print", "exit"}
      BY <2>1, Zenon DEF Ignore, ReceiveFails, CountPacket
    <3> QED
      BY <3>1, Zenon DEF Inv, QuietInv
  <2>2. CASE print_stats
    BY <2>2, Zenon DEF print_stats
  <2>3. CASE crude_handler
    <3>1. pc' = "print" /\ quiet' = (pc = "recv")
      BY <2>3, Zenon DEF crude_handler
    <3>2. pc = "recv" => quiet
      BY Zenon DEF Inv, QuietInv
    <3> QED
      BY <3>1, <3>2, Zenon
  <2> QED
    BY <2>1, <2>2, <2>3, Zenon
<1>2. FreshInv' /\ UpdatingInv' /\ SeqRange' /\ QuietInv'
  BY <1>1, CalmStep, Zenon
<1>3. TypeOK'
  BY DEF Inv, TypeOK, Ignore, ReceiveFails, CountPacket, print_stats, crude_handler, history
<1>4. PrintedInv'
  <2>1. CASE print_stats
    BY <2>1, Zenon DEF print_stats, PrintedInv, Result
  <2>2. CASE ~print_stats
    BY <2>2, Zenon DEF PrintedInv, Ignore, ReceiveFails, CountPacket, crude_handler
  <2> QED
    BY <2>1, <2>2, Zenon
<1> QED
  BY <1>2, <1>3, <1>4, Zenon DEF Inv

\* The delays are added up.
LEMMA SumsStep ==
    ASSUME Inv, Sums
    PROVE  Inv'
<1> DEFINE g == pkt.flowid
           s == flows[g]
           d == pkt.delay
           j == Jitter(d.sec - s.last_delay_sec, d.usec - s.last_delay_usec)
<1>0. /\ pc = "sums" /\ pc' = "last" /\ quiet' = quiet
      /\ flows' = [flows EXCEPT ![g] = Summed(s, d, j)]
      /\ seqs' = seqs /\ dup' = dup
  BY Zenon DEF Sums, history
<1>1. /\ quiet /\ pkt \in Packets /\ g \in Flows /\ flows \in [Flows -> Stats] /\ s \in Stats
      /\ d.sec \in Int /\ d.usec \in Int
  <2>1. quiet /\ pkt \in Packets /\ g \in Flows /\ flows \in [Flows -> Stats]
    BY <1>0, Zenon DEF Inv, QuietInv, TypeOK
  <2> QED
    BY <2>1, PacketFacts, Zenon
<1>2. j.sec \in Int /\ j.usec \in Int
  <2>1. d.sec - s.last_delay_sec \in Int /\ d.usec - s.last_delay_usec \in Int
    BY <1>1 DEF Stats
  <2> QED
    BY <2>1, JitterType, Zenon
<1>3. /\ Summed(s, d, j) \in Stats /\ Summed(s, d, j).rec = s.rec
      /\ Summed(s, d, j).seq = s.seq /\ Summed(s, d, j).seqmin = s.seqmin
  <2> HIDE DEF g, s, d, j
  <2> QED
    BY <1>1, <1>2, SummedFacts
<1> HIDE DEF j, d
<1>4. /\ flows' \in [Flows -> Stats]
      /\ \A f \in Flows : /\ flows'[f].rec = flows[f].rec
                          /\ flows'[f].seq = flows[f].seq
                          /\ flows'[f].seqmin = flows[f].seqmin
  BY <1>0, <1>1, <1>3, Zenon
<1>5. FreshInv' /\ UpdatingInv' /\ SeqRange' /\ QuietInv'
  BY <1>0, <1>1, <1>4, CalmStep, Zenon
<1>6. TypeOK'
  BY <1>0, <1>4, Zenon DEF Inv, TypeOK, Sums, history
<1>7. PrintedInv'
  BY <1>0, Zenon DEF PrintedInv
<1> QED
  BY <1>5, <1>6, <1>7, Zenon DEF Inv

\* The delay is remembered for the next packet.
LEMMA LastStep ==
    ASSUME Inv, UpdateLast
    PROVE  Inv'
<1> DEFINE g == pkt.flowid
<1>0. /\ pc = "last" /\ pc' = "count" /\ quiet' = quiet
      /\ flows' = [flows EXCEPT ![g] = [flows[g] EXCEPT !.last_delay_sec = pkt.delay.sec,
                                                        !.last_delay_usec = pkt.delay.usec]]
      /\ seqs' = seqs /\ dup' = dup
  BY Zenon DEF UpdateLast, history, Inv, TypeOK
<1>1. /\ quiet /\ pkt \in Packets /\ g \in Flows /\ flows \in [Flows -> Stats]
      /\ pkt.delay.sec \in Int /\ pkt.delay.usec \in Int
  <2>1. quiet /\ pkt \in Packets /\ g \in Flows /\ flows \in [Flows -> Stats]
    BY <1>0, Zenon DEF Inv, QuietInv, TypeOK
  <2> QED
    BY <2>1, PacketFacts, Zenon
<1>4. /\ flows' \in [Flows -> Stats]
      /\ \A f \in Flows : /\ flows'[f].rec = flows[f].rec
                          /\ flows'[f].seq = flows[f].seq
                          /\ flows'[f].seqmin = flows[f].seqmin
  BY <1>0, <1>1, ZenonT(60) DEF Stats
<1>5. FreshInv' /\ UpdatingInv' /\ SeqRange' /\ QuietInv'
  BY <1>0, <1>1, <1>4, CalmStep, Zenon
<1>6. TypeOK'
  BY <1>0, <1>4, Zenon DEF Inv, TypeOK, UpdateLast, history
<1>7. PrintedInv'
  BY <1>0, Zenon DEF PrintedInv
<1> QED
  BY <1>5, <1>6, <1>7, Zenon DEF Inv
-----------------------------------------------------------------------------
\* Inv is an invariant of crude -s.
THEOREM Invariance == Spec => []Inv
<1>1. Inv /\ [Next]_vars => Inv'
  <2> SUFFICES ASSUME Inv, [Next]_vars PROVE Inv'
    BY Zenon
  <2>1. CASE \E p \in Packets : Receive(p)
    BY <2>1, ReceiveStep, Zenon
  <2>2. CASE \/ \E p \in Packets : Ignore(p)
             \/ ReceiveFails \/ CountPacket \/ print_stats \/ crude_handler
    <3>1. flows' = flows /\ seqs' = seqs /\ dup' = dup
      BY <2>2, Zenon DEF Ignore, ReceiveFails, CountPacket, print_stats, crude_handler, history
    <3> QED
      BY <2>2, <3>1, IdleStep, Zenon
  <2>3. CASE Classify
    BY <2>3, ClassifyStep, Zenon
  <2>4. CASE Sums
    BY <2>4, SumsStep, Zenon
  <2>5. CASE UpdateLast
    BY <2>5, LastStep, Zenon
  <2>6. CASE UNCHANGED vars
    BY <2>6, ZenonT(60) DEF vars, history, Inv, TypeOK, FreshInv, UpdatingInv, SeqRange,
                QuietInv, PrintedInv, Settled, Updating
  <2> QED
    BY <2>1, <2>2, <2>3, <2>4, <2>5, <2>6, Zenon DEF Next, runtime_stats
<1> QED
  BY InvInit, <1>1, PTL DEF Spec

\* The state of crude keeps its types; in particular oos, from which the first
\* packet is taken off again, is never negative.
THEOREM TypeCorrect == Spec => []TypeOK
BY Invariance, PTL DEF Inv

\* seqmin and seq are the lowest and the highest number received, in whatever
\* order runtime_stats receives the packets.
THEOREM RangeCorrect == Spec => []SeqRange
BY Invariance, PTL DEF Inv
-----------------------------------------------------------------------------
(* The average delay *)

\* The sum of the delays that runtime_stats keeps in two numbers.
Added(s) == s.ds_sec * Second + s.ds_usec

\* What the packet at hand will still add to the sums of flow f: nothing if it is
\* the first one of its flow.
Due(f) ==
    IF pkt.flowid = f /\ (pc = "sums" \/ (pc = "classify" /\ flows[f].rec # 1))
    THEN InMicroseconds(pkt.delay) ELSE 0

\* The two numbers hold the sum of the delays but for the packet at hand.
SumInv ==
    /\ sum \in [Flows -> Int]
    /\ \A f \in Flows :
          /\ flows[f].rec # 0 => seqs[f] # {}
          /\ quiet => sum[f] = Added(flows[f]) + Due(f)

\* The sums cannot exceed the longest delay times the packets.
BoundInv ==
    /\ arrived \in Nat /\ arrived <= MaxPackets
    /\ \A f \in Flows : flows[f].rec <= arrived
    /\ \A f \in Flows, max \in Nat :
          (\A d \in Delays : InMicroseconds(d) <= max) => sum[f] <= arrived * max

\* What was printed comes from the sums, which do not change any more.
AverageInv ==
    pc = "exit" => \A f \in Flows : flows[f].rec >= 2 => printed[f].average = Average(flows[f])

DelayInv == SumInv /\ BoundInv /\ AverageInv
-----------------------------------------------------------------------------
\* The delays of the packets are integers, as are the sums.
LEMMA DelayFacts ==
    /\ Second \in Nat
    /\ \A d \in Delays : InMicroseconds(d) \in Int
    /\ \A s \in Stats : Added(s) \in Int
<1>1. Second \in Nat
  BY CrudeAssumption, Zenon DEF CrudeAssumption
<1>2. ASSUME NEW a \in Int, NEW b \in Int PROVE a * Second + b \in Int
  BY <1>1
<1>3. \A d \in Delays : d.sec \in Int /\ d.usec \in Int
  BY CrudeAssumption, Zenon DEF CrudeAssumption
<1>4. \A s \in Stats : s.ds_sec \in Int /\ s.ds_usec \in Int
  BY Zenon DEF Stats
<1> QED
  BY <1>1, <1>2, <1>3, <1>4, Zenon DEF InMicroseconds, Added

\* Adding seconds and microseconds separately adds the delay.
LEMMA AddedTogether ==
    ASSUME NEW a \in Int, NEW b \in Int, NEW c \in Int, NEW e \in Int, NEW S \in Int
    PROVE  (a + c) * S + (b + e) = (a * S + b) + (c * S + e)
OBVIOUS

\* Quotient and rest make up the dividend.
LEMMA Division ==
    ASSUME NEW u \in Nat, NEW S \in Nat, S > 0
    PROVE  /\ u \div S \in Nat /\ u % S \in Nat
           /\ S * (u \div S) + (u % S) = u
OBVIOUS

\* The classification leaves the sums alone.
LEMMA ClassifiedKeepsSums ==
    ASSUME NEW s \in Stats, NEW q \in Nat
    PROVE  Added(Classified(s, q)) = Added(s)
<1>1. Classified(s, q).ds_sec = s.ds_sec /\ Classified(s, q).ds_usec = s.ds_usec
  BY Zenon DEF Classified, Stats
<1> QED
  BY <1>1, Zenon DEF Added

\* The sums grow by the delay.
LEMMA SummedAdds ==
    ASSUME NEW s \in Stats, NEW d \in Delays, NEW j
    PROVE  Added(Summed(s, d, j)) = Added(s) + InMicroseconds(d)
<1>1. /\ Summed(s, d, j).ds_sec = s.ds_sec + d.sec
      /\ Summed(s, d, j).ds_usec = s.ds_usec + d.usec
  BY Zenon DEF Summed, Stats
<1>2. d.sec \in Int /\ d.usec \in Int /\ s.ds_sec \in Int /\ s.ds_usec \in Int
  BY CrudeAssumption, Zenon DEF CrudeAssumption, Stats
<1> Second \in Int
  BY DelayFacts
<1>3. (s.ds_sec + d.sec) * Second + (s.ds_usec + d.usec)
         = (s.ds_sec * Second + s.ds_usec) + (d.sec * Second + d.usec)
  BY <1>2, AddedTogether
<1> QED
  BY ONLY <1>1, <1>3, Zenon DEF Added, InMicroseconds

\* The packet is the first of its flow exactly when it is the only one counted.
LEMMA FirstIsFirst ==
    ASSUME Inv, pc = "classify"
    PROVE  IsFirst(flows[pkt.flowid], pkt.seq) <=> flows[pkt.flowid].rec = 1
<1>1. pkt.flowid \in Flows /\ pkt \in Packets
  BY Zenon DEF Inv, TypeOK
<1>2. Updating(pkt.flowid)
  BY Zenon DEF Updating
<1>3. pkt.seq \in Nat /\ pkt.seq < ULONG_MAX
  BY <1>1, PacketFacts, NumberFacts, Zenon
<1>4. flows[pkt.flowid].rec = 1 =>
         flows[pkt.flowid].seq = ULONG_MAX /\ flows[pkt.flowid].seqmin = ULONG_MAX
  BY <1>1, <1>2, Zenon DEF Inv, UpdatingInv
<1> QED
  BY <1>3, <1>4, NumberFacts DEF IsFirst

\* The sums are zero before the first packet.
LEMMA DelayInit == Init => DelayInv
<1> SUFFICES ASSUME Init PROVE DelayInv
  BY Zenon
<1>1. /\ flows = [f \in Flows |-> NoStats] /\ sum = [f \in Flows |-> 0] /\ pc = "recv"
      /\ seqs = [f \in Flows |-> {}] /\ arrived = 0
  BY Zenon DEF Init
<1>2. Added(NoStats) = 0 /\ NoStats.rec = 0
  BY DelayFacts DEF Added, NoStats
<1>3. SumInv
  BY <1>1, <1>2 DEF SumInv, Due
<1>4. BoundInv
  BY <1>1, <1>2, CrudeAssumption DEF BoundInv, CrudeAssumption
<1> QED
  BY <1>1, <1>3, <1>4, Zenon DEF DelayInv, AverageInv

\* A packet arrives: its delay counts, unless it is the first of its flow.
LEMMA DelayReceive ==
    ASSUME Inv, DelayInv, NEW p \in Packets, Receive(p)
    PROVE  DelayInv'
<1> DEFINE g == p.flowid
           v == InMicroseconds(p.delay)
<1>0. /\ g \in Flows /\ pc = "recv" /\ pc' = "classify" /\ quiet /\ quiet' = quiet /\ pkt' = p
      /\ seqs' = [seqs EXCEPT ![g] = @ \cup {p.seq}]
      /\ flows' = [flows EXCEPT ![g].rec = @ + 1]
      /\ sum' = IF seqs[g] = {} THEN sum ELSE [sum EXCEPT ![g] = @ + v]
      /\ arrived < MaxPackets /\ arrived' = arrived + 1
  BY Zenon DEF Receive, Inv, QuietInv
<1>1. /\ flows \in [Flows -> Stats] /\ seqs \in [Flows -> SUBSET Numbers]
      /\ \A f \in Flows : flows[f].rec \in Nat
      /\ sum \in [Flows -> Int]
  BY Zenon DEF Inv, TypeOK, Stats, DelayInv, SumInv
<1>2. v \in Int /\ p.delay \in Delays
  <2>1. p.delay \in Delays
    BY Zenon DEF Packets
  <2> QED
    BY <2>1, DelayFacts, Zenon
<1>3. /\ flows'[g].rec = flows[g].rec + 1
      /\ Added(flows'[g]) = Added(flows[g])
      /\ seqs'[g] # {}
      /\ \A f \in Flows \ {g} : flows'[f] = flows[f] /\ seqs'[f] = seqs[f] /\ sum'[f] = sum[f]
      /\ sum'[g] = IF seqs[g] = {} THEN sum[g] ELSE sum[g] + v
  BY <1>0, <1>1, Zenon DEF Stats, Added
<1>4. flows[g].rec = 0 <=> seqs[g] = {}
  BY <1>0, Zenon DEF Inv, FreshInv, DelayInv, SumInv
<1> HIDE DEF v
<1>5. sum' \in [Flows -> Int]
  BY <1>0, <1>1, <1>2
<1>6. SumInv'
  <2> SUFFICES ASSUME NEW f \in Flows
               PROVE  /\ flows'[f].rec # 0 => seqs'[f] # {}
                      /\ quiet' => sum'[f] = Added(flows'[f]) + Due(f)'
    BY <1>5, Zenon DEF SumInv
  <2>0. sum[f] = Added(flows[f]) + Due(f) /\ Due(f) = 0
    BY <1>0, Zenon DEF DelayInv, SumInv, Due
  <2>2. Added(flows[f]) \in Int
    BY <1>1, DelayFacts, Zenon
  <2>1. sum[f] = Added(flows[f])
    BY ONLY <2>0, <2>2
  <2>3. CASE f # g
    <3>1. Due(f)' = 0
      BY <1>0, <2>3, Zenon DEF Due
    <3>2. flows'[f] = flows[f] /\ seqs'[f] = seqs[f] /\ sum'[f] = sum[f]
      BY <1>3, <2>3, Zenon
    <3>3. sum[f] = Added(flows[f]) + 0
      BY ONLY <2>1, <2>2
    <3> QED
      BY <3>1, <3>2, <3>3, Zenon DEF DelayInv, SumInv
  <2>4. CASE f = g
    <3>1. Due(f)' = IF flows'[g].rec # 1 THEN v ELSE 0
      BY <1>0, <2>4, Zenon DEF Due, v
    <3>2. flows'[g].rec # 1 <=> seqs[g] # {}
      BY <1>0, <1>1, <1>3, <1>4, SMTT(30)
    <3>3. Added(flows[g]) \in Int /\ sum[g] = Added(flows[g])
      BY <2>1, <2>2, <2>4, Zenon
    <3>4. sum'[g] = (IF seqs[g] = {} THEN sum[g] ELSE sum[g] + v) /\ seqs'[g] # {}
      BY <1>3, Zenon
    <3>5. Added(flows'[g]) = Added(flows[g])
      BY <1>3, Zenon
    <3>6. sum'[g] = Added(flows'[g]) + Due(f)'
      BY ONLY <1>2, <3>1, <3>2, <3>3, <3>4, <3>5
    <3> QED
      BY <2>4, <3>4, <3>6, Zenon
  <2> QED
    BY <2>3, <2>4, Zenon
<1>7. BoundInv'
  <2>1. /\ arrived \in Nat /\ arrived' = arrived + 1 /\ MaxPackets \in Nat
        /\ arrived < MaxPackets
    BY <1>0, CrudeAssumption, Zenon DEF DelayInv, BoundInv, CrudeAssumption
  <2>2. ASSUME NEW f \in Flows PROVE flows'[f].rec <= arrived'
    <3>1. flows[f].rec <= arrived /\ flows[f].rec \in Nat
      BY <1>1, Zenon DEF DelayInv, BoundInv
    <3>2. flows'[f].rec = flows[f].rec \/ flows'[f].rec = flows[f].rec + 1
      BY <1>3, Zenon
    <3> QED
      BY <2>1, <3>1, <3>2
  <2>3. ASSUME NEW f \in Flows, NEW max \in Nat, \A d \in Delays : InMicroseconds(d) <= max
        PROVE  sum'[f] <= arrived' * max
    <3>1. sum[f] <= arrived * max /\ sum[f] \in Int
      BY <1>1, <2>3, Zenon DEF DelayInv, BoundInv
    <3>2. v <= max
      BY <1>2, <2>3, Zenon DEF v
    <3>3. sum'[f] = sum[f] \/ sum'[f] = sum[f] + v
      BY <1>3, Zenon
    <3>4. arrived' * max = arrived * max + max /\ arrived * max \in Int
      BY ONLY <2>1, max \in Nat
    <3> QED
      BY ONLY <1>2, <3>1, <3>2, <3>3, <3>4, max \in Nat
  <2> QED
    BY <2>1, <2>2, <2>3 DEF BoundInv
<1>8. AverageInv'
  BY <1>0, Zenon DEF AverageInv
<1> QED
  BY <1>6, <1>7, <1>8, Zenon DEF DelayInv

\* The steps that touch neither packets received nor their sums.
LEMMA DelayBounds ==
    ASSUME DelayInv, arrived' = arrived, sum' = sum,
           \A f \in Flows : flows'[f].rec = flows[f].rec
    PROVE  BoundInv'
BY Zenon DEF DelayInv, BoundInv

\* A packet is classified: what it adds is still due, unless it is the first one.
LEMMA DelayClassify ==
    ASSUME Inv, DelayInv, Classify
    PROVE  DelayInv'
<1> DEFINE g == pkt.flowid
<1>0. /\ g \in Flows /\ pkt \in Packets /\ pkt' = pkt /\ quiet /\ quiet' = quiet
      /\ pc = "classify" /\ pc' = IF flows[g].rec = 1 THEN "last" ELSE "sums"
      /\ seqs' = seqs /\ sum' = sum /\ arrived' = arrived
      /\ flows' = [flows EXCEPT ![g] = Classified(@, pkt.seq)]
  <2>1. pkt \in Packets /\ g \in Flows /\ quiet
    BY Zenon DEF Inv, TypeOK, QuietInv, Classify
  <2> QED
    BY <2>1, FirstIsFirst, Zenon DEF Classify, history
<1>1. flows \in [Flows -> Stats] /\ pkt.seq \in Nat
  BY <1>0, PacketFacts, NumberFacts, Zenon DEF Inv, TypeOK
<1>2. \A f \in Flows : flows'[f].rec = flows[f].rec /\ Added(flows'[f]) = Added(flows[f])
  BY <1>0, <1>1, ClassifiedFacts, ClassifiedKeepsSums, SMTT(30)
<1>3. ASSUME NEW f \in Flows PROVE Due(f)' = Due(f)
  BY <1>0, <1>2, Zenon DEF Due
<1>4. SumInv'
  BY <1>0, <1>2, <1>3, Zenon DEF DelayInv, SumInv
<1>5. BoundInv'
  BY <1>0, <1>2, DelayBounds, Zenon
<1>6. AverageInv'
  BY <1>0, Zenon DEF AverageInv
<1> QED
  BY <1>4, <1>5, <1>6, Zenon DEF DelayInv

\* The delay that was due is added.
LEMMA DelaySums ==
    ASSUME Inv, DelayInv, Sums
    PROVE  DelayInv'
<1> DEFINE g == pkt.flowid
           d == pkt.delay
<1>0. /\ g \in Flows /\ pkt \in Packets /\ quiet /\ quiet' = quiet
      /\ flows \in [Flows -> Stats] /\ flows[g] \in Stats
      /\ pc = "sums" /\ pc' = "last" /\ seqs' = seqs /\ sum' = sum /\ arrived' = arrived
  BY Zenon DEF Inv, TypeOK, QuietInv, Sums, history
<1>1. PICK j : flows' = [flows EXCEPT ![g] = Summed(flows[g], d, j)]
               /\ j.sec \in Int /\ j.usec \in Int
  <2>1. d.sec \in Int /\ d.usec \in Int
    BY <1>0, PacketFacts, Zenon
  <2>2. d.sec - flows[g].last_delay_sec \in Int /\ d.usec - flows[g].last_delay_usec \in Int
    BY <1>0, <2>1 DEF Stats
  <2> QED
    BY <2>2, JitterType, Zenon DEF Sums
<1>2. d \in Delays /\ d.sec \in Int /\ d.usec \in Int
  BY <1>0, PacketFacts, Zenon DEF Packets
<1>3. Added(Summed(flows[g], d, j)) = Added(flows[g]) + InMicroseconds(d)
  BY <1>0, <1>2, SummedAdds, Zenon
<1>4. Summed(flows[g], d, j).rec = flows[g].rec
  BY <1>0, <1>1, <1>2, SummedFacts, SMTT(30)
<1>5. \A f \in Flows : flows'[f].rec = flows[f].rec
  BY <1>0, <1>1, <1>4, Zenon
<1>6. ASSUME NEW f \in Flows PROVE Added(flows'[f]) + Due(f)' = Added(flows[f]) + Due(f)
  <2>1. Added(flows[f]) \in Int /\ InMicroseconds(d) \in Int /\ Due(f)' = 0
    BY <1>0, <1>2, DelayFacts, Zenon DEF Due
  <2>2. CASE f = g
    <3>1. Due(f) = InMicroseconds(d)
      BY <1>0, <2>2, Zenon DEF Due
    <3> QED
      BY <1>0, <1>1, <1>3, <2>1, <2>2, <3>1
  <2>3. CASE f # g
    <3>1. Due(f) = 0
      BY <1>0, <2>3, Zenon DEF Due
    <3> QED
      BY <1>0, <1>1, <2>1, <2>3, <3>1, Zenon
  <2> QED
    BY <2>2, <2>3, Zenon
<1>7. SumInv'
  BY <1>0, <1>5, <1>6, Zenon DEF DelayInv, SumInv
<1>8. BoundInv'
  BY <1>0, <1>5, DelayBounds, Zenon
<1> QED
  BY <1>0, <1>7, <1>8, Zenon DEF DelayInv, AverageInv

\* The delay remembered for the jitter is not part of a sum.
LEMMA DelayLast ==
    ASSUME Inv, DelayInv, UpdateLast
    PROVE  DelayInv'
<1>0. /\ pkt \in Packets /\ pkt.flowid \in Flows /\ quiet /\ quiet' = quiet
      /\ flows \in [Flows -> Stats] /\ pc = "last" /\ pc' = "count" /\ seqs' = seqs
      /\ sum' = sum /\ arrived' = arrived
  BY Zenon DEF Inv, TypeOK, QuietInv, UpdateLast, history
<1>1. ASSUME NEW f \in Flows
      PROVE  /\ flows'[f].rec = flows[f].rec
             /\ flows'[f].ds_sec = flows[f].ds_sec
             /\ flows'[f].ds_usec = flows[f].ds_usec
  BY <1>0, Zenon DEF UpdateLast, Stats
<1>2. \A f \in Flows : Added(flows'[f]) = Added(flows[f]) /\ Due(f)' = Due(f)
  BY <1>0, <1>1, Zenon DEF Added, Due
<1>3. SumInv'
  BY <1>0, <1>1, <1>2, Zenon DEF DelayInv, SumInv
<1>4. BoundInv'
  BY <1>0, <1>1, DelayBounds, Zenon
<1> QED
  BY <1>0, <1>3, <1>4, Zenon DEF DelayInv, AverageInv

\* The steps that do not touch the statistics; a signal in the middle of an
\* update makes no claim about the results.
LEMMA DelayIdle ==
    ASSUME Inv, DelayInv, flows' = flows, seqs' = seqs, sum' = sum,
           \/ \E p \in Packets : Ignore(p)
           \/ ReceiveFails \/ CountPacket \/ print_stats \/ crude_handler
    PROVE  DelayInv'
<1>1. /\ pc' \notin {"classify", "sums"}
      /\ quiet' => quiet /\ pc \notin {"classify", "sums"}
  <2>1. CASE ReceiveFails \/ CountPacket \/ \E p \in Packets : Ignore(p)
    BY <2>1 DEF Ignore, ReceiveFails, CountPacket
  <2>2. CASE print_stats
    BY <2>2, Zenon DEF print_stats
  <2>3. CASE crude_handler
    <3>1. pc' = "print" /\ quiet' = (pc = "recv")
      BY <2>3, Zenon DEF crude_handler
    <3>2. pc = "recv" => quiet
      BY Zenon DEF Inv, QuietInv
    <3> QED
      BY <3>1, <3>2, Zenon
  <2> QED
    BY <2>1, <2>2, <2>3, Zenon
<1>2. SumInv'
  <2> SUFFICES ASSUME NEW f \in Flows, quiet'
               PROVE  sum[f] = Added(flows[f]) + Due(f)'
    BY Zenon DEF SumInv, DelayInv
  <2>1. Due(f) = 0 /\ Due(f)' = 0
    BY <1>1, Zenon DEF Due
  <2> QED
    BY <1>1, <2>1, Zenon DEF SumInv, DelayInv
<1>3. BoundInv'
  <2>1. CASE arrived' = arrived
    BY <2>1, DelayBounds, Zenon
  <2>2. CASE \E p \in Packets : Ignore(p)
    <3>1. /\ arrived \in Nat /\ arrived' = arrived + 1 /\ arrived < MaxPackets
          /\ MaxPackets \in Nat
      BY <2>2, CrudeAssumption, Zenon DEF Ignore, DelayInv, BoundInv, CrudeAssumption
    <3>2. ASSUME NEW f \in Flows PROVE flows[f].rec <= arrived'
      <4>1. flows[f].rec <= arrived /\ flows[f].rec \in Nat
        BY Zenon DEF DelayInv, BoundInv, Inv, TypeOK, Stats
      <4> QED
        BY <3>1, <4>1
    <3>3. ASSUME NEW f \in Flows, NEW max \in Nat, \A d \in Delays : InMicroseconds(d) <= max
          PROVE  sum[f] <= arrived' * max
      <4>1. sum[f] <= arrived * max /\ sum[f] \in Int
        BY <3>3, Zenon DEF DelayInv, BoundInv, SumInv
      <4>2. arrived' * max = arrived * max + max /\ arrived * max \in Int
        BY ONLY <3>1, max \in Nat
      <4> QED
        BY ONLY <4>1, <4>2, max \in Nat
    <3> QED
      BY <3>1, <3>2, <3>3 DEF BoundInv
  <2>3. arrived' = arrived \/ \E p \in Packets : Ignore(p)
    BY Zenon DEF ReceiveFails, CountPacket, print_stats, crude_handler, history
  <2> QED
    BY <2>1, <2>2, <2>3, Zenon
<1>4. AverageInv'
  <2>1. CASE print_stats
    BY <2>1 DEF print_stats, AverageInv, Result, Inv, TypeOK, Stats
  <2>2. CASE ~print_stats
    BY <2>2, Zenon DEF AverageInv, Ignore, ReceiveFails, CountPacket, crude_handler
  <2> QED
    BY <2>1, <2>2, Zenon
<1> QED
  BY <1>2, <1>3, <1>4, Zenon DEF DelayInv

\* The two numbers that runtime_stats adds up hold the sum of the delays.
THEOREM DelaysAddedUp == Spec => []DelayInv
<1>1. Inv /\ DelayInv /\ [Next]_vars => DelayInv'
  <2> SUFFICES ASSUME Inv, DelayInv, [Next]_vars PROVE DelayInv'
    BY Zenon
  <2>1. CASE \E p \in Packets : Receive(p)
    BY <2>1, DelayReceive, Zenon
  <2>2. CASE \/ \E p \in Packets : Ignore(p)
             \/ ReceiveFails \/ CountPacket \/ print_stats \/ crude_handler
    <3>1. flows' = flows /\ seqs' = seqs /\ sum' = sum
      BY <2>2, Zenon DEF Ignore, ReceiveFails, CountPacket, print_stats, crude_handler, history
    <3> QED
      BY <2>2, <3>1, DelayIdle, Zenon
  <2>3. CASE Classify
    BY <2>3, DelayClassify, Zenon
  <2>4. CASE Sums
    BY <2>4, DelaySums, Zenon
  <2>5. CASE UpdateLast
    BY <2>5, DelayLast, Zenon
  <2>6. CASE UNCHANGED vars
    BY <2>6, Zenon DEF vars, history, DelayInv, SumInv, BoundInv, AverageInv, Due
  <2> QED
    BY <2>1, <2>2, <2>3, <2>4, <2>5, <2>6, Zenon DEF Next, runtime_stats
<1> QED
  BY Invariance, DelayInit, <1>1, PTL DEF Spec

\* What print_stats computes for a sum t of delays below a second on average.
LEMMA AverageOf ==
    ASSUME NEW s \in Stats, s.rec >= 2, s.rec < Word, s.ds_sec \in 0 .. s.rec - 1,
           Added(s) >= 0, Added(s) < Word
    PROVE  InMicroseconds(Average(s)) = Added(s) \div s.rec
<1>1. /\ s.rec \in Nat /\ s.ds_sec \in Nat /\ s.ds_usec \in Int /\ Added(s) \in Nat
      /\ Word \in Nat /\ Word > 0 /\ Second \in Nat /\ Second > 0
  BY DelayFacts, CrudeAssumption DEF CrudeAssumption, Stats
<1>2. PICK t \in Nat, r \in Nat, a \in Nat, W \in Nat, S \in Nat :
         t = Added(s) /\ r = s.rec /\ a = s.ds_sec /\ W = Word /\ S = Second
  BY <1>1, Zenon
<1>3. r >= 2 /\ r < W /\ a < r /\ t < W /\ S > 0
  BY <1>1, <1>2
<1>4. a % W = a /\ a % r = a /\ a \div r = 0 /\ t % W = t
  BY ONLY <1>3, a \in Nat, r \in Nat, W \in Nat, t \in Nat
<1>5. s.ds_usec + Second * (Unsigned(s.ds_sec) % s.rec) = t
  <2>1. Unsigned(s.ds_sec) % s.rec = a
    BY <1>2, <1>4, Zenon DEF Unsigned
  <2>2. s.ds_usec + Second * a = a * Second + s.ds_usec
    BY ONLY <1>1, a \in Nat
  <2> QED
    BY <1>2, <2>1, <2>2, Zenon DEF Added
<1>6. PICK u \in Nat : u = t \div r /\ 2 * u < W
  <2>1. t \div r \in Nat /\ r * (t \div r) <= t
    BY ONLY <1>3, r \in Nat, t \in Nat
  <2>2. 2 * (t \div r) <= r * (t \div r)
    BY ONLY <1>3, <2>1, r \in Nat
  <2> QED
    BY <1>3, <2>1, <2>2
<1>7. Signed(Unsigned(s.ds_usec + Second * (Unsigned(s.ds_sec) % s.rec)) \div s.rec) = u
  BY <1>2, <1>4, <1>5, <1>6, Zenon DEF Unsigned, Signed
<1>8. Signed(Unsigned(s.ds_sec) \div s.rec) = 0
  BY <1>1, <1>2, <1>4 DEF Unsigned, Signed
<1>9. Average(s) = [sec |-> 0 + u \div Second, usec |-> u % Second]
  BY <1>7, <1>8, Zenon DEF Average
<1>10. u \div S \in Nat /\ u % S \in Nat /\ S * (u \div S) + (u % S) = u
  BY ONLY <1>3, u \in Nat, S \in Nat, Division, Zenon
<1>11. Average(s).sec = u \div S /\ Average(s).usec = u % S
  BY ONLY <1>2, <1>9, <1>10
<1>12. InMicroseconds(Average(s)) = (u \div S) * S + (u % S)
  BY ONLY <1>2, <1>11, Zenon DEF InMicroseconds
<1>13. (u \div S) * S = S * (u \div S)
  BY ONLY <1>10, S \in Nat
<1>14. InMicroseconds(Average(s)) = u
  BY ONLY <1>10, <1>12, <1>13, Zenon
<1> QED
  BY ONLY <1>2, <1>6, <1>14, Zenon

\* For delays below a second on average print_stats prints the sum of the delays
\* but the first, divided by the number of packets.
THEOREM AverageCorrect == Spec => []AverageRight
<1>1. Inv /\ DelayInv => AverageRight
  <2> SUFFICES ASSUME Inv, DelayInv, pc = "exit", quiet, NEW f \in Flows,
                      flows[f].rec >= 2, sum[f] >= 0, flows[f].ds_sec \in 0 .. flows[f].rec - 1
               PROVE  InMicroseconds(printed[f].average) = sum[f] \div flows[f].rec
    BY Zenon DEF AverageRight
  <2>1. flows[f] \in Stats /\ printed[f].average = Average(flows[f])
    BY Zenon DEF Inv, TypeOK, DelayInv, AverageInv
  <2>2. sum[f] = Added(flows[f])
    <3>1. Due(f) = 0 /\ sum[f] = Added(flows[f]) + Due(f)
      BY Zenon DEF DelayInv, SumInv, Due
    <3> QED
      BY <2>1, <3>1, DelayFacts
  <2>3. PICK max \in 0 .. Word : /\ \A d \in Delays : InMicroseconds(d) <= max
                                 /\ MaxPackets * max < Word
    BY CrudeAssumption, Zenon DEF CrudeAssumption, InMicroseconds
  <2>4. /\ arrived \in Nat /\ MaxPackets \in Nat /\ Word \in Nat /\ max \in Nat
        /\ flows[f].rec \in Nat /\ sum[f] \in Int
        /\ arrived <= MaxPackets /\ MaxPackets < Word /\ flows[f].rec <= arrived
    BY <2>1, CrudeAssumption DEF CrudeAssumption, DelayInv, BoundInv, SumInv, Stats
  <2>5. sum[f] <= arrived * max
    BY <2>3, <2>4, Zenon DEF DelayInv, BoundInv
  <2>6. arrived * max <= MaxPackets * max
    BY ONLY <2>4
  <2>7. sum[f] < Word /\ flows[f].rec < Word
    <3>1. arrived * max \in Nat /\ MaxPackets * max \in Nat
      BY ONLY <2>4
    <3> QED
      BY ONLY <2>3, <2>4, <2>5, <2>6, <3>1
  <2> QED
    BY <2>1, <2>2, <2>7, AverageOf, Zenon
<1> QED
  BY Invariance, DelaysAddedUp, <1>1, PTL
-----------------------------------------------------------------------------
(* Packets lost *)

INSTANCE FiniteSetTheorems

\* Without duplicates there are as many numbers as packets.
CountInv ==
    \A f \in Flows :
       /\ IsFiniteSet(seqs[f])
       /\ f \notin dup => flows[f].rec = Cardinality(seqs[f])


\* Receiving a packet adds one number and one packet, or a duplicate.
LEMMA CountReceive ==
    ASSUME Inv, CountInv, NEW p \in Packets, Receive(p)
    PROVE  CountInv'
<1> DEFINE g == p.flowid
<1>1. /\ flows \in [Flows -> Stats] /\ seqs \in [Flows -> SUBSET Numbers] /\ g \in Flows
      /\ \A f \in Flows : flows[f].rec \in Nat
  BY Zenon DEF Inv, TypeOK, Stats, Receive
<1>4. /\ flows'[g].rec = flows[g].rec + 1
      /\ seqs'[g] = seqs[g] \cup {p.seq}
      /\ \A f \in Flows \ {g} : flows'[f] = flows[f] /\ seqs'[f] = seqs[f]
  BY <1>1, Zenon DEF Stats, Receive
<1> QED
  <2> SUFFICES ASSUME NEW f \in Flows
               PROVE  /\ IsFiniteSet(seqs'[f])
                      /\ f \notin dup' => flows'[f].rec = Cardinality(seqs'[f])
    BY Zenon DEF CountInv
  <2>1. /\ IsFiniteSet(seqs[f])
        /\ f \notin dup => flows[f].rec = Cardinality(seqs[f])
    BY Zenon DEF CountInv
  <2>2. CASE f # g
    BY <1>4, <2>1, <2>2, Zenon DEF Receive
  <2>3. CASE f = g
    <3>1. /\ IsFiniteSet(seqs[f] \cup {p.seq})
          /\ p.seq \notin seqs[f] => Cardinality(seqs[f] \cup {p.seq}) = Cardinality(seqs[f]) + 1
      BY <2>1, FS_AddElement, Zenon
    <3>2. f \notin dup' => f \notin dup /\ p.seq \notin seqs[f]
      BY <2>3, Zenon DEF Receive
    <3> QED
      BY <1>4, <2>1, <2>3, <3>1, <3>2, Zenon
  <2> QED
    BY <2>2, <2>3, Zenon

\* Without duplicates the packets received are as many as their numbers.
THEOREM Counted == Spec => []CountInv
<1>1. Init => CountInv
  BY FS_EmptySet DEF Init, CountInv, NoStats
<1>2. Inv /\ CountInv /\ [Next]_vars => CountInv'
  <2> SUFFICES ASSUME Inv, CountInv, [Next]_vars PROVE CountInv'
    BY Zenon
  <2>1. CASE \E p \in Packets : Receive(p)
    BY <2>1, CountReceive, Zenon
  <2>2. CASE Classify
    <3>1. /\ flows \in [Flows -> Stats] /\ pkt.flowid \in Flows /\ pkt.seq \in Nat
          /\ seqs' = seqs /\ dup' = dup
          /\ flows' = [flows EXCEPT ![pkt.flowid] = Classified(@, pkt.seq)]
      BY <2>2, PacketFacts, NumberFacts, Zenon DEF Classify, Inv, TypeOK, history
    <3>2. \A f \in Flows : flows'[f].rec = flows[f].rec
      BY <3>1, ClassifiedFacts
    <3> QED
      BY <3>1, <3>2, Zenon DEF CountInv
  <2>3. CASE Sums
    <3>1. /\ flows \in [Flows -> Stats] /\ pkt.flowid \in Flows /\ seqs' = seqs /\ dup' = dup
      BY <2>3, Zenon DEF Sums, Inv, TypeOK, history
    <3>2. \A f \in Flows : flows'[f].rec = flows[f].rec
      BY <2>3, <3>1 DEF Sums, Summed, Stats
    <3> QED
      BY <3>1, <3>2, Zenon DEF CountInv
  <2>4. CASE UpdateLast
    <3>1. /\ flows \in [Flows -> Stats] /\ pkt.flowid \in Flows /\ seqs' = seqs /\ dup' = dup
      BY <2>4, Zenon DEF UpdateLast, Inv, TypeOK, history
    <3>2. \A f \in Flows : flows'[f].rec = flows[f].rec
      BY <2>4, <3>1, Zenon DEF UpdateLast, Stats
    <3> QED
      BY <3>1, <3>2, Zenon DEF CountInv
  <2>5. CASE \/ UNCHANGED vars \/ \E p \in Packets : Ignore(p)
             \/ ReceiveFails \/ CountPacket \/ print_stats \/ crude_handler
    <3>1. flows' = flows /\ seqs' = seqs /\ dup' = dup
      BY <2>5, Zenon DEF Ignore, ReceiveFails, CountPacket, print_stats, crude_handler, history, vars
    <3> QED
      BY <3>1, Zenon DEF CountInv
  <2> QED
    BY <2>1, <2>2, <2>3, <2>4, <2>5, Zenon DEF Next, runtime_stats
<1> QED
  BY Invariance, <1>1, <1>2, PTL DEF Spec

\* The difference of the numbers and the packets received is the number of gaps.
LEMMA Missing ==
    ASSUME NEW lo \in Nat, NEW hi \in Nat, NEW S \in SUBSET Nat, IsFiniteSet(S),
           lo \in S, hi \in S, \A n \in S : lo <= n /\ n <= hi
    PROVE  /\ Cardinality((lo .. hi) \ S) \in Nat
           /\ Cardinality((lo .. hi) \ S) = hi - lo + 1 - Cardinality(S)
<1>1. lo <= hi
  BY Zenon
<1>2. IsFiniteSet(lo .. hi) /\ Cardinality(lo .. hi) = hi - lo + 1
  BY <1>1, FS_Interval
<1>3. (lo .. hi) \cap S = S
  <2>1. \A n \in S : n \in lo .. hi
    OBVIOUS
  <2> QED
    BY <2>1, Zenon
<1>4. /\ IsFiniteSet((lo .. hi) \ S)
      /\ Cardinality((lo .. hi) \ S) = Cardinality(lo .. hi) - Cardinality((lo .. hi) \cap S)
  BY <1>2, FS_Difference, Zenon
<1>5. Cardinality((lo .. hi) \ S) \in Nat
  BY <1>4, FS_CardinalityType, Zenon
<1>6. Cardinality((lo .. hi) \ S) = hi - lo + 1 - Cardinality(S)
  <2>1. PICK a \in Nat, b \in Nat, c \in Nat :
           /\ a = Cardinality((lo .. hi) \ S) /\ b = Cardinality(lo .. hi)
           /\ c = Cardinality((lo .. hi) \cap S)
    <3>1. IsFiniteSet((lo .. hi) \cap S)
      BY <1>3, Zenon
    <3>2. Cardinality((lo .. hi) \cap S) \in Nat /\ Cardinality(lo .. hi) \in Nat
      BY <1>2, <3>1, FS_CardinalityType, Zenon
    <3> QED
      BY <1>5, <3>2, Zenon
  <2>2. a = b - c
    BY <1>4, <2>1, Zenon
  <2>3. b = hi - lo + 1
    BY <1>2, <2>1, Zenon
  <2>4. c = Cardinality(S)
    BY <1>3, <2>1, Zenon
  <2>5. a = hi - lo + 1 - c
    BY ONLY <2>2, <2>3
  <2> QED
    BY ONLY <2>1, <2>4, <2>5, Zenon
<1> QED
  BY <1>5, <1>6, Zenon

\* Without duplicates lost(est) is exact when no update is interrupted.
THEOREM LostCorrect == Spec => []LostExact
<1>1. Inv /\ CountInv => LostExact
  <2> SUFFICES ASSUME Inv, CountInv, pc = "exit", quiet, NEW f \in Flows \ dup, flows[f].rec > 0
               PROVE  printed[f].lost = Cardinality((flows[f].seqmin .. flows[f].seq) \ seqs[f])
    BY Zenon DEF LostExact
  <2>1. Settled(f)
    BY Zenon DEF Settled, Updating
  <2>2. /\ {flows[f].seqmin, flows[f].seq} \subseteq seqs[f]
        /\ \A n \in seqs[f] : flows[f].seqmin <= n /\ n <= flows[f].seq
        /\ IsFiniteSet(seqs[f]) /\ flows[f].rec = Cardinality(seqs[f])
        /\ seqs[f] \in SUBSET Numbers
        /\ printed[f].lost = Lost(flows[f])
    BY <2>1, Zenon DEF Inv, SeqRange, CountInv, PrintedInv, TypeOK
  <2>3. PICK lo \in Nat, hi \in Nat : lo = flows[f].seqmin /\ hi = flows[f].seq /\ hi < ULONG_MAX
    BY <2>2, NumberFacts, Zenon
  <2>4. PICK m \in Nat, c \in Nat :
           /\ c = Cardinality(seqs[f]) /\ m = Cardinality((lo .. hi) \ seqs[f])
           /\ m = hi - lo + 1 - c
    <3>1. seqs[f] \in SUBSET Nat /\ lo \in seqs[f] /\ hi \in seqs[f]
      BY <2>2, <2>3, NumberFacts, Zenon
    <3>2. /\ Cardinality((lo .. hi) \ seqs[f]) \in Nat
          /\ Cardinality((lo .. hi) \ seqs[f]) = hi - lo + 1 - Cardinality(seqs[f])
      BY <2>2, <2>3, <3>1, Missing, Zenon
    <3>3. Cardinality(seqs[f]) \in Nat
      BY <2>2, FS_CardinalityType, Zenon
    <3> QED
      BY <3>2, <3>3, Zenon
  <2>5. c > 0 /\ flows[f].rec = c
    BY <2>2, <2>4, Zenon
  <2>6. Word \in Nat /\ m < Word
    BY <2>3, <2>4, <2>5, CrudeAssumption DEF CrudeAssumption, ULONG_MAX
  <2>7. Unsigned(m) = m
    BY <2>6 DEF Unsigned
  <2>8. Lost(flows[f]) = Unsigned(m)
    BY <2>3, <2>4, <2>5 DEF Lost
  <2> QED
    BY <2>2, <2>3, <2>4, <2>7, <2>8, Zenon
<1> QED
  BY Invariance, Counted, <1>1, PTL
-----------------------------------------------------------------------------

(* The program as a whole *)

\* Once runtime_stats was called there are flows and the handler is installed; it
\* ends with a retval that lets crude_exit print.  The rest is what keeps a second
\* invocation, which decodes a file, apart from a first one that gathered.
ReportInv ==
    /\ prints \in Nat
    /\ nflows = 0 => prints = 0
    /\ captured => nflows > 0 /\ installed
    /\ at \in {"options", "priority", "sigaction", "dispatch"} => ~captured /\ prints = 0
    /\ captured /\ at = "crude_exit" => retval >= 0
    /\ captured /\ at \in {"close", "exit", "gone"} => prints > 0
    /\ at \notin {"options", "gone"} => argv = {}
    /\ at = "options" => ~installed
    /\ at = "dispatch" => installed
    /\ at = "print" => nflows > 0
    /\ lpc = "recorded" => nflows = 0 /\ argv \subseteq {"d"}

\* The steps that main and the handler take in the recorder and the decoder.
LogNext ==
    \/ L!Open \/ L!Begin("file") \/ L!Begin("print") \/ L!Record \/ L!Decode
    \/ L!crude_handler

Halves == [kind : {"udp_data", "crude_struct"}, of : LogPackets]

Records == [udp_data : LogPackets \cup {NoData}, crude_struct : LogPackets \cup {NoData}]

LogTypes ==
    /\ received \in Seq(LogPackets)
    /\ file \in Seq(Halves)
    /\ output \in Seq(Records)
    /\ buffer \in Records
    /\ read \in Nat

\* The halves in the file are those of the packets received, in order.
FileHolds ==
    \A i \in 1 .. Len(received) :
       /\ 2 * i - 1 <= Len(file) => file[2 * i - 1].of = received[i]
       /\ 2 * i <= Len(file) => file[2 * i].of = received[i]

\* Everything printed so far is whole.
OutputWhole == \A i \in 1 .. Len(output) : output[i] = L!Whole(received[i])

\* rec_n_print is behind by the packet at hand.
PrintInv ==
    /\ lpc = "print" => mode = "print"
    /\ lpc \in {"recv", "print"} /\ mode = "print" =>
          /\ file = <<>> /\ OutputWhole
          /\ Len(output) = IF lpc = "recv" THEN Len(received) ELSE Len(received) - 1

\* rec_to_file is behind by the halves of the packet at hand that are not written.
RecordInv ==
    /\ lpc \in {"udp_data", "crude_struct"} => mode = "file"
    /\ lpc = "recv" /\ mode = "file" => Len(file) = 2 * Len(received)
    /\ lpc = "udp_data" => Len(file) = 2 * Len(received) - 2
    /\ lpc = "crude_struct" => Len(file) = 2 * Len(received) - 1
    /\ lpc \in {"recorded", "decode"} =>
          Len(file) \in 2 * Len(received) - 2 .. 2 * Len(received)
    /\ lpc \in {"udp_data", "crude_struct", "recorded"} \/ (lpc = "recv" /\ mode = "file") =>
          output = <<>> /\ read = 0

\* The decoder has printed one record for every two halves read, and one more for
\* a last half alone.
DecodeInv ==
    lpc = "decode" =>
       /\ read <= Len(file)
       /\ read = 2 * Len(output) \/ (read = Len(file) /\ read = 2 * Len(output) - 1)
       /\ \A i \in 1 .. Len(output) :
             2 * i <= Len(file) => output[i] = L!Whole(received[i])

LogInv ==
    /\ LogTypes /\ FileHolds /\ PrintInv /\ RecordInv /\ DecodeInv
    /\ lpc = "idle" => received = <<>> /\ file = <<>> /\ output = <<>> /\ read = 0
    /\ mode \in {"file", "print"}
    /\ RoundTrip
-----------------------------------------------------------------------------
\* Every step of the program is a step of the statistics or leaves them alone, and
\* a step of recorder and decoder or leaves those alone.
LEMMA CrudeSteps == CrudeNext => [Next]_vars /\ [LogNext]_log
<1> SUFFICES ASSUME CrudeNext PROVE [Next]_vars /\ [LogNext]_log
  BY Zenon
<1>1. CASE \E o \in Options : Option(o)
  BY <1>1, Zenon DEF Option
<1>2. CASE OptionsRead \/ RaisePriority \/ InstallHandler \/ make_conn_fails
  BY <1>2, Zenon DEF OptionsRead, RaisePriority, InstallHandler, make_conn_fails
<1>3. CASE decode_file
  BY <1>3, Zenon DEF decode_file, LogNext
<1>4. CASE make_conn
  BY <1>4, Zenon DEF make_conn, LogNext
<1>5. CASE Gather
  BY <1>5, Zenon DEF Gather, Next
<1>6. CASE RecordOrDecode
  BY <1>6, Zenon DEF RecordOrDecode, LogNext
<1>7. CASE PrintResults
  BY <1>7, Zenon DEF PrintResults, Next
<1>8. CASE crude_exit \/ GiveBack \/ Leave \/ Killed \/ DecodeLater
  BY <1>8, Zenon DEF crude_exit, GiveBack, Leave, Killed, DecodeLater
<1>9. CASE Interrupted
  BY <1>9, Zenon DEF Interrupted, Next, LogNext
<1>10. CASE HandlerExits
  BY <1>10, Zenon DEF HandlerExits, Next
<1> QED
  BY <1>1, <1>2, <1>3, <1>4, <1>5, <1>6, <1>7, <1>8, <1>9, <1>10, Zenon DEF CrudeNext, main

\* crude, with its options, priorities, signals and invocations, implements the
\* statistics: main and crude_handler take no step that runtime_stats, print_stats
\* and the handler of CrudeStats do not allow.
THEOREM ImplementsStats == CrudeSpec => Spec
<1>1. CrudeInit => Init
  BY Zenon DEF CrudeInit
<1>2. [CrudeNext]_crudeVars => [Next]_vars
  BY CrudeSteps, Zenon DEF crudeVars
<1> QED
  BY <1>1, <1>2, PTL DEF CrudeSpec, Spec

-----------------------------------------------------------------------------
\* A step of main or of the handler keeps what is known about the report.
LEMMA ReportStep ==
    ASSUME ReportInv, CrudeNext
    PROVE  ReportInv'
<1>1. ASSUME NEW o \in Options, Option(o) PROVE ReportInv'
  <2>1. /\ at = "options" /\ at' = at /\ argv' = argv \ {o} /\ o \in argv /\ captured' = captured
        /\ prints' = prints /\ installed' = installed /\ lpc' = lpc
        /\ o = "d" => nflows' = nflows
    BY <1>1, Zenon DEF Option, FlowsAfter, ending, log
  <2>2. ~captured /\ prints = 0 /\ ~installed
    BY <2>1, Zenon DEF ReportInv
  <2>3. lpc' = "recorded" => nflows' = 0 /\ argv' \subseteq {"d"}
    BY <2>1, Zenon DEF ReportInv
  <2> QED
    BY <2>1, <2>2, <2>3, Zenon DEF ReportInv
<1>2. CASE OptionsRead
  BY <1>2, Zenon DEF OptionsRead, ReportInv, capture, ending, log
<1>3. CASE RaisePriority
  BY <1>3, Zenon DEF RaisePriority, ReportInv, options, capture, log
<1>4. CASE InstallHandler
  BY <1>4, Zenon DEF InstallHandler, ReportInv, options, capture, log
<1>5. CASE decode_file
  <2>1. lpc' = "recorded" => lpc = "recorded"
    BY <1>5, Zenon DEF decode_file, L!Open, log
  <2> QED
    BY <1>5, <2>1, Zenon DEF decode_file, ReportInv, options, capture, ending
<1>6. CASE make_conn_fails
  BY <1>6, Zenon DEF make_conn_fails, ReportInv, options, ending, log
<1>7. CASE make_conn
  <2>1. lpc' = "recorded" => lpc = "recorded"
    BY <1>7, Zenon DEF make_conn, L!Begin, log
  <2> QED
    BY <1>7, <2>1, Zenon DEF make_conn, ReportInv, options, ending
<1>8. CASE Gather
  BY <1>8 DEF Gather, Return, ReportInv, options, capture, ending, log
<1>9. CASE RecordOrDecode
  <2>1. at = "run" /\ nflows = 0 /\ argv = {}
    BY <1>9, Zenon DEF RecordOrDecode, ReportInv
  <2> QED
    BY <1>9, <2>1 DEF RecordOrDecode, Return, ReportInv, options, capture, ending
<1>10. CASE crude_exit
  BY <1>10, Zenon DEF crude_exit, ReportInv, options, capture, log
<1>11. CASE PrintResults
  BY <1>11 DEF PrintResults, ReportInv, options, capture, log
<1>12. CASE GiveBack
  BY <1>12, Zenon DEF GiveBack, ReportInv, options, capture, log
<1>13. CASE Leave
  BY <1>13, Zenon DEF Leave, ReportInv, options, capture, ending, log
<1>14. CASE Killed
  BY <1>14, Zenon DEF Killed, ReportInv, options, capture, ending, log
<1>15. CASE Interrupted
  <2>1. /\ at \notin {"options", "gone"} /\ at' = "handler" /\ argv' = argv /\ nflows' = nflows
        /\ prints' = prints /\ captured' = captured /\ installed' = installed
        /\ (nflows # 0 => lpc' = lpc)
    BY <1>15, Zenon DEF Interrupted, ReportInv, options, capture, log
  <2> QED
    BY <2>1, Zenon DEF ReportInv
<1>16. CASE HandlerExits
  BY <1>16 DEF HandlerExits, ReportInv, options, capture, log
<1>17. CASE DecodeLater
  <2>1. /\ lpc = "recorded" /\ lpc' = lpc /\ at' = "options" /\ argv' = {"d"} /\ nflows' = 0
        /\ installed' = FALSE /\ prints' = prints /\ captured' = captured
    BY <1>17, Zenon DEF DecodeLater, Starts, log
  <2>2. nflows = 0 /\ prints = 0 /\ ~captured
    BY <2>1 DEF ReportInv
  <2> QED
    BY <2>1, <2>2, Zenon DEF ReportInv
<1> QED
  BY <1>1, <1>2, <1>3, <1>4, <1>5, <1>6, <1>7, <1>8, <1>9, <1>10, <1>11, <1>12, <1>13,
     <1>14, <1>15, <1>16, <1>17, SMTT(30) DEF CrudeNext, main

\* Whatever was gathered is reported before the program is gone.
THEOREM EverythingReported == CrudeSpec => []Reported
<1>1. CrudeInit => ReportInv
  BY DEF CrudeInit, ReportInv, L!Init
<1>2. ReportInv /\ [CrudeNext]_crudeVars => ReportInv'
  <2> SUFFICES ASSUME ReportInv, [CrudeNext]_crudeVars PROVE ReportInv'
    BY Zenon
  <2>1. CASE UNCHANGED crudeVars
    BY <2>1, Zenon DEF crudeVars, options, capture, ending, log, ReportInv
  <2> QED
    BY <2>1, ReportStep, Zenon
<1>3. ReportInv => Reported
  BY Zenon DEF ReportInv, Reported
<1> QED
  BY <1>1, <1>2, <1>3, PTL DEF CrudeSpec
-----------------------------------------------------------------------------
\* Appending to a sequence.
LEMMA Appended ==
    ASSUME NEW S, NEW s \in Seq(S), NEW e \in S
    PROVE  /\ Append(s, e) \in Seq(S)
           /\ Len(s) \in Nat
           /\ Len(Append(s, e)) = Len(s) + 1
           /\ \A i \in 1 .. Len(s) : Append(s, e)[i] = s[i]
           /\ Append(s, e)[Len(s) + 1] = e
OBVIOUS

\* main calls the recorder or the decoder.
LEMMA LogCalls ==
    ASSUME LogInv, L!Open \/ L!Begin("file") \/ L!Begin("print")
    PROVE  LogInv'
<1>1. /\ file' = file /\ read' = read /\ buffer' = buffer /\ output' = output
      /\ received' = received
  BY Zenon DEF L!Open, L!Begin
<1>2. LogTypes' /\ FileHolds'
  BY <1>1, Zenon DEF LogInv, LogTypes, FileHolds
<1>3. CASE L!Open
  <2>1. lpc \in {"idle", "recorded"} /\ lpc' = "decode" /\ mode' = mode
    BY <1>3, Zenon DEF L!Open
  <2>2. output = <<>> /\ read = 0 /\ Len(file) \in 2 * Len(received) - 2 .. 2 * Len(received)
    BY <2>1 DEF LogInv, RecordInv
  <2>3. Len(output) = 0 /\ Len(file) \in Nat
    BY <2>2 DEF LogInv, LogTypes
  <2>4. RecordInv' /\ PrintInv' /\ RoundTrip'
    BY <1>1, <2>1, <2>2, Zenon DEF RecordInv, PrintInv, RoundTrip, L!RoundTrip
  <2>5. DecodeInv'
    BY <1>1, <2>1, <2>2, <2>3, SMTT(30) DEF DecodeInv
  <2> QED
    BY <1>2, <2>1, <2>4, <2>5, Zenon DEF LogInv
<1>4. CASE L!Begin("file") \/ L!Begin("print")
  <2>1. lpc = "idle" /\ lpc' = "recv" /\ mode' \in {"file", "print"}
    BY <1>4, Zenon DEF L!Begin
  <2>2. received = <<>> /\ file = <<>> /\ output = <<>> /\ read = 0
    BY <2>1, Zenon DEF LogInv
  <2>3. RecordInv' /\ PrintInv'
    BY <1>1, <2>1, <2>2 DEF RecordInv, PrintInv, OutputWhole
  <2>4. DecodeInv' /\ RoundTrip'
    BY <2>1, Zenon DEF DecodeInv, RoundTrip, L!RoundTrip
  <2> QED
    BY <1>2, <2>1, <2>3, <2>4, Zenon DEF LogInv
<1> QED
  BY <1>3, <1>4, Zenon

\* A packet is received.
LEMMA LogReceive ==
    ASSUME LogInv, NEW p \in LogPackets, L!Receive(p)
    PROVE  LogInv'
<1> DEFINE n == Len(received)
<1>1. /\ lpc = "recv" /\ lpc' = IF mode = "file" THEN "udp_data" ELSE "print"
      /\ mode' = mode /\ mode \in {"file", "print"}
      /\ file' = file /\ read' = read /\ buffer' = buffer /\ output' = output
      /\ received' = Append(received, p)
  BY Zenon DEF L!Receive, LogInv
<1>2. /\ received \in Seq(LogPackets) /\ file \in Seq(Halves) /\ output \in Seq(Records)
      /\ Len(file) \in Nat /\ Len(output) \in Nat
  BY DEF LogInv, LogTypes
<1>3. /\ received' \in Seq(LogPackets) /\ n \in Nat /\ Len(received') = n + 1
      /\ \A i \in 1 .. n : received'[i] = received[i]
  BY <1>1, <1>2, Appended
<1>4. LogTypes'
  BY <1>1, <1>3, Zenon DEF LogInv, LogTypes
<1>5. Len(file) <= 2 * n /\ Len(output) <= n
  BY <1>1, <1>2, <1>3 DEF LogInv, PrintInv, RecordInv
<1>6. FileHolds'
  <2> SUFFICES ASSUME NEW i \in 1 .. Len(received')
               PROVE  /\ 2 * i - 1 <= Len(file) => file[2 * i - 1].of = received'[i]
                      /\ 2 * i <= Len(file) => file[2 * i].of = received'[i]
    BY <1>1, Zenon DEF FileHolds
  <2>1. CASE i <= n
    <3>1. i \in 1 .. n
      BY <1>3, <2>1
    <3> QED
      BY <1>3, <3>1, Zenon DEF LogInv, FileHolds
  <2>2. CASE i = n + 1
    BY <1>2, <1>3, <1>5, <2>2
  <2> QED
    BY <1>3, <2>1, <2>2
<1>7. PrintInv'
  <2> SUFFICES ASSUME mode = "print"
               PROVE  file = <<>> /\ OutputWhole' /\ Len(output) = n + 1 - 1
    BY <1>1, <1>3 DEF PrintInv
  <2>1. file = <<>> /\ OutputWhole /\ Len(output) = n
    BY <1>1, Zenon DEF LogInv, PrintInv
  <2>2. OutputWhole'
    BY <1>1, <1>3, <2>1, Zenon DEF OutputWhole, L!Whole
  <2> QED
    BY <1>3, <2>1, <2>2
<1>8. RecordInv'
  BY <1>1, <1>3 DEF LogInv, RecordInv
<1>9. DecodeInv' /\ RoundTrip'
  BY <1>1, Zenon DEF DecodeInv, RoundTrip, L!RoundTrip
<1> QED
  BY <1>1, <1>4, <1>6, <1>7, <1>8, <1>9, Zenon DEF LogInv

\* One of the two halves of a record is written.
LEMMA LogWrite ==
    ASSUME LogInv, L!WriteFirst \/ L!WriteSecond
    PROVE  LogInv'
<1> DEFINE n == Len(received)
           F == Len(file)
           cur == received[Len(received)]
<1>1. /\ lpc \in {"udp_data", "crude_struct"} /\ mode' = mode /\ mode = "file"
      /\ lpc = "udp_data" => lpc' = "crude_struct"
      /\ lpc = "crude_struct" => lpc' \in {"recorded", "recv"}
      /\ read' = read /\ buffer' = buffer /\ output' = output /\ received' = received
      /\ file' = Append(file, [kind |-> lpc, of |-> cur])
  BY Zenon DEF L!WriteFirst, L!WriteSecond, L!Half, L!Current, LogInv, RecordInv
<1>2. /\ received \in Seq(LogPackets) /\ file \in Seq(Halves) /\ n \in Nat /\ F \in Nat
      /\ lpc = "udp_data" => F = 2 * n - 2
      /\ lpc = "crude_struct" => F = 2 * n - 1
      /\ output = <<>> /\ read = 0
  BY <1>1 DEF LogInv, LogTypes, RecordInv
<1>3. n >= 1 /\ n \in 1 .. Len(received)
  BY <1>1, <1>2
<1>4. cur \in LogPackets
  BY <1>2, <1>3
<1>5. [kind |-> lpc, of |-> cur] \in Halves
  BY <1>1, <1>4, Zenon DEF Halves
<1>6. /\ file' \in Seq(Halves) /\ Len(file') = F + 1
      /\ \A i \in 1 .. F : file'[i] = file[i]
      /\ file'[F + 1].of = cur
  BY <1>1, <1>2, <1>5, Appended, SMTT(30)
<1>7. LogTypes'
  BY <1>1, <1>6, Zenon DEF LogInv, LogTypes
<1>8. FileHolds'
  <2> SUFFICES ASSUME NEW i \in 1 .. n
               PROVE  /\ 2 * i - 1 <= F + 1 => file'[2 * i - 1].of = received[i]
                      /\ 2 * i <= F + 1 => file'[2 * i].of = received[i]
    BY <1>1, <1>6, Zenon DEF FileHolds
  <2>1. /\ 2 * i - 1 <= F => file[2 * i - 1].of = received[i]
        /\ 2 * i <= F => file[2 * i].of = received[i]
    BY Zenon DEF LogInv, FileHolds
  <2>2. /\ 2 * i - 1 <= F => 2 * i - 1 \in 1 .. F
        /\ 2 * i <= F => 2 * i \in 1 .. F
    BY <1>2
  <2>3. /\ 2 * i - 1 = F + 1 => i = n
        /\ 2 * i = F + 1 => i = n
    BY <1>1, <1>2
  <2>4. 2 * i - 1 <= F + 1 => file'[2 * i - 1].of = received[i]
    <3>1. CASE 2 * i - 1 <= F
      BY <1>6, <2>1, <2>2, <3>1, Zenon
    <3>2. CASE 2 * i - 1 = F + 1
      BY <1>6, <2>3, <3>2, Zenon
    <3> QED
      BY <1>2, <3>1, <3>2
  <2>5. 2 * i <= F + 1 => file'[2 * i].of = received[i]
    <3>1. CASE 2 * i <= F
      BY <1>6, <2>1, <2>2, <3>1, Zenon
    <3>2. CASE 2 * i = F + 1
      BY <1>6, <2>3, <3>2, Zenon
    <3> QED
      BY <1>2, <3>1, <3>2, SMTT(30)
  <2> QED
    BY <2>4, <2>5, Zenon
<1>9. RecordInv'
  BY <1>1, <1>2, <1>6 DEF RecordInv
<1>10. PrintInv' /\ DecodeInv' /\ RoundTrip'
  BY <1>1, Zenon DEF PrintInv, DecodeInv, RoundTrip, L!RoundTrip
<1> QED
  BY <1>1, <1>7, <1>8, <1>9, <1>10, Zenon DEF LogInv

\* Before anything was decoded, all that is printed makes the round trip.
LEMMA PrintedRound ==
    ASSUME NEW n \in Nat, received \in Seq(LogPackets), n = Len(received), Len(output) \in Nat,
           OutputWhole, Len(output) \in n - 1 .. n
    PROVE  /\ Len(output) \in {Len(received), Len(received) - 1}
           /\ \A i \in 1 .. Len(received) - 1 : output[i] = L!Whole(received[i])
           /\ \A i \in 1 .. Len(output) : output[i] = L!Whole(received[i])
<1>1. \A i \in 1 .. Len(received) - 1 : i \in 1 .. Len(output)
  OBVIOUS
<1> QED
  BY <1>1 DEF OutputWhole

\* A packet is printed as it came.
LEMMA LogPrint ==
    ASSUME LogInv, L!rec_n_print
    PROVE  LogInv'
<1> DEFINE n == Len(received)
           cur == received[Len(received)]
           r == [udp_data |-> cur, crude_struct |-> cur]
<1>1. /\ lpc = "print" /\ lpc' \in {"done", "recv"} /\ mode' = mode /\ mode = "print"
      /\ file' = file /\ read' = read /\ buffer' = buffer /\ received' = received
      /\ output' = Append(output, r)
  BY Zenon DEF L!rec_n_print, L!Current, LogInv, PrintInv
<1>2. /\ received \in Seq(LogPackets) /\ output \in Seq(Records) /\ n \in Nat
      /\ Len(output) \in Nat /\ Len(output) = n - 1 /\ OutputWhole /\ file = <<>>
  BY <1>1 DEF LogInv, LogTypes, PrintInv
<1>3. n >= 1 /\ n \in 1 .. Len(received)
  BY <1>2
<1>4. cur \in LogPackets
  BY <1>2, <1>3
<1>5. r \in Records
  BY <1>4, Zenon DEF Records
<1> HIDE DEF r
<1>6. /\ output' \in Seq(Records) /\ Len(output') = n
      /\ \A i \in 1 .. n - 1 : output'[i] = output[i]
      /\ output'[n] = r
  <2>1. Len(output) + 1 = n
    BY <1>2
  <2> QED
    BY <1>1, <1>2, <1>5, <2>1, Appended, SMTT(30)
<1>7. OutputWhole'
  <2> SUFFICES ASSUME NEW i \in 1 .. n PROVE output'[i] = L!Whole(received[i])
    BY <1>1, <1>6, Zenon DEF OutputWhole, L!Whole
  <2>1. CASE i = n
    BY <1>6, <2>1, Zenon DEF r, L!Whole
  <2>2. CASE i # n
    BY <1>2, <1>6, <2>2 DEF OutputWhole
  <2> QED
    BY <2>1, <2>2, Zenon
<1>8. LogTypes' /\ FileHolds'
  BY <1>1, <1>6, Zenon DEF LogInv, LogTypes, FileHolds
<1>9. PrintInv'
  BY <1>1, <1>2, <1>6, <1>7, Zenon DEF PrintInv
<1>10. RecordInv' /\ DecodeInv'
  BY <1>1, Zenon DEF RecordInv, DecodeInv
<1>11. RoundTrip'
  <2>1. \A i \in 1 .. n : output'[i] = L!Whole(received[i])
    BY <1>1, <1>6, <1>7, Zenon DEF OutputWhole, L!Whole
  <2> QED
    BY <1>1, <1>2, <1>6, <2>1, SMTT(30) DEF RoundTrip, L!RoundTrip, L!Whole
<1> QED
  BY <1>1, <1>7, <1>8, <1>9, <1>10, <1>11, Zenon DEF LogInv

\* SIGINT in the middle of recording, printing or decoding.
LEMMA LogInterrupted ==
    ASSUME LogInv, L!crude_handler
    PROVE  LogInv'
<1>1. /\ lpc \in {"recv", "udp_data", "crude_struct", "print", "decode"}
      /\ lpc' = IF lpc = "decode" THEN "stopped" ELSE IF mode = "file" THEN "recorded" ELSE "done"
      /\ mode' = mode /\ mode \in {"file", "print"}
      /\ file' = file /\ read' = read /\ buffer' = buffer /\ received' = received
      /\ output' = output
  BY Zenon DEF L!crude_handler, LogInv
<1>2. LogTypes' /\ FileHolds' /\ PrintInv' /\ DecodeInv'
  BY <1>1, Zenon DEF LogInv, LogTypes, FileHolds, PrintInv, DecodeInv
<1>3. /\ Len(received) \in Nat /\ Len(file) \in Nat /\ Len(output) \in Nat
      /\ received \in Seq(LogPackets)
  BY DEF LogInv, LogTypes
<1>4. RecordInv'
  BY <1>1, <1>3 DEF LogInv, RecordInv, PrintInv
<1>5. RoundTrip'
  <2> SUFFICES ASSUME lpc' = "done" PROVE RoundTrip'
    BY Zenon DEF RoundTrip, L!RoundTrip
  <2>1. lpc \in {"recv", "print"} /\ mode = "print"
    BY <1>1, Zenon DEF LogInv, RecordInv
  <2>2. OutputWhole /\ Len(output) \in Len(received) - 1 .. Len(received)
    BY <1>3, <2>1 DEF LogInv, PrintInv
  <2>3. /\ Len(output) \in {Len(received), Len(received) - 1}
        /\ \A i \in 1 .. Len(received) - 1 : output[i] = L!Whole(received[i])
        /\ \A i \in 1 .. Len(output) : output[i] = L!Whole(received[i])
    BY <1>3, <2>2, PrintedRound, Zenon
  <2> QED
    BY <1>1, <2>3, Zenon DEF RoundTrip, L!RoundTrip, L!Whole
<1> QED
  BY <1>1, <1>2, <1>4, <1>5, Zenon DEF LogInv

\* A record, or a last half of one, is read and printed.
LEMMA LogDecode ==
    ASSUME LogInv, L!DecodeRecord
    PROVE  LogInv'
<1> DEFINE F == Len(file)
           o == Len(output)
           k == IF F - read >= 2 THEN 2 ELSE F - read
           r == [udp_data |-> file[read + 1].of,
                 crude_struct |-> IF k = 2 THEN file[read + 2].of ELSE buffer.crude_struct]
<1>1. /\ lpc = "decode" /\ lpc' = lpc /\ mode' = mode /\ read < F
      /\ file' = file /\ received' = received
      /\ buffer' = r /\ output' = Append(output, r) /\ read' = read + k
  BY Zenon DEF L!DecodeRecord, L!ReadSize, L!Filled
<1>2. /\ received \in Seq(LogPackets) /\ file \in Seq(Halves) /\ output \in Seq(Records)
      /\ F \in Nat /\ o \in Nat /\ read \in Nat /\ buffer \in Records /\ Len(received) \in Nat
  BY DEF LogInv, LogTypes
<1>3. /\ F <= 2 * Len(received) /\ read = 2 * o
      /\ \A i \in 1 .. o : 2 * i <= F => output[i] = L!Whole(received[i])
  BY <1>1, <1>2 DEF LogInv, RecordInv, DecodeInv
<1>4. \A i \in 1 .. F : file[i].of \in LogPackets
  <2>1. \A i \in 1 .. F : file[i] \in Halves
    BY ONLY <1>2
  <2> QED
    BY <2>1, Zenon DEF Halves
<1>5. k \in {1, 2} /\ read + k <= F /\ (k = 1 => read + 1 = F)
  BY <1>1, <1>2
<1> HIDE DEF k
<1>6. file[read + 1].of \in LogPackets /\ (k = 2 => file[read + 2].of \in LogPackets)
  <2>1. read + 1 \in 1 .. F /\ (k = 2 => read + 2 \in 1 .. F)
    BY <1>1, <1>2, <1>5
  <2> QED
    BY <1>4, <2>1, Zenon
<1>7. r \in Records
  BY <1>2, <1>6, Zenon DEF Records
<1>8. 2 * (o + 1) <= F => r = L!Whole(received[o + 1])
  <2> SUFFICES ASSUME 2 * (o + 1) <= F PROVE r = L!Whole(received[o + 1])
    BY Zenon
  <2>1. k = 2 /\ o + 1 \in 1 .. Len(received)
    BY <1>2, <1>3, <1>5
  <2>2. /\ 2 * (o + 1) - 1 <= Len(file) => file[2 * (o + 1) - 1].of = received[o + 1]
        /\ 2 * (o + 1) <= Len(file) => file[2 * (o + 1)].of = received[o + 1]
    BY <2>1, Zenon DEF LogInv, FileHolds
  <2>3. 2 * (o + 1) - 1 = read + 1 /\ 2 * (o + 1) = read + 2
    BY <1>2, <1>3
  <2>4. file[read + 1].of = received[o + 1] /\ file[read + 2].of = received[o + 1]
    BY <1>2, <2>2, <2>3
  <2> QED
    BY <2>1, <2>4, Zenon DEF L!Whole
<1> HIDE DEF r
<1>9. /\ output' \in Seq(Records) /\ Len(output') = o + 1
      /\ \A i \in 1 .. o : output'[i] = output[i]
      /\ output'[o + 1] = r
  BY <1>1, <1>2, <1>7, Appended, SMTT(30)
<1>10. LogTypes' /\ FileHolds'
  BY <1>1, <1>2, <1>5, <1>7, <1>9, SMTT(30) DEF LogInv, LogTypes, FileHolds
<1>11. DecodeInv'
  <2>1. ASSUME NEW i \in 1 .. o + 1, 2 * i <= F
        PROVE  output'[i] = L!Whole(received[i])
    <3>1. CASE i = o + 1
      BY <1>8, <1>9, <2>1, <3>1, Zenon
    <3>2. CASE i \in 1 .. o
      BY <1>3, <1>9, <2>1, <3>2, Zenon
    <3> QED
      BY <1>2, <3>1, <3>2
  <2>2. /\ read' <= F
        /\ read' = 2 * (o + 1) \/ (read' = F /\ read' = 2 * (o + 1) - 1)
    <3>1. read' = read + k /\ read = 2 * o /\ read \in Nat /\ o \in Nat /\ F \in Nat
      BY <1>1, <1>2, <1>3, Zenon
    <3> QED
      BY ONLY <1>5, <3>1
  <2> QED
    BY <1>1, <1>9, <2>1, <2>2, Zenon DEF DecodeInv, L!Whole
<1>12. PrintInv' /\ RoundTrip'
  BY <1>1, Zenon DEF PrintInv, RoundTrip, L!RoundTrip
<1>13. RecordInv'
  BY <1>1, Zenon DEF LogInv, RecordInv
<1> QED
  BY <1>1, <1>10, <1>11, <1>12, <1>13, Zenon DEF LogInv

\* The end of the file: every packet was printed, the last one perhaps not whole.
LEMMA LogEnd ==
    ASSUME LogInv, L!EndOfFile
    PROVE  LogInv'
<1> DEFINE F == Len(file)
           o == Len(output)
           n == Len(received)
<1>1. /\ lpc = "decode" /\ lpc' = "done" /\ read = F /\ mode' = mode
      /\ file' = file /\ received' = received /\ buffer' = buffer /\ output' = output
      /\ read' = read
  BY Zenon DEF L!EndOfFile
<1>2. F \in Nat /\ o \in Nat /\ n \in Nat /\ F \in 2 * n - 2 .. 2 * n
  BY <1>1 DEF LogInv, LogTypes, RecordInv
<1>3. \A i \in 1 .. o : 2 * i <= F => output[i] = L!Whole(received[i])
  BY <1>1, Zenon DEF LogInv, DecodeInv
<1>0. F = 2 * o \/ F = 2 * o - 1
  BY <1>1, Zenon DEF LogInv, DecodeInv
<1>4. o \in {n, n - 1}
  BY ONLY <1>0, <1>2
<1>5. ASSUME NEW i \in 1 .. n - 1 PROVE output[i] = L!Whole(received[i])
  <2>1. i \in 1 .. o /\ 2 * i <= F
    BY <1>2, <1>4
  <2> QED
    BY <1>3, <2>1, Zenon
<1>6. ASSUME F % 2 = 0, NEW i \in 1 .. o PROVE output[i] = L!Whole(received[i])
  <2>1. F = 2 * o
    BY ONLY <1>0, <1>2, <1>6
  <2>2. 2 * i <= F
    BY <1>2, <2>1
  <2> QED
    BY <1>3, <2>2, Zenon
<1>7. RoundTrip'
  BY <1>1, <1>4, <1>5, <1>6, Zenon DEF RoundTrip, L!RoundTrip, L!Whole
<1>8. LogTypes' /\ FileHolds' /\ PrintInv' /\ RecordInv' /\ DecodeInv'
  BY <1>1, Zenon DEF LogInv, LogTypes, FileHolds, PrintInv, RecordInv, DecodeInv
<1> QED
  BY <1>1, <1>7, <1>8, Zenon DEF LogInv

\* What is recorded and decoded, or printed at once, is what was received, in
\* order, but for a last packet that a signal cut in two.
THEOREM RoundTripCorrect == CrudeSpec => []RoundTrip
<1>1. CrudeInit => LogInv
  <2> SUFFICES ASSUME L!Init PROVE LogInv
    BY Zenon DEF CrudeInit
  <2>1. /\ received = <<>> /\ file = <<>> /\ output = <<>> /\ read = 0 /\ lpc = "idle"
        /\ mode = "print" /\ buffer = [udp_data |-> NoData, crude_struct |-> NoData]
    BY Zenon DEF L!Init
  <2>2. LogTypes
    BY <2>1 DEF LogTypes, Records
  <2>3. FileHolds /\ PrintInv /\ RecordInv /\ DecodeInv /\ RoundTrip
    BY <2>1 DEF FileHolds, PrintInv, RecordInv, DecodeInv, RoundTrip, L!RoundTrip
  <2> QED
    BY <2>1, <2>2, <2>3, Zenon DEF LogInv
<1>2. LogInv /\ [CrudeNext]_crudeVars => LogInv'
  <2> SUFFICES ASSUME LogInv, [LogNext]_log PROVE LogInv'
    BY CrudeSteps, Zenon DEF crudeVars
  <2>1. CASE UNCHANGED log
    BY <2>1 DEF log, LogInv, LogTypes, FileHolds, PrintInv, OutputWhole, RecordInv, DecodeInv,
                RoundTrip, L!RoundTrip, L!Whole
  <2>2. CASE LogNext
    BY <2>2, LogCalls, LogReceive, LogWrite, LogPrint, LogInterrupted, LogDecode, LogEnd, Zenon
       DEF LogNext, L!Record, L!Decode
  <2> QED
    BY <2>1, <2>2, Zenon
<1>3. LogInv => RoundTrip
  BY Zenon DEF LogInv
<1> QED
  BY <1>1, <1>2, <1>3, PTL DEF CrudeSpec
-----------------------------------------------------------------------------
\* What the program as a whole prints about its flows is right.
THEOREM ResultsCorrect == CrudeSpec => [](SeqRange /\ LostExact /\ AverageRight)
BY ImplementsStats, RangeCorrect, LostCorrect, AverageCorrect, PTL
=============================================================================

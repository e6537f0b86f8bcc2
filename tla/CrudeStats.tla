----------------------------- MODULE CrudeStats -----------------------------
(***************************************************************************)
(* crude -s (src/rude/crude/main.c): the packets of some flows are         *)
(* received and statistics are kept at run time, until the number of       *)
(* packets asked for has been counted or a signal comes, which may be in   *)
(* the middle of an update.  Packets are lost, duplicated and reordered by *)
(* the network: any number may arrive after any other.                     *)
(*                                                                         *)
(* A time is a number of seconds and a number of microseconds, as in the   *)
(* code; a delay is the difference of both numbers, so the second one may  *)
(* be negative.  Sizes of packets and the throughput are left out.         *)
(***************************************************************************)
EXTENDS Integers, FiniteSets

CONSTANTS
    Flows,        \* the flows statistics are gathered for
    Others,       \* other flows that send to the same port
    Numbers,      \* sequence numbers
    Delays,       \* differences of the times of reception and transmission
    Second,       \* microseconds in a second
    Word,         \* 2^64, the values of an unsigned long
    limit,        \* packets to count, 0 for no limit
    MaxPackets,   \* bound on the packets
    MaxFails      \* bound on the failures of recvfrom

\* The last two conjuncts: the packets can be counted in an unsigned long, and the
\* sum of their delays in microseconds fits in one.
ASSUME CrudeAssumption ==
    /\ Flows \cap Others = {}
    /\ Word \in Nat \ {0}
    /\ Numbers \subseteq Nat /\ \A n \in Numbers : n < Word - 1
    /\ \A d \in Delays : d.sec \in Int /\ d.usec \in Int
    /\ Second \in Nat \ {0}
    /\ limit \in Nat /\ MaxPackets \in Nat /\ MaxFails \in Nat
    /\ MaxPackets < Word
    /\ \E max \in 0 .. Word : /\ \A d \in Delays : d.sec * Second + d.usec <= max
                              /\ MaxPackets * max < Word

VARIABLES
    pc,
    flows,        \* the statistics of each flow
    pkt,          \* the packet at hand
    pkt_count,
    printed,      \* the results printed at the end
    arrived, fails,    \* packets received, failures of recvfrom
    seqs,         \* history: the sequence numbers received, for each flow
    dup,          \* history: the flows with a number received twice
    delays, sum,  \* history: the delays received and the sum of all but the
                  \* first, in microseconds, for each flow
    quiet         \* history: no update was under way when the results were printed

history == <<arrived, fails, seqs, dup, delays, sum>>
vars == <<pc, flows, pkt, pkt_count, printed, history, quiet>>

ULONG_MAX == Word - 1

Packets == [flowid : Flows \cup Others, seq : Numbers, delay : Delays]

InMicroseconds(d) == d.sec * Second + d.usec

\* The statistics before the first packet.
NoStats ==
    [rec |-> 0, oos |-> 0, seq |-> ULONG_MAX, seqmin |-> ULONG_MAX,
     ds_sec |-> 0, ds_usec |-> 0, js_sec |-> 0, js_usec |-> 0,
     max_jitter_sec |-> 0, max_jitter_usec |-> 0,
     last_delay_sec |-> 0, last_delay_usec |-> 0]

NoPacket == [flowid |-> "none"]
NoResult == [lost |-> 0, average |-> "none"]

Init ==
    /\ pc = "recv"
    /\ flows = [f \in Flows |-> NoStats]
    /\ pkt = NoPacket
    /\ pkt_count = 0
    /\ printed = [f \in Flows |-> NoResult]
    /\ arrived = 0 /\ fails = 0
    /\ seqs = [f \in Flows |-> {}]
    /\ dup = {}
    /\ delays = [f \in Flows |-> {}] /\ sum = [f \in Flows |-> 0]
    /\ quiet = TRUE
-----------------------------------------------------------------------------
(* runtime_stats *)

\* A packet of another flow is ignored; it does not count for the limit.
Ignore(p) ==
    /\ pc = "recv" /\ arrived < MaxPackets
    /\ p.flowid \notin Flows
    /\ arrived' = arrived + 1
    /\ UNCHANGED <<pc, flows, pkt, pkt_count, printed, fails, seqs, dup, delays, sum, quiet>>

Receive(p) ==
    /\ pc = "recv" /\ arrived < MaxPackets
    /\ p.flowid \in Flows
    /\ flows' = [flows EXCEPT ![p.flowid].rec = @ + 1]
    /\ pkt' = p
    /\ arrived' = arrived + 1
    /\ seqs' = [seqs EXCEPT ![p.flowid] = @ \cup {p.seq}]
    /\ dup' = IF p.seq \in seqs[p.flowid] THEN dup \cup {p.flowid} ELSE dup
    /\ delays' = [delays EXCEPT ![p.flowid] = @ \cup {p.delay}]
    /\ sum' = IF seqs[p.flowid] = {} THEN sum
              ELSE [sum EXCEPT ![p.flowid] = @ + InMicroseconds(p.delay)]
    /\ pc' = "classify"
    /\ UNCHANGED <<pkt_count, printed, fails, quiet>>

\* recvfrom fails; the packet count goes on all the same.
ReceiveFails ==
    /\ pc = "recv" /\ fails < MaxFails
    /\ fails' = fails + 1
    /\ pc' = "count"
    /\ UNCHANGED <<flows, pkt, pkt_count, printed, arrived, seqs, dup, delays, sum, quiet>>

\* The statistics s after a packet numbered seq: highest and lowest number,
\* packets out of sequence.
Classified(s, seq) ==
    IF seq <= s.seq
    THEN IF seq < s.seqmin
         THEN IF s.rec = 1
              THEN [s EXCEPT !.seqmin = seq, !.seq = seq]
              ELSE [s EXCEPT !.seqmin = seq, !.oos = @ + 1]
         ELSE [s EXCEPT !.oos = @ + 1]
    ELSE [s EXCEPT !.seq = seq]

\* The first packet of a flow contributes to no sum.
IsFirst(s, seq) == seq <= s.seq /\ seq < s.seqmin /\ s.rec = 1

Classify ==
    LET f == pkt.flowid
    IN  /\ pc = "classify"
        /\ flows' = [flows EXCEPT ![f] = Classified(@, pkt.seq)]
        /\ pc' = IF IsFirst(flows[f], pkt.seq) THEN "last" ELSE "sums"
        /\ UNCHANGED <<pkt, pkt_count, printed, history, quiet>>

\* The absolute value of a difference of two delays, as the code computes it.
Jitter(s, us) ==
    LET t == IF s < 0 THEN [sec |-> -s, usec |-> -us] ELSE [sec |-> s, usec |-> us]
    IN  IF t.usec >= 0 THEN t
        ELSE IF t.sec = 0 THEN [t EXCEPT !.usec = -@]
        ELSE [sec |-> t.sec - 1, usec |-> t.usec + Second]

\* The sums and the largest jitter after a packet with delay d and jitter j.
Summed(s, d, j) ==
    LET larger == \/ j.sec > s.max_jitter_sec
                  \/ j.sec = s.max_jitter_sec /\ j.usec > s.max_jitter_usec
    IN  [s EXCEPT !.ds_sec = @ + d.sec, !.ds_usec = @ + d.usec,
                  !.js_sec = @ + j.sec, !.js_usec = @ + j.usec,
                  !.max_jitter_sec = IF larger THEN j.sec ELSE @,
                  !.max_jitter_usec = IF larger THEN j.usec ELSE @]

Sums ==
    LET f == pkt.flowid
        s == flows[f]
        d == pkt.delay
    IN  /\ pc = "sums"
        /\ flows' = [flows EXCEPT ![f] =
                        Summed(s, d, Jitter(d.sec - s.last_delay_sec, d.usec - s.last_delay_usec))]
        /\ pc' = "last"
        /\ UNCHANGED <<pkt, pkt_count, printed, history, quiet>>

UpdateLast ==
    /\ pc = "last"
    /\ flows' = [flows EXCEPT ![pkt.flowid].last_delay_sec = pkt.delay.sec,
                              ![pkt.flowid].last_delay_usec = pkt.delay.usec]
    /\ pc' = "count"
    /\ UNCHANGED <<pkt, pkt_count, printed, history, quiet>>

LimitReached(n) == limit # 0 /\ n >= limit

CountPacket ==
    /\ pc = "count"
    /\ pkt_count' = pkt_count + 1
    /\ pc' = IF LimitReached(pkt_count + 1) THEN "print" ELSE "recv"
    /\ UNCHANGED <<flows, pkt, printed, history, quiet>>
-----------------------------------------------------------------------------
(* print_stats and crude_handler *)

\* Operands of a long long and an unsigned long are converted to unsigned; the
\* quotient is converted back when it is stored.
Unsigned(x) == x % Word
Signed(u) == IF 2 * u < Word THEN u ELSE u - Word

\* Mutant: the packet that is counted twice by the difference is left out.
Lost_OffByOne(s) == IF s.rec = 0 THEN 0 ELSE Unsigned(s.seq - s.seqmin - s.rec)

\* The estimated number of packets lost.
Lost(s) == IF s.rec = 0 THEN 0 ELSE Unsigned(s.seq - s.seqmin + 1 - s.rec)

\* Mutant: the rest of the division of the seconds is dropped.
Average_NoRest(s) ==
    LET usec == Signed(Unsigned(s.ds_usec) \div s.rec)
    IN  [sec |-> Signed(Unsigned(s.ds_sec) \div s.rec) + usec \div Second,
         usec |-> usec % Second]

\* The average delay: sum of the delays divided by the number of packets.  With
\* at least two packets the quotient of unsigned numbers is not negative when it
\* is converted back, so the cases for different signs are never taken.
Average(s) ==
    LET usec == Signed(Unsigned(s.ds_usec + Second * (Unsigned(s.ds_sec) % s.rec)) \div s.rec)
    IN  [sec |-> Signed(Unsigned(s.ds_sec) \div s.rec) + usec \div Second,
         usec |-> usec % Second]

\* The results printed for one flow.
Result(s) == [lost |-> Lost(s), average |-> IF s.rec < 2 THEN "none" ELSE Average(s)]

print_stats ==
    /\ pc = "print"
    /\ printed' = [f \in Flows |-> Result(flows[f])]
    /\ pc' = "exit"
    /\ UNCHANGED <<flows, pkt, pkt_count, history, quiet>>

\* SIGINT: the results are printed, wherever the program is, and it exits.
crude_handler ==
    /\ pc \in {"recv", "classify", "sums", "last", "count"}
    /\ quiet' = (pc = "recv")
    /\ pc' = "print"
    /\ UNCHANGED <<flows, pkt, pkt_count, printed, history>>
-----------------------------------------------------------------------------
runtime_stats ==
    \/ \E p \in Packets : Ignore(p) \/ Receive(p)
    \/ ReceiveFails \/ Classify \/ Sums \/ UpdateLast \/ CountPacket

Next == runtime_stats \/ print_stats \/ crude_handler

Spec == Init /\ [][Next]_vars
-----------------------------------------------------------------------------
(* Properties *)

Stats ==
    [rec : Nat, oos : Nat, seq : Nat, seqmin : Nat, ds_sec : Int, ds_usec : Int,
     js_sec : Int, js_usec : Int, max_jitter_sec : Int, max_jitter_usec : Int,
     last_delay_sec : Int, last_delay_usec : Int]

\* The state of crude has its types.
TypeOK ==
    /\ pc \in {"recv", "classify", "sums", "last", "count", "print", "exit"}
    /\ flows \in [Flows -> Stats]
    /\ pc \in {"classify", "sums", "last"} => pkt \in Packets /\ pkt.flowid \in Flows
    /\ pkt_count \in Nat /\ arrived \in Nat /\ fails \in Nat
    /\ seqs \in [Flows -> SUBSET Numbers] /\ dup \subseteq Flows

\* Is the update of the numbers of flow f under way?
Updating(f) == pc = "classify" /\ pkt.flowid = f

\* Are the numbers those of all packets received?
Settled(f) == flows[f].rec > 0 /\ ~Updating(f) /\ (quiet \/ pc \notin {"print", "exit"})

\* runtime_stats starts both numbers at ULONG_MAX; whatever the network does to
\* the order, they are the lowest and the highest number received.
SeqRange ==
    \A f \in Flows : Settled(f) =>
       /\ {flows[f].seqmin, flows[f].seq} \subseteq seqs[f]
       /\ \A n \in seqs[f] : flows[f].seqmin <= n /\ n <= flows[f].seq

\* Every duplicate is counted as out of sequence, the first packet never is.
DuplicatesOutOfSequence ==
    \A f \in Flows : Settled(f) =>
       /\ flows[f].rec - Cardinality(seqs[f]) <= flows[f].oos
       /\ flows[f].oos < flows[f].rec

\* If nothing is duplicated and no update is under way when the results are
\* printed, lost(est) is the number of packets missing between the first and the
\* last one, however they were reordered.
LostExact ==
    pc = "exit" /\ quiet =>
       \A f \in Flows \ dup : flows[f].rec > 0 =>
          printed[f].lost = Cardinality((flows[f].seqmin .. flows[f].seq) \ seqs[f])

\* The average printed for delays below a second is the sum of the delays of all
\* packets but the first, divided by the number of packets, although seconds and
\* microseconds are added up and divided separately and may differ in sign.
AverageRight ==
    pc = "exit" /\ quiet =>
       \A f \in Flows :
          flows[f].rec >= 2 /\ sum[f] >= 0 /\ flows[f].ds_sec \in 0 .. flows[f].rec - 1 =>
             InMicroseconds(printed[f].average) = sum[f] \div flows[f].rec

\* runtime_stats ends as soon as the number of packets asked for is counted.
StopsAtLimit == limit # 0 => pkt_count <= limit

\* The comment in runtime_stats: "we only count packets from the flows we are
\* gathering statistics for".
OnlyPacketsCounted == pkt_count <= arrived

\* The comment in print_stats: "Both components of all jitter values are
\* positive, thus the sum of them is also positive".
JitterPositive == \A f \in Flows : flows[f].js_sec >= 0 /\ flows[f].js_usec >= 0

\* The manual calls it the average delay: print_stats prints a value between the
\* smallest and the largest delay.
AverageInRange ==
    pc = "exit" /\ quiet =>
       \A f \in Flows : flows[f].rec >= 2 =>
          \E d, e \in delays[f] :
             InMicroseconds(printed[f].average) \in InMicroseconds(d) .. InMicroseconds(e)

\* The comment in print_stats: "print average delay as sign and absolute value",
\* "Possible with dessynchronized clocks".
SignKept ==
    pc = "exit" /\ quiet =>
       \A f \in Flows : flows[f].rec >= 2 /\ sum[f] <= -flows[f].rec =>
          InMicroseconds(printed[f].average) < 0
=============================================================================

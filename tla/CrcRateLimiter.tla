--------------------------- MODULE CrcRateLimiter ---------------------------
(***************************************************************************)
(* The CRC rate limiter (src/crc-rate-limiter.c, lua/crc-ratecontrol.lua): *)
(* the gap wanted in front of a packet is filled with frames whose         *)
(* checksum is invalid.  Gaps are measured in bytes on the wire.  A frame  *)
(* cannot be shorter than min_pkt_size, so a short gap is left over and is *)
(* to be made up for later.                                                *)
(*                                                                         *)
(* Valid packets and filling frames go through one array of BUF_SIZE       *)
(* entries, which is handed to the device whenever it is full and at the   *)
(* end of a call; the device takes as many as it has room for.             *)
(***************************************************************************)
EXTENDS Integers, Sequences

CONSTANTS
    UData,          \* values the udata64 field of a packet may have
    MaxPkts,        \* largest num_pkts
    MaxCalls,       \* bound on the calls
    MinPktSize,     \* min_pkt_size, with preamble, sfd and ifg
    MaxFrame,       \* 1538, the longest filling frame
    SplitLimit,     \* 2000, up to which a gap is halved
    BUF_SIZE,       \* 128
    Overhead,       \* 20: preamble, sfd and ifg
    Extra,          \* 24, added to the bytes counted for a frame
    MaxDelay,       \* 0x0fffffff, above which the lossy sender ignores udata64
    W               \* 2^32

ASSUME CrcRateLimiterAssumption ==
    /\ UData \subseteq Nat
    /\ {MaxPkts, MaxCalls, Overhead, Extra, MaxDelay} \subseteq Nat
    /\ W \in Nat \ {0} /\ MaxDelay < W
    /\ BUF_SIZE \in Nat \ {0}
    /\ {MinPktSize, MaxFrame, SplitLimit} \subseteq Nat \ {0}
    /\ Overhead <= MinPktSize
    /\ 2 * MinPktSize <= MaxFrame
    /\ MaxFrame <= SplitLimit /\ SplitLimit <= 2 * MaxFrame

VARIABLES
    pc,              \* where the sender is
    lossy,           \* does it run the function with losses?
    load_pkts,       \* udata64 of the packets of the call
    i,               \* packets of the call dealt with
    delay,           \* what is left of the gap in front of the next packet
    leftover_delay,  \* the thread's delay yet to be emulated
    pkts,            \* the array: sizes of frames, 0 for a valid packet
    num_bad_pkts, num_bad_bytes,     \* counts of this call
    bad_pkts_sent, bad_bytes_sent,   \* counts of the port
    calls,           \* calls made so far
    requested,       \* bytes of gap asked for so far
    emitted,         \* bytes of gap put into the array so far
    allowance,       \* MinPktSize - 1 for each gap so far too long for one frame
    seen,            \* packets dealt with so far, over all calls
    lost,            \* of these, the ones dropped on purpose
    hw               \* the device's counters: valid packets, frames, frame bytes

array == <<pkts, num_bad_pkts, num_bad_bytes>>
port == <<bad_pkts_sent, bad_bytes_sent>>
history == <<requested, emitted, allowance, seen, lost>>
vars == <<pc, lossy, load_pkts, i, delay, leftover_delay, array, port, calls, history, hw>>

\* Entry of the array for a valid packet; frames are entered with their size.
Valid == 0

Batches == UNION {[1..n -> UData] : n \in 0..MaxPkts}

\* How the gap is read from a packet.  The plain function truncates it to 32
\* bits, the lossy one replaces what is too large by 0.
Gap(u) == IF lossy THEN (IF u > MaxDelay THEN 0 ELSE u) ELSE u % W

Init ==
    /\ pc = "idle"
    /\ lossy = FALSE
    /\ load_pkts = <<>>
    /\ i = 0
    /\ delay = 0
    /\ leftover_delay = 0
    /\ pkts = <<>> /\ num_bad_pkts = 0 /\ num_bad_bytes = 0
    /\ bad_pkts_sent = 0 /\ bad_bytes_sent = 0
    /\ calls = 0
    /\ requested = 0 /\ emitted = 0 /\ allowance = 0 /\ seen = 0 /\ lost = 0
    /\ hw = [valid |-> 0, frames |-> 0, bytes |-> 0]
-----------------------------------------------------------------------------
(* moongen_send_all_packets_with_delay_bad_crc and ..._loss *)

\* A sender is called with a batch; its local variables are set up.
Begin(withLoss) ==
    /\ pc = "idle"
    /\ calls < MaxCalls
    /\ calls' = calls + 1
    /\ lossy' = withLoss
    /\ load_pkts' \in Batches
    /\ i' = 0
    /\ num_bad_pkts' = 0 /\ num_bad_bytes' = 0
    /\ pc' = "next"
    /\ UNCHANGED <<delay, leftover_delay, pkts, port, history, hw>>

sendWithDelay == Begin(FALSE)
sendWithDelayLoss == Begin(TRUE)

Call == sendWithDelay \/ sendWithDelayLoss

\* The next packet of the batch: its gap is read.
NextPacket ==
    /\ pc = "next"
    /\ i < Len(load_pkts)
    /\ delay' = Gap(load_pkts[i + 1])
    /\ requested' = requested + delay'
    /\ allowance' = IF delay' + MinPktSize > MaxFrame
                    THEN allowance + MinPktSize - 1 ELSE allowance
    /\ pc' = "gap"
    /\ UNCHANGED <<lossy, load_pkts, i, leftover_delay, array, port, calls,
                   emitted, seen, lost, hw>>

\* The size of the frame that fills (the beginning of) a gap of d bytes.
FrameSize(d) ==
    IF d < MaxFrame THEN d ELSE IF d > SplitLimit THEN MaxFrame ELSE d \div 2

\* The array must be handed to the device.
Full(n) == n >= BUF_SIZE

\* Mutant: what was left over before is forgotten.
GapTooShort_Forget ==
    /\ pc = "gap"
    /\ delay > 0
    /\ delay + leftover_delay < MinPktSize
    /\ leftover_delay' = delay
    /\ delay' = 0
    /\ UNCHANGED <<pc, lossy, load_pkts, i, array, port, calls, history, hw>>

\* get_delay_pkt_bad_crc: the gap is shorter than any frame.
GapTooShort ==
    /\ pc = "gap"
    /\ delay > 0
    /\ delay + leftover_delay < MinPktSize
    /\ leftover_delay' = delay + leftover_delay
    /\ delay' = 0
    /\ UNCHANGED <<pc, lossy, load_pkts, i, array, port, calls, history, hw>>

\* What remains of the gap after a frame of f bytes.  The delay left over from
\* earlier is not part of it.
Remaining(f) == IF f > delay THEN 0 ELSE delay - f

\* Mutant: the left-over delay is used and kept.
FillGap_NoReset ==
    LET f == FrameSize(delay + leftover_delay)
    IN  /\ pc = "gap"
        /\ delay > 0
        /\ delay + leftover_delay >= MinPktSize
        /\ delay' = Remaining(f)
        /\ pkts' = Append(pkts, f)
        /\ num_bad_pkts' = num_bad_pkts + 1
        /\ num_bad_bytes' = num_bad_bytes + (f - Overhead) + (IF lossy THEN 0 ELSE Extra)
        /\ emitted' = emitted + f
        /\ pc' = IF Full(Len(pkts')) THEN "flush_gap" ELSE "gap"
        /\ UNCHANGED <<lossy, load_pkts, i, leftover_delay, port, calls, requested, allowance, seen, lost, hw>>

\* get_delay_pkt_bad_crc: a frame is made and put into the array.
FillGap ==
    LET f == FrameSize(delay + leftover_delay)
    IN  /\ pc = "gap"
        /\ delay > 0
        /\ delay + leftover_delay >= MinPktSize
        /\ leftover_delay' = 0
        /\ delay' = Remaining(f)
        /\ pkts' = Append(pkts, f)
        /\ num_bad_pkts' = num_bad_pkts + 1
        /\ num_bad_bytes' = num_bad_bytes + (f - Overhead) + (IF lossy THEN 0 ELSE Extra)
        /\ emitted' = emitted + f
        /\ pc' = IF Full(Len(pkts')) THEN "flush_gap" ELSE "gap"
        /\ UNCHANGED <<lossy, load_pkts, i, port, calls, requested, allowance, seen, lost, hw>>

\* After a packet the array is handed over if it is full or nothing follows.
HandOver == IF Full(Len(pkts')) \/ i + 1 = Len(load_pkts) THEN "flush" ELSE "next"

\* The packet follows its gap.
SendPacket ==
    /\ pc = "gap"
    /\ delay = 0
    /\ pkts' = Append(pkts, Valid)
    /\ seen' = seen + 1
    /\ pc' = HandOver
    /\ i' = i + 1
    /\ UNCHANGED <<lossy, load_pkts, delay, leftover_delay, num_bad_pkts, num_bad_bytes,
                   port, calls, requested, emitted, allowance, lost, hw>>

\* Random losses: the packet is freed.
LosePacket ==
    /\ pc = "gap"
    /\ delay = 0
    /\ lossy
    /\ pkts' = pkts
    /\ seen' = seen + 1
    /\ lost' = lost + 1
    /\ pc' = HandOver
    /\ i' = i + 1
    /\ UNCHANGED <<lossy, load_pkts, delay, leftover_delay, num_bad_pkts, num_bad_bytes,
                   port, calls, requested, emitted, allowance, hw>>

\* The device takes the first entry (rte_eth_tx_burst takes some of them).
TxBurst ==
    /\ pc \in {"flush", "flush_gap"}
    /\ pkts # <<>>
    /\ pkts' = Tail(pkts)
    /\ hw' = IF Head(pkts) = Valid
             THEN [hw EXCEPT !.valid = @ + 1]
             ELSE [hw EXCEPT !.frames = @ + 1, !.bytes = @ + Head(pkts) - Overhead]
    /\ UNCHANGED <<pc, lossy, load_pkts, i, delay, leftover_delay, num_bad_pkts,
                   num_bad_bytes, port, calls, history>>

\* Mutant: dpdk_send_all_packets waits for more than there is.
Flushed_Never ==
    /\ pc \in {"flush", "flush_gap"}
    /\ Len(pkts) < 0
    /\ pc' = "next"
    /\ UNCHANGED <<lossy, load_pkts, i, delay, leftover_delay, array, port, calls,
                   history, hw>>

\* dpdk_send_all_packets returns when everything has been taken.
Flushed ==
    /\ pc \in {"flush", "flush_gap"}
    /\ pkts = <<>>
    /\ pc' = IF pc = "flush" THEN "next" ELSE "gap"
    /\ UNCHANGED <<lossy, load_pkts, i, delay, leftover_delay, array, port, calls,
                   history, hw>>

\* The frames sent are added to the counts of the port.
Return ==
    /\ pc = "next"
    /\ i = Len(load_pkts)
    /\ bad_pkts_sent' = bad_pkts_sent + num_bad_pkts
    /\ bad_bytes_sent' = bad_bytes_sent + num_bad_bytes
    /\ pc' = "idle"
    /\ UNCHANGED <<lossy, load_pkts, i, delay, leftover_delay, array, calls,
                   history, hw>>

Send ==
    \/ NextPacket \/ GapTooShort \/ FillGap \/ SendPacket \/ LosePacket
    \/ TxBurst \/ Flushed \/ Return

Next == Call \/ Send

\* The sender has a core of its own and the device keeps sending.
Spec == Init /\ [][Next]_vars /\ WF_vars(Send)
-----------------------------------------------------------------------------
(* Properties *)

\* Type invariant.
TypeOK ==
    /\ pc \in {"idle", "next", "gap", "flush", "flush_gap"}
    /\ lossy \in BOOLEAN
    /\ load_pkts \in Seq(Nat)
    /\ i \in 0..Len(load_pkts)
    /\ pkts \in Seq(Nat)
    /\ delay \in Nat /\ leftover_delay \in Nat
    /\ num_bad_pkts \in Nat /\ num_bad_bytes \in Nat
    /\ bad_pkts_sent \in Nat /\ bad_bytes_sent \in Nat
    /\ calls \in Nat
    /\ requested \in Nat /\ emitted \in Nat /\ allowance \in Nat
    /\ seen \in Nat /\ lost \in Nat
    /\ hw \in [valid : Nat, frames : Nat, bytes : Nat]

\* The array is never written beyond its end (lines 154, 165, 210 and 222),
\* whatever mixture of packets and frames a batch turns into.
WithinArray == Len(pkts) <= BUF_SIZE

\* Every filling frame has a size the device can send: not shorter than
\* min_pkt_size, not longer than a full frame, so that "doing something
\* stupid for packet sizes that are just over 1538 bytes" is avoided (line
\* 109), also when a left-over delay is added to a gap.
FrameLegal ==
    \A k \in 1..Len(pkts) : pkts[k] # Valid => pkts[k] \in MinPktSize..MaxFrame

\* The packets are never spaced further apart than asked for: over any number
\* of calls the frames and the delay still left over add up to no more than
\* the gaps requested.
NeverSlower == emitted + leftover_delay + delay <= requested

\* ... and hardly closer.  Delay is lost only at a gap too long for one frame,
\* where a delay left over earlier is dropped, less than one minimal frame
\* each time; in front of all other packets the spacing is made up exactly.
HardlyFaster == requested <= emitted + leftover_delay + delay + allowance

\* "Don't forget to send the last batch" (line 166): when the call has ended
\* every packet is with the device or was dropped on purpose, and the device's
\* counter minus bad_pkts_sent is the number of valid packets (getTxStats).
AllSent ==
    pc = "idle" =>
        /\ hw.valid = seen - lost
        /\ hw.frames = bad_pkts_sent

\* Every call returns: filling a gap always makes the gap shorter.
Returns == pc # "idle" ~> pc = "idle"

\* "We need to keep track of the accumulated delay that has yet to be
\* emulated, and add it in when enough accumulates" (lines 84-87): no part of
\* a gap is forgotten.
DelayKept == emitted + leftover_delay + delay = requested

\* "Packet size: [MAC, CRC] to be consistent with HW counters" (line 151): the
\* bytes counted for the frames are those the device counts.
BytesConsistent == pc = "idle" => hw.bytes = bad_bytes_sent
=============================================================================

------------------------ MODULE SoftwareRateLimiter ------------------------
(***************************************************************************)
(* The software rate limiter (src/MoonGen/src/software-rate-limiter.cpp    *)
(* and lua/software-ratecontrol.lua): a task puts packets into a ring, a   *)
(* thread of its own takes them out in batches and hands each to the       *)
(* network card when its time has come.  "custom" waits for the gap stored *)
(* in a packet, "cbr" for a fixed one and "poisson" for a random one.      *)
(*                                                                         *)
(* The ring is a sequence here; PktsizedRing, which is built on the same   *)
(* DPDK ring, is shown to behave like one.                                 *)
(***************************************************************************)
EXTENDS Integers, Sequences

CONSTANTS
    Modes,        \* the modes to consider
    batch_size,   \* packets taken from the ring at once
    Capacity,     \* packets the ring holds
    Sizes,        \* sizes of the arrays of packets sent
    Gaps,         \* gaps between packets, in ticks
    target,       \* the gap of mode "cbr"
    Restart,      \* 10 ms in ticks
    Start,        \* the time stamp counter at the beginning
    MaxPackets,   \* bound on the packets
    MaxTime       \* bound on the time spent idle

ASSUME LimiterAssumption ==
    /\ Modes \subseteq {"custom", "cbr", "poisson"}
    /\ batch_size \in Nat \ {0} /\ Capacity \in Nat \ {0}
    /\ Sizes \subseteq Nat \ {0} /\ Gaps \subseteq Nat /\ target \in Nat
    /\ Restart \in Nat /\ Start \in Nat /\ Start > Restart
    /\ MaxPackets \in Nat /\ MaxTime \in Nat

VARIABLES
    mode, running, stop,   \* the mode, is_running(0), ctl->stop
    pending, ring,         \* the packets being sent by the task, those in the ring
    step, cur_batch_size, bufs, pos, next_send, count,   \* the limiter thread: where it
                           \* is, its batch, the loops' i, the schedule, ctl->count
    now,                   \* the time stamp counter
    queued, sent, started  \* history: packets put into the ring, packets handed to
                           \* the card, the times at which batches were begun

task == <<pending, ring, queued>>
limiter == <<step, cur_batch_size, bufs, pos, next_send, count, sent, started>>
control == <<mode, running, stop>>
softVars == <<control, task, limiter, now>>

SoftInit ==
    /\ mode \in Modes /\ running = TRUE /\ stop = FALSE
    /\ pending = <<>> /\ ring = <<>> /\ queued = <<>>
    /\ step = "loop" /\ cur_batch_size = batch_size /\ bufs = <<>> /\ pos = 1
    /\ now = Start /\ next_send = IF mode = "custom" THEN Start ELSE 0
    /\ count = 0 /\ sent = <<>> /\ started = <<>>
-----------------------------------------------------------------------------
(* The task: send, sendN and stop *)

\* send or sendN is called with n packets; a stopped limiter is not used any more.
SendN(n) ==
    /\ pending = <<>> /\ running /\ ~stop
    /\ Len(queued) + n <= MaxPackets
    /\ \E gaps \in [1 .. n -> Gaps] :
          pending' = [k \in 1 .. n |-> [id |-> Len(queued) + k, gap |-> gaps[k]]]
    /\ UNCHANGED <<control, ring, queued, limiter, now>>

\* ring_enqueue accepts all packets or none.
Fits(n) == Len(ring) + n <= Capacity

Enqueue ==
    /\ pending # <<>> /\ Fits(Len(pending))
    /\ ring' = ring \o pending
    /\ queued' = queued \o pending
    /\ pending' = <<>>
    /\ UNCHANGED <<control, limiter, now>>

\* send tries again until there is room or the program ends.
GiveUp ==
    /\ pending # <<>> /\ ~Fits(Len(pending)) /\ ~running
    /\ pending' = <<>>
    /\ UNCHANGED <<control, ring, queued, limiter, now>>

Stop ==
    /\ pending = <<>> /\ ~stop
    /\ stop' = TRUE
    /\ UNCHANGED <<mode, running, task, limiter, now>>

\* The program is told to end (libmoon::is_running).
EndProgram ==
    /\ running
    /\ running' = FALSE
    /\ UNCHANGED <<mode, stop, task, limiter, now>>

Tick ==
    /\ now < MaxTime \/ now < next_send
    /\ now' = now + 1
    /\ UNCHANGED <<control, task, limiter>>
-----------------------------------------------------------------------------
(* The limiter thread *)

\* The loop goes on while the program runs; ctl->stop is not looked at here.
Loop ==
    /\ step = "loop"
    /\ step' = IF running THEN "dequeue" ELSE "exit"
    /\ cur_batch_size' = batch_size
    /\ UNCHANGED <<control, task, bufs, pos, next_send, count, sent, started, now>>

\* ring_dequeue takes exactly cur_batch_size packets.
Dequeue ==
    /\ step = "dequeue" /\ Len(ring) >= cur_batch_size
    /\ bufs' = SubSeq(ring, 1, cur_batch_size)
    /\ ring' = SubSeq(ring, cur_batch_size + 1, Len(ring))
    /\ pos' = 1
    /\ step' = IF mode = "custom" THEN "gap" ELSE "restart"
    /\ UNCHANGED <<control, pending, queued, cur_batch_size, next_send, count, sent, started, now>>

\* Mutant: there is no second attempt.
TryLess_Never == FALSE

\* Mode "custom" tries with half as many packets, down to one.
TryLess == mode = "custom" /\ cur_batch_size > 1

DequeueNothing ==
    /\ step = "dequeue" /\ Len(ring) < cur_batch_size
    /\ bufs' = <<>>
    /\ IF TryLess
       THEN cur_batch_size' = cur_batch_size \div 2 /\ step' = step
       ELSE /\ step' = IF mode = "custom" THEN "check" ELSE "restart"
            /\ UNCHANGED cur_batch_size
    /\ UNCHANGED <<control, task, pos, next_send, count, sent, started, now>>

\* Mutant: the schedule is never restarted.
Late_Never == FALSE

\* Nothing was sent for 10 ms.
Late == now - next_send > Restart

\* "cbr" and "poisson" restart the schedule when it is too far behind.
RestartRate ==
    /\ step = "restart"
    /\ next_send' = IF Late THEN now ELSE next_send
    /\ started' = IF bufs = <<>> THEN started ELSE Append(started, now)
    /\ step' = IF bufs = <<>> THEN "check" ELSE "wait"
    /\ UNCHANGED <<control, task, cur_batch_size, bufs, pos, count, sent, now>>

\* Mode "custom": the gap comes before the packet.
AddGap ==
    /\ step = "gap"
    /\ next_send' = next_send + bufs[pos].gap
    /\ started' = IF pos = 1 THEN Append(started, now) ELSE started
    /\ step' = "wait"
    /\ UNCHANGED <<control, task, cur_batch_size, bufs, pos, count, sent, now>>

TimeReached == now >= next_send

\* The gap that follows a packet.
GapAfter == CASE mode = "custom" -> {0} [] mode = "cbr" -> {target} [] OTHER -> Gaps

\* The wait is over; "cbr" and "poisson" add the gap behind the packet.
Wait ==
    /\ step = "wait" /\ TimeReached
    /\ \E g \in GapAfter :
          /\ next_send' = next_send + g
          /\ bufs' = IF mode = "custom" THEN bufs ELSE [bufs EXCEPT ![pos].gap = g]
    /\ step' = "tx"
    /\ UNCHANGED <<control, task, cur_batch_size, pos, count, sent, started, now>>

AfterPacket == IF pos = Len(bufs) THEN "count" ELSE IF mode = "custom" THEN "gap" ELSE "wait"

\* rte_eth_tx_burst takes the packet.
Transmit ==
    /\ step = "tx"
    /\ sent' = Append(sent, [id |-> bufs[pos].id, gap |-> bufs[pos].gap, time |-> now,
                             batch |-> Len(started)])
    /\ pos' = pos + 1
    /\ step' = AfterPacket
    /\ UNCHANGED <<control, task, cur_batch_size, bufs, next_send, count, started, now>>

\* rte_eth_tx_burst has no room for it.
CardFull ==
    /\ step = "tx"
    /\ step' = "retry"
    /\ UNCHANGED <<control, task, cur_batch_size, bufs, pos, next_send, count, sent, started, now>>

\* Mutant: only the end of the program counts.
CtlRunning_NoStop == running

\* ctl->running()
CtlRunning == running /\ ~stop

Retry ==
    /\ step = "retry"
    /\ step' = IF CtlRunning THEN "tx" ELSE "exit"
    /\ UNCHANGED <<control, task, cur_batch_size, bufs, pos, next_send, count, sent, started, now>>

Counted == Len(bufs)

CountPackets ==
    /\ step = "count"
    /\ count' = count + Counted
    /\ bufs' = <<>> /\ pos' = 1
    /\ step' = "loop"
    /\ UNCHANGED <<control, task, cur_batch_size, next_send, sent, started, now>>

\* Nothing was dequeued.
Check ==
    /\ step = "check"
    /\ step' = IF CtlRunning THEN "loop" ELSE "exit"
    /\ UNCHANGED <<control, task, cur_batch_size, bufs, pos, next_send, count, sent, started, now>>
-----------------------------------------------------------------------------
Limiter ==
    \/ Loop \/ Dequeue \/ DequeueNothing \/ RestartRate \/ AddGap \/ Wait
    \/ Transmit \/ CardFull \/ Retry \/ CountPackets \/ Check

SoftNext ==
    \/ \E n \in Sizes : SendN(n)
    \/ Enqueue \/ GiveUp \/ Stop \/ EndProgram \/ Tick \/ Limiter

SoftSpec == SoftInit /\ [][SoftNext]_softVars

\* The thread has a core of its own and time passes.
FairSpec == SoftSpec /\ WF_softVars(Limiter) /\ WF_softVars(Tick)

\* The card takes a packet that is offered again and again.
CardAccepts == SF_softVars(Transmit)
-----------------------------------------------------------------------------
(* Properties *)

\* The gaps of a sequence of packets, added up.
Total(s) ==
    LET sum[k \in 0 .. Len(s)] == IF k = 0 THEN 0 ELSE sum[k - 1] + s[k].gap
    IN  sum[Len(s)]

Ids(s) == [k \in 1 .. Len(s) |-> s[k].id]
Unsent == SubSeq(bufs, pos, Len(bufs))

\* The state of the limiter has its types and the ring its capacity.
SoftTypeOK ==
    /\ mode \in Modes /\ running \in BOOLEAN /\ stop \in BOOLEAN
    /\ step \in {"loop", "dequeue", "restart", "gap", "wait", "tx", "retry", "count", "check", "exit"}
    /\ Len(ring) <= Capacity /\ cur_batch_size \in 1 .. batch_size
    /\ Len(bufs) <= batch_size /\ pos \in 1 .. Len(bufs) + 1
    /\ {next_send, count, now} \subseteq Nat

\* Batches of halved sizes, retries and a stop at any time: packets leave in the
\* order in which send put them into the ring; none is skipped or sent twice.
Fifo == Ids(sent) \o Ids(Unsent) \o Ids(ring) = Ids(queued)

\* ctl->count never runs ahead of the packets handed to the card, and is exact
\* whenever the limiter is between two batches.
CountMatches ==
    /\ count <= Len(sent)
    /\ step \in {"loop", "dequeue", "restart", "check"} => count = Len(sent)

\* Mode "custom": a packet is never sent before all gaps up to its own have
\* passed since the limiter began, so idle times are made up for but the rate is
\* never exceeded over the whole run.
NotEarly ==
    mode = "custom" =>
       \A k \in 1 .. Len(sent) : sent[k].time >= Start + Total(SubSeq(sent, 1, k))

\* Modes "cbr" and "poisson": of the time lost before a batch at most 10 ms are
\* made up for by sending the packets of the batch closer together.
CatchUpBounded ==
    mode # "custom" =>
       \A j, k \in 1 .. Len(sent) :
          j <= k /\ sent[j].batch = sent[k].batch =>
             sent[k].time >= started[sent[k].batch] - Restart + Total(SubSeq(sent, j, k - 1))

\* A limiter that is stopped ends, even if the card takes no more packets.
StopObeyed == (stop \/ ~running) ~> (step = "exit")

\* If the card accepts packets and the limiter does not end, mode "custom" sends
\* every packet that was put into the ring; the others send every full batch and
\* may keep the rest in the ring.
EventuallySent == CardAccepts =>
    \A k \in 1 .. MaxPackets :
       mode = "custom" \/ k % batch_size = 0 =>
          (Len(queued) >= k ~> Len(sent) >= k \/ step = "exit")
=============================================================================

------------------------------ MODULE Sniffer ------------------------------
(***************************************************************************)
(* MoonSniff (examples/moonsniff/sniffer.lua, src/moonsniff.cpp) on the    *)
(* libmoon runtime: the master starts two receivers, one in front of the   *)
(* device under test and one behind it.  In live mode                      *)
(* they match the packets' identifiers through hit_list and keep a running *)
(* mean and variance of the latency; otherwise each opens a file, meets    *)
(* the other at the barrier and writes what it receives.  The network, the *)
(* device under test and the cards' clocks are the environment.            *)
(*                                                                         *)
(* Times are in ticks of the timestamp counter.  Real numbers (mean, m2)   *)
(* are kept exact, multiplied by Scale and its square.                     *)
(***************************************************************************)
EXTENDS Runtime, Sequences, FiniteSetsExt

CONSTANTS
    MaxPackets,     \* packets sent through the device, numbered from 0
    Slots,          \* INDEX_MASK + 1
    MS_THRESH,
    Skew,           \* how far the second card's clock is behind the first's
    DrainTime, RunTime, PrintDelay,   \* 0.5 s, args.time, 500 ms
    MaxFailures,    \* bound on tasks that fail
    Scale

ASSUME SnifferAssumption ==
    /\ {MaxPackets, Slots, Skew, DrainTime, RunTime, PrintDelay, MaxFailures, Scale}
            \subseteq Nat
    /\ MS_THRESH \in Int
    /\ Slots > 0 /\ WorkerCores >= 2
    /\ Skew < Boot
    /\ Scale > 0 /\ \A k \in 1 .. MaxPackets : Scale % k = 0

VARIABLES
    live,           \* args.live
    master,         \* where the master is
    core,           \* the core of each receiver's task object
    got,            \* what task:wait returned for each receiver
    wakeAt,         \* the end of the master's sleep
    pc,             \* where the task on each core is
    timer,          \* the end of the task's timer
    bufs,           \* the packets of the batch that are still to be handled
    rx,             \* the receive queues
    hit_list, mtx,  \* the entries and the owners of their locks
    old_ts,
    thresh, count, mean, m2, hits, misses,
    printed,        \* what ms_fetch_stats returned to printStats
    preTs, postTs,  \* history: the timestamps of each packet, 0 for none
    tested,         \* history: identifiers of the batches taken for ms_test_for
    matched,        \* history: identifiers counted as hits
    captured,       \* history: identifiers each receiver wrote
    outcome         \* history: what each receiver's task left behind

control == <<live, master, core, got, wakeAt>>
locals == <<pc, timer, bufs>>
sniff == <<hit_list, mtx, old_ts, thresh, count, mean, m2, hits, misses, printed, matched>>
network == <<rx, preTs, postTs>>
history == <<tested, captured, outcome>>
vars == <<runtimeVars, control, locals, sniff, network, history>>

Ids == 0 .. MaxPackets - 1
Ports == {"pre", "post"}
Receivers == {1, 2}

\* Task ids are given in the order of the starts: 1 to the receiver in front of
\* the device, 2 to the one behind it.
Port(c) == IF running[c] = 1 THEN "pre" ELSE "post"

\* A timer that would run past the last modelled tick ends there.
timer_new(time) == Min({tsc + time, MaxTsc})

TypeOK ==
    /\ RuntimeTypeOK
    /\ live \in BOOLEAN
    /\ master \in {"start", "wait", "stop", "sleep", "fetch", "exit"}
    /\ core \in [Receivers -> 0 .. WorkerCores]
    /\ got \in [Receivers -> {"pending", "ok", "error", NULL}]
    /\ outcome \in [Receivers -> {"pending", "ok", "error", NULL}]
    /\ pc \in [Cores -> {"idle", "boot", "drain", "open", "barrier", "blocked", "loop",
                         "packet", "ts", "id", "read", "clear", "unlock", "account",
                         "store", "failed", "return"}]
    /\ hit_list \in [0 .. Slots - 1 -> [timestamp : Nat, identifier : Ids]]
    /\ mtx \in [0 .. Slots - 1 -> 0 .. WorkerCores]

Init ==
    /\ RuntimeInit
    /\ make_barrier(2)
    /\ live \in BOOLEAN
    /\ master = "start"
    /\ core = [r \in Receivers |-> 0]
    /\ got = [r \in Receivers |-> "pending"]
    /\ wakeAt = 0
    /\ pc = [c \in Cores |-> "idle"]
    /\ timer = [c \in Cores |-> 0]
    /\ bufs = [c \in Cores |-> << >>]
    /\ rx = [p \in Ports |-> << >>]
    /\ hit_list = [i \in 0 .. Slots - 1 |-> [timestamp |-> 0, identifier |-> 0]]
    /\ mtx = [i \in 0 .. Slots - 1 |-> 0]
    /\ old_ts = 0
    /\ thresh = 0
    /\ count = 0 /\ mean = 0 /\ m2 = 0 /\ hits = 0 /\ misses = 0
    /\ printed = NULL
    /\ preTs = [i \in Ids |-> 0]
    /\ postTs = [i \in Ids |-> 0]
    /\ tested = {}
    /\ matched = {}
    /\ captured = [p \in Ports |-> {}]
    /\ outcome = [r \in Receivers |-> "pending"]

-----------------------------------------------------------------------------
(* The environment: time, signals, packets *)

Clock ==
    /\ Tick
    /\ UNCHANGED <<tasks, barrier, control, locals, sniff, network, history>>

Signal ==
    /\ handler
    /\ MaxSignals > (IF signal_at = Never THEN 0 ELSE 1)
    /\ UNCHANGED <<tasks, barrier, control, locals, sniff, network, history>>

\* Traffic is started once the receivers are, and what comes after their end is
\* read by nobody.
Traffic == process = "up" /\ master = "wait"

\* Packets pass the first tap in the order of their numbers ...
PacketBefore ==
    /\ Traffic
    /\ \E i \in Ids :
          /\ preTs[i] = 0 /\ \A j \in 0 .. i - 1 : preTs[j] # 0
          /\ preTs' = [preTs EXCEPT ![i] = tsc]
          /\ rx' = [rx EXCEPT !["pre"] = Append(@, [id |-> i, ts |-> tsc])]
    /\ UNCHANGED <<postTs, runtimeVars, control, locals, sniff, history>>

\* ... and the second one later, in any order or never.
PacketBehind ==
    /\ Traffic
    /\ \E i \in Ids :
          /\ preTs[i] # 0 /\ postTs[i] = 0
          /\ postTs' = [postTs EXCEPT ![i] = tsc - Skew]
          /\ rx' = [rx EXCEPT !["post"] = Append(@, [id |-> i, ts |-> tsc - Skew])]
    /\ UNCHANGED <<preTs, runtimeVars, control, locals, sniff, history>>

-----------------------------------------------------------------------------
(* The master *)

MasterAt(label) == process = "up" /\ master = label

\* The receiver in front of the device is started first.
StartReceiver ==
    /\ MasterAt("start")
    /\ LET r == IF core[1] = 0 THEN 1 ELSE 2
       IN  /\ startTaskOnCore(getCore)
           /\ pc' = [pc EXCEPT ![getCore] = "boot"]
           /\ core' = [core EXCEPT ![r] = getCore]
           /\ master' = IF r = 1 THEN "start" ELSE "wait"
    /\ UNCHANGED <<lifecycle, barrier, live, got, wakeAt, timer, bufs, sniff, network, history>>

\* Mutant: the master waits for the first receiver only.
WaitReceiver_First ==
    /\ MasterAt("wait")
    /\ TaskOver(core[1])
    /\ got' = [got EXCEPT ![1] = ResultOf(1)]
    /\ task_get_result(1)
    /\ master' = "stop"
    /\ UNCHANGED <<lifecycle, barrier, live, core, wakeAt, locals, sniff, network, history>>

\* receiver0:wait(), then receiver1:wait().
WaitReceiver ==
    /\ MasterAt("wait")
    /\ LET r == IF got[1] = "pending" THEN 1 ELSE 2
       IN  /\ TaskOver(core[r])
           /\ got' = [got EXCEPT ![r] = ResultOf(r)]
           /\ task_get_result(r)
           /\ master' = IF r = 1 THEN "wait" ELSE "stop"
    /\ UNCHANGED <<lifecycle, barrier, live, core, wakeAt, locals, sniff, network, history>>

\* lm.stop(), then printStats, which starts with a sleep, in live mode.
Stop ==
    /\ MasterAt("stop")
    /\ set_runtime(0)
    /\ master' = IF live THEN "sleep" ELSE "exit"
    /\ wakeAt' = timer_new(PrintDelay)
    /\ UNCHANGED <<tasks, barrier, live, core, got, locals, sniff, network, history>>

Sleep ==
    /\ MasterAt("sleep")
    /\ tsc >= wakeAt
    /\ master' = "fetch"
    /\ UNCHANGED <<runtimeVars, live, core, got, wakeAt, locals, sniff, network, history>>

\* A double is cut to an int64_t.
Truncated(x, unit) == IF x < 0 THEN -((-x) \div unit) ELSE x \div unit

\* ms_fetch_stats, called by printStats.
fetch_stats ==
    /\ MasterAt("fetch")
    /\ printed' = [hits |-> hits, misses |-> misses,
                   average |-> Truncated(mean, Scale),
                   variance |-> IF count < 2 THEN 0
                                ELSE Truncated(m2, Scale * Scale * (count - 1))]
    /\ master' = "exit"
    /\ UNCHANGED <<runtimeVars, live, core, got, wakeAt, locals, network, history,
                   hit_list, mtx, old_ts, thresh, count, mean, m2, hits, misses, matched>>

\* main returns, which ends every other thread.
Exit ==
    /\ MasterAt("exit")
    /\ process' = "exited"
    /\ UNCHANGED <<tsc, stop_at, signal_at, tasks, barrier, control, locals, sniff, network, history>>

-----------------------------------------------------------------------------
(* A task from its start to the function it is to run, and its end *)

At(c, label) == process = "up" /\ pc[c] = label

GoTo(c, label) == pc' = [pc EXCEPT ![c] = label]

Failures == Cardinality({r \in Receivers : outcome[r] \in {"error", NULL}})

\* A receiver's outcome is noted when it is decided.
Outcome(c, value) ==
    /\ outcome' = [r \in Receivers |-> IF running[c] = r THEN value ELSE outcome[r]]
    /\ UNCHANGED <<tested, captured>>

\* launch_lua, and the script loaded in the new VM.
BootTask(c) ==
    /\ At(c, "boot")
    /\ GoTo(c, "drain")
    /\ timer' = [timer EXCEPT ![c] = timer_new(DrainTime)]
    /\ UNCHANGED <<runtimeVars, control, bufs, sniff, network, history>>

\* The script cannot be loaded: no result is stored.
BootFails(c) ==
    /\ At(c, "boot")
    /\ Failures < MaxFailures
    /\ GoTo(c, "idle")
    /\ lua_core_main_returns(c)
    /\ Outcome(c, NULL)
    /\ UNCHANGED <<lifecycle, barrier, control, timer, bufs, sniff, network>>

\* slave() stores what the function returned, or nothing if it failed ...
StoreResult(c) ==
    /\ pc[c] \in {"store", "failed"} /\ process = "up"
    /\ LET value == IF pc[c] = "failed" THEN "error" ELSE "ok"
       IN  task_store_result(running[c], value) /\ Outcome(c, value)
    /\ GoTo(c, "return")
    /\ UNCHANGED <<lifecycle, barrier, control, timer, bufs, sniff, network>>

\* ... and then lua_core_main returns.
ReturnTask(c) ==
    /\ At(c, "return")
    /\ lua_core_main_returns(c)
    /\ GoTo(c, "idle")
    /\ UNCHANGED <<lifecycle, barrier, control, timer, bufs, sniff, network, history>>

-----------------------------------------------------------------------------
(* timestamp(), the receivers' function *)

\* What arrives in the first half second is thrown away.
Drain(c) ==
    /\ At(c, "drain")
    /\ tsc < timer[c]
    /\ rx[Port(c)] # << >>
    /\ rx' = [rx EXCEPT ![Port(c)] = << >>]
    /\ UNCHANGED <<preTs, postTs, runtimeVars, control, locals, sniff, history>>

ms_set_thresh(value) == thresh' = value

Drained(c) ==
    /\ At(c, "drain")
    /\ tsc >= timer[c]
    /\ GoTo(c, IF live THEN "loop" ELSE "open")
    /\ IF live THEN ms_set_thresh(MS_THRESH) ELSE UNCHANGED thresh
    /\ timer' = [timer EXCEPT ![c] = timer_new(RunTime)]
    /\ UNCHANGED <<runtimeVars, control, bufs, network, history,
                   hit_list, mtx, old_ts, count, mean, m2, hits, misses, printed, matched>>

\* newWriter, which raises an error if it cannot create or map the file.
OpenWriter(c) ==
    /\ At(c, "open")
    /\ \/ GoTo(c, "barrier")
       \/ Failures < MaxFailures /\ GoTo(c, "failed")
    /\ UNCHANGED <<runtimeVars, control, timer, bufs, sniff, network, history>>

ArriveAtBarrier(c) ==
    /\ At(c, "barrier")
    /\ barrier_wait(c)
    /\ GoTo(c, IF n' = 0 THEN "loop" ELSE "blocked")
    /\ timer' = [timer EXCEPT ![c] = timer_new(RunTime)]
    /\ UNCHANGED <<lifecycle, tasks, control, bufs, sniff, network, history>>

LeaveBarrier(c) ==
    /\ At(c, "blocked")
    /\ barrier_wake(c)
    /\ GoTo(c, "loop")
    /\ timer' = [timer EXCEPT ![c] = timer_new(RunTime)]
    /\ UNCHANGED <<lifecycle, tasks, control, bufs, sniff, network, history>>

\* Mutant: the run time is not looked at.
LoopOn_NoTimer(c) == is_running(0)

LoopOn(c) == is_running(0) /\ tsc < timer[c]

Batch(c) == {rx[Port(c)][k].id : k \in DOMAIN rx[Port(c)]}

\* core_online: a batch is received and handled packet by packet.
ReceiveLive(c) ==
    /\ At(c, "loop") /\ live /\ LoopOn(c)
    /\ rx[Port(c)] # << >>
    /\ bufs' = [bufs EXCEPT ![c] = rx[Port(c)]]
    /\ rx' = [rx EXCEPT ![Port(c)] = << >>]
    /\ tested' = IF Port(c) = "post" THEN tested \cup Batch(c) ELSE tested
    /\ GoTo(c, "packet")
    /\ UNCHANGED <<preTs, postTs, runtimeVars, control, timer, sniff, captured, outcome>>

\* core_capture and core_offline: a batch is received and written.
ReceiveCapture(c) ==
    /\ At(c, "loop") /\ ~live /\ LoopOn(c)
    /\ rx[Port(c)] # << >>
    /\ captured' = [captured EXCEPT ![Port(c)] = @ \cup Batch(c)]
    /\ rx' = [rx EXCEPT ![Port(c)] = << >>]
    /\ UNCHANGED <<preTs, postTs, runtimeVars, control, locals, sniff, tested, outcome>>

LoopEnds(c) ==
    /\ At(c, "loop")
    /\ ~LoopOn(c)
    /\ GoTo(c, "store")
    /\ UNCHANGED <<runtimeVars, control, timer, bufs, sniff, network, history>>

-----------------------------------------------------------------------------
(* moonsniff.cpp: the packet at the head of the batch *)

Index(c) == Head(bufs[c]).id % Slots

\* The loop over the batch goes on, or back to tryRecv.
NextPacket(c) ==
    /\ bufs' = [bufs EXCEPT ![c] = Tail(@)]
    /\ GoTo(c, IF Len(bufs[c]) = 1 THEN "loop" ELSE "packet")
    /\ UNCHANGED timer

Statistics == <<thresh, count, mean, m2, hits, misses, printed, matched>>

\* Mutant: the entry is used without its lock.
LockEntry_NoLock(c) ==
    /\ At(c, "packet")
    /\ GoTo(c, IF Port(c) = "pre" THEN "ts" ELSE "read")
    /\ UNCHANGED <<runtimeVars, control, timer, bufs, network, history, mtx,
                   hit_list, old_ts, Statistics>>

\* The spinning try_lock of add_entry and test_for.
LockEntry(c) ==
    /\ At(c, "packet")
    /\ mtx[Index(c)] = 0
    /\ mtx' = [mtx EXCEPT ![Index(c)] = c]
    /\ GoTo(c, IF Port(c) = "pre" THEN "ts" ELSE "read")
    /\ UNCHANGED <<runtimeVars, control, timer, bufs, network, history,
                   hit_list, old_ts, Statistics>>

AddTimestamp(c) ==
    /\ At(c, "ts")
    /\ hit_list' = [hit_list EXCEPT ![Index(c)].timestamp = Head(bufs[c]).ts]
    /\ GoTo(c, "id")
    /\ UNCHANGED <<runtimeVars, control, timer, bufs, network, history, mtx, old_ts, Statistics>>

AddIdentifier(c) ==
    /\ At(c, "id")
    /\ hit_list' = [hit_list EXCEPT ![Index(c)].identifier = Head(bufs[c]).id]
    /\ mtx' = [mtx EXCEPT ![Index(c)] = 0]
    /\ NextPacket(c)
    /\ UNCHANGED <<runtimeVars, control, network, history, old_ts, Statistics>>

TestRead(c) ==
    /\ At(c, "read")
    /\ LET entry == hit_list[Index(c)]
       IN  old_ts' = IF entry.identifier = Head(bufs[c]).id THEN entry.timestamp ELSE 0
    /\ GoTo(c, "clear")
    /\ UNCHANGED <<runtimeVars, control, timer, bufs, network, history, hit_list, mtx, Statistics>>

TestClear(c) ==
    /\ At(c, "clear")
    /\ hit_list' = [hit_list EXCEPT ![Index(c)].timestamp = 0]
    /\ GoTo(c, "unlock")
    /\ UNCHANGED <<runtimeVars, control, timer, bufs, network, history, mtx, old_ts, Statistics>>

TestUnlock(c) ==
    /\ At(c, "unlock")
    /\ hit_list' = [hit_list EXCEPT ![Index(c)].identifier = 0]
    /\ mtx' = [mtx EXCEPT ![Index(c)] = 0]
    /\ GoTo(c, "account")
    /\ UNCHANGED <<runtimeVars, control, timer, bufs, network, history, old_ts, Statistics>>

\* A hit enters the running mean and variance; a latency below thresh is only
\* reported.
TestAccount(c) ==
    /\ At(c, "account")
    /\ IF old_ts # 0
       THEN LET delta == Scale * (Head(bufs[c]).ts - old_ts) - mean
            IN  /\ hits' = hits + 1
                /\ count' = count + 1
                /\ mean' = mean + delta \div count'
                /\ m2' = m2 + delta * (delta + mean - mean')
                /\ matched' = matched \cup {Head(bufs[c]).id}
                /\ UNCHANGED misses
       ELSE /\ misses' = misses + 1
            /\ UNCHANGED <<hits, count, mean, m2, matched>>
    /\ NextPacket(c)
    /\ UNCHANGED <<runtimeVars, control, network, history, hit_list, mtx, old_ts, thresh, printed>>

-----------------------------------------------------------------------------

Master ==
    \/ StartReceiver \/ WaitReceiver \/ Stop \/ Sleep
    \/ fetch_stats \/ Exit

Task(c) ==
    \/ BootTask(c) \/ StoreResult(c) \/ ReturnTask(c)
    \/ Drain(c) \/ Drained(c) \/ OpenWriter(c)
    \/ ArriveAtBarrier(c) \/ LeaveBarrier(c)
    \/ ReceiveLive(c) \/ ReceiveCapture(c) \/ LoopEnds(c)
    \/ LockEntry(c) \/ AddTimestamp(c) \/ AddIdentifier(c)
    \/ TestRead(c) \/ TestClear(c) \/ TestUnlock(c) \/ TestAccount(c)

Next ==
    \/ Clock \/ Signal \/ PacketBefore \/ PacketBehind
    \/ Master
    \/ \E c \in Cores : Task(c) \/ BootFails(c)

Spec == Init /\ [][Next]_vars

\* Time passes, and the operating system runs every thread.
FairSpec ==
    /\ Spec
    /\ WF_vars(Clock)
    /\ WF_vars(Master)
    /\ \A c \in Cores : WF_vars(Task(c))

-----------------------------------------------------------------------------
(* Properties *)

Latency(i) == postTs[i] - preTs[i]

\* test_for (moonsniff.cpp:69) measures every hit between the two timestamps
\* of one packet, although identifiers share entries and the two receivers
\* work on them at once: count, mean and m2 are those of the true latencies.
LatencyRight ==
    /\ count = Cardinality(matched)
    /\ mean * count = Scale * MapThenSumSet(Latency, matched)
    /\ LET deviation(i) == (Scale * Latency(i) - mean) * (Scale * Latency(i) - mean)
       IN  m2 = MapThenSumSet(deviation, matched)

\* moonsniff.cpp:16 says that values smaller than thresh are ignored, and
\* sniffer.lua:19 that they "will not be included in the latency estimation".
\* test_for reports them and counts them all the same (SnifferThreshold.cfg).
BelowThreshIgnored == count = Cardinality({i \in matched : Latency(i) >= thresh})

\* printStats (sniffer.lua:198) runs when both receivers have handled all they
\* received: every packet taken from the second queue is in what it prints.
PrintedComplete ==
    printed # NULL =>
        /\ printed.hits + printed.misses = Cardinality(tested)
        /\ printed.hits = Cardinality(matched)
        /\ printed.hits > 0 => printed.average =
               Truncated(MapThenSumSet(Latency, matched), printed.hits)

\* task:wait (libmoon.lua:90) returns what its own task left behind, nothing
\* only if that task failed, also when the second receiver was started on the
\* core the first one had left; no result stays in the map.
OwnResult ==
    \A r \in Receivers : got[r] # "pending" =>
        /\ got[r] = outcome[r]
        /\ \A s \in results : s.id # r

\* barrier_wait (barrier.cpp:17) holds a receiver back until the other one has
\* opened its file too: nothing is captured by one receiver alone.
CaptureTogether ==
    ~live =>
        /\ (captured["pre"] \cup captured["post"] # {} => n = 0)
        /\ (n = 0 => \A r \in Receivers : outcome[r] \in {"pending", "ok"})

\* The program ends by itself, after args.time or after a signal.  Only a
\* receiver that fails before the barrier keeps it: the other waits for ever,
\* and the master with it (sniffer.lua:71, 127).
Finishes == <>(process # "up" \/ (~live /\ Failures > 0))
=============================================================================

-------------------------------- MODULE LteDrx ------------------------------
(***************************************************************************)
(* The LTE link emulator (examples/l2-forward-psring-hybrid-latency-rate-  *)
(* lte.lua).  One forward thread per direction takes packets out of its    *)
(* packet-sized ring and sends them; all threads share the DRX mode of the *)
(* emulated mobile, held as separate Boolean fields of the namespace ns.   *)
(* A mode change is a write of FALSE to one field and then a write of TRUE *)
(* to another, without a lock, so the threads see each other's half-made   *)
(* changes.  Every access to ns is a step of its own.                      *)
(*                                                                         *)
(* Assumption: reading a field is atomic.  The namespace does not ensure   *)
(* it: namespace_retrieve hands out a pointer that is copied after the     *)
(* lock is released, so a read that overlaps a write may be torn.          *)
(*                                                                         *)
(* Time is kept as the ages of the time stamps the code compares with the  *)
(* clock, counted up to MaxAge.  The delay of a packet (latency, random    *)
(* extra latency, retransmissions, time already waited) is an arbitrary    *)
(* time, as the exponentially distributed xlatency makes it.               *)
(***************************************************************************)
EXTENDS Integers

CONSTANTS
    Threads,        \* the forward threads
    MaxQueue,       \* capacity of each thread's ring
    ShortCycle, LongCycle, IdleCycle,   \* cycle lengths
    ActiveTime,     \* T_on, the part of a cycle spent listening
    BuildDelay,     \* rcc_connection_build_delay
    ContTimer, ShortTimer, LongTimer,   \* the inactivity timers
    MaxAge,         \* ages are counted up to here
    Staggered,      \* may a thread enter its loop before the others have started?
    Prompt          \* does every thread make one pass of its loop per tick?

Lower == [continuous_reception |-> "short_DRX",
          short_DRX |-> "long_DRX",
          long_DRX |-> "rcc_idle"]

DRX == {"short_DRX", "long_DRX"}
Sleep == DRX \cup {"rcc_idle"}
Mode == Sleep \cup {"continuous_reception"}
Flag == Mode \cup {"first_rcc_connected"}

CycleLength ==
    [short_DRX |-> ShortCycle, long_DRX |-> LongCycle, rcc_idle |-> IdleCycle]

\* The thresholds add up: each mode's timer starts where the last one ended.
InactiveTime ==
    [continuous_reception |-> ContTimer,
     short_DRX |-> ShortTimer + ContTimer,
     long_DRX |-> LongTimer + ShortTimer + ContTimer]

ASSUME LteDrxAssumption ==
    /\ Threads # {}
    /\ MaxQueue \in Nat \ {0}
    /\ {ShortCycle, LongCycle, IdleCycle, BuildDelay, ContTimer, ShortTimer,
        LongTimer, MaxAge} \subseteq Nat
    /\ ActiveTime \in Nat \ {0}
    /\ \A m \in Sleep : ActiveTime <= CycleLength[m] /\ CycleLength[m] <= MaxAge
    /\ BuildDelay <= MaxAge
    /\ InactiveTime["long_DRX"] < MaxAge
    /\ {Staggered, Prompt} \subseteq BOOLEAN

VARIABLES
    ns,                \* the shared Boolean fields
    last_packet_age,   \* age of ns.last_packet_time
    last_activity_age, \* age of each thread's local last_activity
    pc,                \* where each thread is: <<label, mode>>
    queue,             \* packets in each thread's ring
    running,           \* mg.running()
    passed             \* threads that have made their pass in this tick

vars == <<ns, last_packet_age, last_activity_age, pc, queue, running, passed>>

At(t, l, m) == pc[t] = <<l, m>>

Goto(t, l, m) == pc' = [pc EXCEPT ![t] = <<l, m>>]

\* Before a thread has taken up its loop.
Starting(t) == pc[t][1] \in {"launch", "start", "started"}

Init ==
    /\ ns = [f \in Flag |-> FALSE]
    /\ last_packet_age = 0
    /\ last_activity_age = [t \in Threads |-> 0]
    /\ pc = [t \in Threads |-> <<"launch", "none">>]
    /\ queue = [t \in Threads |-> 0]
    /\ running = TRUE
    /\ passed = {}
-----------------------------------------------------------------------------
(* Steps of a forward thread that several operations share *)

\* A write to one field of ns.
Write(t, f, v, l, m) ==
    /\ ns' = [ns EXCEPT ![f] = v]
    /\ Goto(t, l, m)
    /\ UNCHANGED <<last_packet_age, last_activity_age, queue, running, passed>>

\* A step that reads, and notes the time in last_activity if stamp holds.
Read(t, stamp, l, m) ==
    /\ Goto(t, l, m)
    /\ last_activity_age' =
            IF stamp THEN [last_activity_age EXCEPT ![t] = 0] ELSE last_activity_age
    /\ UNCHANGED <<ns, last_packet_age, queue, running, passed>>

\* ns.last_packet_time = now, together with last_activity if stamp holds.
Touch(t, stamp, l, m) ==
    /\ last_packet_age' = 0
    /\ last_activity_age' =
            IF stamp THEN [last_activity_age EXCEPT ![t] = 0] ELSE last_activity_age
    /\ Goto(t, l, m)
    /\ UNCHANGED <<ns, queue, running, passed>>

\* The loop is gone through without time passing in a sleep.
NextPass(t) ==
    /\ Goto(t, "build", "none")
    /\ passed' = IF Prompt THEN passed \cup {t} ELSE passed
    /\ UNCHANGED <<ns, last_packet_age, last_activity_age, queue, running>>
-----------------------------------------------------------------------------
(* Start of a forward thread *)

\* The task has been created on its core.
Launch(t) ==
    /\ At(t, "launch", "none")
    /\ Read(t, FALSE, "start", "rcc_idle")

StartNext ==
    [rcc_idle |-> "short_DRX", short_DRX |-> "long_DRX",
     long_DRX |-> "continuous_reception",
     continuous_reception |-> "last_packet_time"]

\* The fields are reset one after the other, by every thread.
StartMode(t) ==
    \E m \in Mode :
        /\ At(t, "start", m)
        /\ Write(t, m, m = "rcc_idle", "start", StartNext[m])

StartTime(t) ==
    /\ At(t, "start", "last_packet_time")
    /\ Touch(t, TRUE, "start", "first_rcc_connected")

StartConnected(t) ==
    /\ At(t, "start", "first_rcc_connected")
    /\ Write(t, "first_rcc_connected", FALSE, "started", "none")

\* The rest of the set-up, and the first pass of the loop.
Begin(t) ==
    /\ At(t, "started", "none")
    /\ Staggered \/ \A u \in Threads : pc[u][1] \notin {"launch", "start"}
    /\ Read(t, FALSE, "build", "none")
-----------------------------------------------------------------------------
(* The delay of a connection set-up *)

\* Mutant: the main loop does not look whether the program is to end.
TestBuild_WhileTrue(t) ==
    /\ At(t, "build", "none")
    /\ t \notin passed
    /\ IF ns["first_rcc_connected"]
       THEN Read(t, TRUE, "building", "none")
       ELSE Read(t, FALSE, "test", "continuous_reception")

TestBuild(t) ==
    /\ At(t, "build", "none")
    /\ running
    /\ t \notin passed
    /\ IF ns["first_rcc_connected"]
       THEN Read(t, TRUE, "building", "none")
       ELSE Read(t, FALSE, "test", "continuous_reception")

\* The delay is over, or another thread has ended it.
Built(t) ==
    /\ At(t, "building", "none")
    /\ last_activity_age[t] >= BuildDelay \/ ~ns["first_rcc_connected"]
    /\ Read(t, FALSE, "built", "none")

ConnectionBuilt(t) ==
    /\ At(t, "built", "none")
    /\ ns' = [ns EXCEPT !["first_rcc_connected"] = FALSE]
    /\ last_activity_age' = [last_activity_age EXCEPT ![t] = 0]
    /\ Goto(t, "test", "continuous_reception")
    /\ UNCHANGED <<last_packet_age, queue, running, passed>>
-----------------------------------------------------------------------------
(* Continuous reception *)

\* One packet at most is taken out of the ring.
Receive(t) ==
    /\ At(t, "test", "continuous_reception")
    /\ IF ns["continuous_reception"] /\ queue[t] > 0
       THEN /\ queue' = [queue EXCEPT ![t] = @ - 1]
            /\ Goto(t, "sending", "none")
            /\ UNCHANGED <<ns, last_packet_age, last_activity_age, running, passed>>
       ELSE IF ns["continuous_reception"]
            THEN Read(t, FALSE, "timer", "continuous_reception")
            ELSE Read(t, FALSE, "test", "short_DRX")

\* The packet's time has come and it is sent.
Send(t) ==
    /\ At(t, "sending", "none")
    /\ Touch(t, TRUE, "timer", "continuous_reception")
-----------------------------------------------------------------------------
(* The sleeping modes *)

TestMode(t) ==
    \E m \in Sleep :
        /\ At(t, "test", m)
        /\ IF ns[m] THEN Read(t, TRUE, "wait", m)
           ELSE IF m = "rcc_idle" THEN NextPass(t)
           ELSE Read(t, FALSE, "test", Lower[m])

\* The loops of the two DRX modes also end when the mode does.
Abandoned(m) == m \in DRX /\ ~ns[m]

WaitOver(t, m) ==
    Abandoned(m) \/ last_activity_age[t] >= CycleLength[m] - ActiveTime

Wait(t) ==
    \E m \in Sleep :
        /\ At(t, "wait", m)
        /\ WaitOver(t, m)
        /\ Read(t, TRUE, "active", m)

ActiveOver(t, m) == Abandoned(m) \/ last_activity_age[t] >= ActiveTime

\* T_on ends without a packet.
ActiveEnds(t) ==
    \E m \in Sleep :
        /\ At(t, "active", m)
        /\ ActiveOver(t, m)
        /\ IF m = "rcc_idle" THEN NextPass(t) ELSE Read(t, FALSE, "timer", m)

\* Mutant: the thread wakes up without looking into its ring.
Active_NoCount(t) ==
    \E m \in Sleep :
        /\ At(t, "active", m)
        /\ ~ActiveOver(t, m)
        /\ Read(t, FALSE, "wake", m)

\* There is a packet: the mode is left for continuous reception.
Active(t) ==
    \E m \in Sleep :
        /\ At(t, "active", m)
        /\ ~ActiveOver(t, m)
        /\ queue[t] > 0
        /\ Read(t, FALSE, "wake", m)

Wake(t) ==
    \E m \in Sleep :
        /\ At(t, "wake", m)
        /\ Write(t, m, FALSE, "connect", m)

Connect(t) ==
    \E m \in Sleep :
        /\ At(t, "connect", m)
        /\ Write(t, "continuous_reception", TRUE,
                 IF m = "rcc_idle" THEN "announce" ELSE "touch", m)

\* Only from RRC_IDLE does the connection have to be built.
Announce(t) ==
    /\ At(t, "announce", "rcc_idle")
    /\ Write(t, "first_rcc_connected", TRUE, "touch", "rcc_idle")

Woken(t) ==
    \/ /\ At(t, "touch", "rcc_idle")
       /\ Touch(t, FALSE, "build", "none")
    \/ \E m \in DRX :
        /\ At(t, "touch", m)
        /\ Touch(t, TRUE, "timer", m)
-----------------------------------------------------------------------------
(* The inactivity timers *)

Expired(t, m) ==
    /\ last_packet_age > InactiveTime[m]
    /\ m = "continuous_reception" => last_activity_age[t] > InactiveTime[m]

Timer(t) ==
    \E m \in DOMAIN Lower :
        /\ At(t, "timer", m)
        /\ IF Expired(t, m) THEN Read(t, FALSE, "drop", m)
                            ELSE Read(t, FALSE, "test", Lower[m])

\* Mutant: the timer ends a mode without starting the next one.
Drop_NoRaise(t) ==
    \E m \in DOMAIN Lower :
        /\ At(t, "drop", m)
        /\ Write(t, m, FALSE, "test", Lower[m])

Drop(t) ==
    \E m \in DOMAIN Lower :
        /\ At(t, "drop", m)
        /\ Write(t, m, FALSE, "raise", Lower[m])

Raise(t) ==
    \E m \in Sleep :
        /\ At(t, "raise", m)
        /\ Write(t, m, TRUE, "test", m)
-----------------------------------------------------------------------------
(* Time, traffic and the end of the program *)

\* In one of the spin loops, with nothing to do but wait.
Spinning(t) ==
    \/ At(t, "building", "none") /\ ns["first_rcc_connected"]
        /\ last_activity_age[t] < BuildDelay
    \/ At(t, "sending", "none")
    \/ \E m \in Sleep : At(t, "wait", m) /\ ~WaitOver(t, m)
    \/ \E m \in Sleep : At(t, "active", m) /\ ~ActiveOver(t, m) /\ queue[t] = 0

Done(t) == At(t, "done", "none")

\* Every spin loop, and the main loop, looks whether the program is to end.
Return(t) ==
    /\ ~running
    /\ Spinning(t) \/ At(t, "build", "none")
    /\ Read(t, FALSE, "done", "none")

Older(a) == IF a < MaxAge THEN a + 1 ELSE a

Tick ==
    /\ Prompt => \A t \in Threads :
            t \in passed \/ Spinning(t) \/ At(t, "launch", "none") \/ Done(t)
    /\ last_packet_age' = Older(last_packet_age)
    /\ last_activity_age' = [t \in Threads |-> Older(last_activity_age[t])]
    /\ passed' = {}
    /\ UNCHANGED <<ns, pc, queue, running>>

\* The receive task of the direction puts a packet into the ring.
Arrive(t) ==
    /\ running
    /\ queue[t] < MaxQueue
    /\ queue' = [queue EXCEPT ![t] = @ + 1]
    /\ UNCHANGED <<ns, last_packet_age, last_activity_age, pc, running, passed>>

Stop ==
    /\ running
    /\ running' = FALSE
    /\ UNCHANGED <<ns, last_packet_age, last_activity_age, pc, queue, passed>>

Start(t) == Launch(t) \/ StartMode(t) \/ StartTime(t) \/ StartConnected(t) \/ Begin(t)

Build(t) == TestBuild(t) \/ Built(t) \/ ConnectionBuilt(t)

Rest(t) == TestMode(t) \/ Wait(t) \/ ActiveEnds(t)

WakeUp(t) == Active(t) \/ Wake(t) \/ Connect(t) \/ Announce(t) \/ Woken(t)

TimeOut(t) == Timer(t) \/ Drop(t) \/ Raise(t)

Forward(t) ==
    \/ Start(t) \/ Build(t) \/ Receive(t) \/ Send(t)
    \/ Rest(t) \/ WakeUp(t) \/ TimeOut(t) \/ Return(t)

Next ==
    \/ \E t \in Threads : Forward(t) \/ Arrive(t)
    \/ Tick
    \/ Stop

\* Every thread has a core of its own, so it keeps running; time passes.
Fairness == WF_vars(Tick) /\ \A t \in Threads : WF_vars(Forward(t))

Spec == Init /\ [][Next]_vars /\ Fairness
-----------------------------------------------------------------------------
(* Properties *)

Label == {"launch", "start", "started", "build", "building", "built", "test",
          "sending", "wait", "active", "wake", "connect", "announce", "touch",
          "timer", "drop", "raise", "done"}

\* Type invariant.
TypeOK ==
    /\ pc \in [Threads -> Label \X (Flag \cup {"none", "last_packet_time"})]
    /\ ns \in [Flag -> BOOLEAN]
    /\ last_packet_age \in 0..MaxAge
    /\ last_activity_age \in [Threads -> 0..MaxAge]
    /\ queue \in [Threads -> 0..MaxQueue]
    /\ running \in BOOLEAN
    /\ passed \in SUBSET Threads

\* A thread between the two writes of a mode change.
Switching(t) == pc[t][1] \in {"connect", "raise"}

\* "DRX in LTE is in RRC_IDLE or in RRC_CONNECTED mode" (line 152): the mode
\* is never lost, whatever mode changes the threads make at the same time.
\* Once every thread is in its loop, a mode is set or a thread is about to
\* set one.
SomeMode ==
    \/ \E t \in Threads : Starting(t)
    \/ \E m \in Mode : ns[m]
    \/ \E t \in Threads : Switching(t)

\* "DRX in LTE is in RRC_IDLE or in RRC_CONNECTED mode" (line 152): with no
\* mode change under way the mobile is not in both.
IdleOrConnected ==
    (\A t \in Threads : pc[t][1] \in {"build", "test", "wait", "active"}) =>
        ~(ns["rcc_idle"] /\ \E m \in Mode \ {"rcc_idle"} : ns[m])

\* The inactivity timer "will be reset after each send/received packet" (line
\* 184): continuous reception is given up only when the timer has run out.
TimerReset ==
    [][(\E t \in Threads : Drop(t)) /\ ns["continuous_reception"]
            /\ ~ns'["continuous_reception"] => last_packet_age > ContTimer]_vars

\* Continuous reception is entered only for the sake of a packet that is still
\* in the ring of the thread that enters it.
WokenByPacket ==
    [][~ns["continuous_reception"] /\ ns'["continuous_reception"] =>
            \E t \in Threads : queue[t] > 0]_vars

\* Every packet in a ring is eventually sent, unless the program is stopped.
Delivered ==
    \A t \in Threads : queue[t] > 0 ~> (At(t, "sending", "none") \/ ~running)

\* When the program is stopped every thread returns, whatever loop it is in.
Stops == ~running ~> \A t \in Threads : Done(t)
=============================================================================

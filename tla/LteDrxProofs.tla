---------------------------- MODULE LteDrxProofs ----------------------------
(***************************************************************************)
(* Proofs about LteDrx, for any number of forward threads and any values   *)
(* of the timers.                                                          *)
(***************************************************************************)
EXTENDS LteDrx, TLAPS

Field == Flag \cup {"none", "last_packet_time"}

\* The bounds are numbers.
LEMMA Bounds ==
  /\ MaxAge \in Nat /\ MaxQueue \in Nat \ {0} /\ Threads # {} /\ 0 \in 0..MaxAge
  /\ 0 \in 0..MaxQueue
  BY LteDrxAssumption

\* A ring that is not empty can give up a packet.
LEMMA Predecessor == \A n \in 0..MaxQueue : n > 0 => n - 1 \in 0..MaxQueue
  BY Bounds

\* The type invariant holds initially.
LEMMA TypeInit == Init => TypeOK
<1> SUFFICES ASSUME Init PROVE TypeOK
  BY Zenon
<1>1. <<"launch", "none">> \in Label \X (Flag \cup {"none", "last_packet_time"})
  BY Zenon DEF Label
<1> QED BY <1>1, Bounds, Zenon DEF Init, TypeOK

\* Ages stay within their bound.
LEMMA OlderType == \A a \in 0..MaxAge : Older(a) \in 0..MaxAge
  BY Bounds DEF Older

\* The type invariant is preserved by the steps that make up the actions.
LEMMA StepTypes ==
  ASSUME TypeOK, NEW t \in Threads, NEW l \in Label, NEW m \in Field
  PROVE  /\ \A f \in Flag, v \in BOOLEAN : Write(t, f, v, l, m) => TypeOK'
         /\ \A s \in BOOLEAN : Read(t, s, l, m) => TypeOK'
         /\ \A s \in BOOLEAN : Touch(t, s, l, m) => TypeOK'
         /\ NextPass(t) => TypeOK'
<1> USE Bounds
<1>1. ASSUME NEW f \in Flag, NEW v \in BOOLEAN, Write(t, f, v, l, m)
      PROVE  TypeOK'
  BY <1>1, Zenon DEF TypeOK, Write, Goto, Field
<1>2. ASSUME NEW s \in BOOLEAN, Read(t, s, l, m)
      PROVE  TypeOK'
  <2>1. pc' \in [Threads -> Label \X Field]
    BY <1>2, Zenon DEF TypeOK, Read, Goto, Field
  <2>2. last_activity_age' \in [Threads -> 0..MaxAge]
    BY <1>2, Zenon DEF TypeOK, Read
  <2> QED BY <1>2, <2>1, <2>2, Zenon DEF TypeOK, Read, Field
<1>3. ASSUME NEW s \in BOOLEAN, Touch(t, s, l, m)
      PROVE  TypeOK'
  BY <1>3, Zenon DEF TypeOK, Touch, Goto, Field
<1>4. ASSUME NextPass(t)
      PROVE  TypeOK'
  BY <1>4, Zenon DEF TypeOK, NextPass, Goto, Label
<1> QED BY <1>1, <1>2, <1>3, <1>4, Zenon

\* The constants from which fields and labels are taken.
LEMMA Names ==
  /\ DRX \subseteq Sleep /\ Sleep \subseteq Mode /\ Mode \subseteq Flag
  /\ Flag \subseteq Field /\ "none" \in Field /\ "last_packet_time" \in Field
  /\ "first_rcc_connected" \in Flag /\ "first_rcc_connected" \notin Mode
  /\ "continuous_reception" \in Mode /\ "rcc_idle" \in Sleep
  /\ "continuous_reception" \notin Sleep
  /\ "rcc_idle" \notin DRX
  /\ "short_DRX" \in DRX
  /\ DOMAIN Lower \subseteq Mode
  /\ \A m \in DOMAIN Lower : Lower[m] \in Sleep
  /\ \A m \in DRX : m \in DOMAIN Lower
  /\ \A m \in Mode : StartNext[m] \in Field
  BY DEF Field, Flag, Mode, Sleep, DRX, Lower, StartNext

\* The type invariant is preserved by every step of a thread.
LEMMA TypeForward ==
  ASSUME TypeOK, NEW t \in Threads, Forward(t)
  PROVE  TypeOK'
<1> USE Names
<1>1. CASE Start(t)
  <2>1. CASE Launch(t)
    BY <2>1, StepTypes, Zenon DEF Launch, Label
  <2>2. CASE StartMode(t)
    BY <2>2, StepTypes, Zenon DEF StartMode, Label
  <2>3. CASE StartTime(t)
    BY <2>3, StepTypes, Zenon DEF StartTime, Label
  <2>4. CASE StartConnected(t)
    BY <2>4, StepTypes, Zenon DEF StartConnected, Label
  <2>5. CASE Begin(t)
    BY <2>5, StepTypes, Zenon DEF Begin, Label
  <2> QED BY <1>1, <2>1, <2>2, <2>3, <2>4, <2>5, Zenon DEF Start
<1>2. CASE Build(t)
  <2>1. CASE TestBuild(t)
    BY <2>1, StepTypes, Zenon DEF TestBuild, Label
  <2>2. CASE Built(t)
    BY <2>2, StepTypes, Zenon DEF Built, Label
  <2>3. CASE ConnectionBuilt(t)
    BY <2>3, Bounds, Zenon DEF ConnectionBuilt, Goto, TypeOK, Label, Field
  <2> QED BY <1>2, <2>1, <2>2, <2>3, Zenon DEF Build
<1>3. CASE Receive(t)
  <2>1. CASE ns["continuous_reception"] /\ queue[t] > 0
    <3>1. queue[t] \in 0..MaxQueue
      BY Zenon DEF TypeOK
    <3>2. queue[t] > 0
      BY <2>1, Zenon
    <3>3. queue[t] - 1 \in 0..MaxQueue
      BY <3>1, <3>2, Predecessor, Zenon
    <3>4. /\ queue' = [queue EXCEPT ![t] = @ - 1]
          /\ Goto(t, "sending", "none")
          /\ UNCHANGED <<ns, last_packet_age, last_activity_age, running, passed>>
      BY <1>3, <2>1, Zenon DEF Receive
    <3> QED BY <3>3, <3>4, Zenon DEF Goto, TypeOK, Label, Field
  <2>2. CASE ~(ns["continuous_reception"] /\ queue[t] > 0)
    BY <1>3, <2>2, StepTypes, Zenon DEF Receive, Label
  <2> QED BY <2>1, <2>2, Zenon
<1>4. CASE Send(t)
  BY <1>4, StepTypes, Zenon DEF Send, Label
<1>5. CASE Rest(t)
  <2>1. CASE TestMode(t)
    <3>1. PICK m \in Sleep :
            IF ns[m] THEN Read(t, TRUE, "wait", m)
            ELSE IF m = "rcc_idle" THEN NextPass(t)
            ELSE Read(t, FALSE, "test", Lower[m])
      BY <2>1, Zenon DEF TestMode
    <3>2. m # "rcc_idle" => Lower[m] \in Field
      BY Zenon DEF Sleep, DRX, Lower, Field, Flag, Mode
    <3>3. {"wait", "test"} \subseteq Label
      BY Zenon DEF Label
    <3> QED BY <3>1, <3>2, <3>3, StepTypes, Zenon
  <2>2. CASE Wait(t)
    BY <2>2, StepTypes, Zenon DEF Wait, Label
  <2>3. CASE ActiveEnds(t)
    BY <2>3, StepTypes, Zenon DEF ActiveEnds, Label
  <2> QED BY <1>5, <2>1, <2>2, <2>3, Zenon DEF Rest
<1>6. CASE WakeUp(t)
  <2>1. CASE Active(t)
    BY <2>1, StepTypes, Zenon DEF Active, Label
  <2>2. CASE Wake(t)
    BY <2>2, StepTypes, Zenon DEF Wake, Label
  <2>3. CASE Connect(t)
    BY <2>3, StepTypes, Zenon DEF Connect, Label
  <2>4. CASE Announce(t)
    BY <2>4, StepTypes, Zenon DEF Announce, Label
  <2>5. CASE Woken(t)
    BY <2>5, StepTypes, Zenon DEF Woken, Label
  <2> QED BY <1>6, <2>1, <2>2, <2>3, <2>4, <2>5, Zenon DEF WakeUp
<1>7. CASE TimeOut(t)
  <2>1. CASE Timer(t)
    BY <2>1, StepTypes, Zenon DEF Timer, Label
  <2>2. CASE Drop(t)
    BY <2>2, StepTypes, Zenon DEF Drop, Label
  <2>3. CASE Raise(t)
    BY <2>3, StepTypes, Zenon DEF Raise, Label
  <2> QED BY <1>7, <2>1, <2>2, <2>3, Zenon DEF TimeOut
<1>8. CASE Return(t)
  BY <1>8, StepTypes, Zenon DEF Return, Label
<1> QED BY <1>1, <1>2, <1>3, <1>4, <1>5, <1>6, <1>7, <1>8, Zenon DEF Forward

\* The type invariant is preserved by every step.
LEMMA TypeNext == TypeOK /\ [Next]_vars => TypeOK'
<1> SUFFICES ASSUME TypeOK, [Next]_vars PROVE TypeOK'
  BY Zenon
<1>1. CASE \E t \in Threads : Forward(t)
  BY <1>1, TypeForward, Zenon
<1>2. CASE \E t \in Threads : Arrive(t)
  <2>1. PICK t \in Threads : Arrive(t)
    BY <1>2, Zenon
  <2>2. queue[t] \in 0..MaxQueue
    BY Zenon DEF TypeOK
  <2>3. queue[t] + 1 \in 0..MaxQueue
    BY <2>1, <2>2, Bounds DEF Arrive
  <2> QED BY <2>1, <2>3, Zenon DEF Arrive, TypeOK
<1>3. CASE Tick
  <2>1. \A t \in Threads : Older(last_activity_age[t]) \in 0..MaxAge
    BY OlderType, Zenon DEF TypeOK
  <2>2. Older(last_packet_age) \in 0..MaxAge
    BY OlderType, Zenon DEF TypeOK
  <2> QED BY <1>3, <2>1, <2>2, Zenon DEF Tick, TypeOK
<1>4. CASE Stop
  BY <1>4, Zenon DEF Stop, TypeOK
<1>5. CASE UNCHANGED vars
  BY <1>5, Zenon DEF vars, TypeOK
<1> QED BY <1>1, <1>2, <1>3, <1>4, <1>5, Zenon DEF Next

\* The variables of the emulator keep their types: the mode fields stay
\* Boolean, and no ring holds more than MaxQueue packets.
THEOREM TypeCorrect == Spec => []TypeOK
  BY TypeInit, TypeNext, PTL DEF Spec
-----------------------------------------------------------------------------
(* The mode is never lost.  SomeMode is not inductive: it says nothing of   *)
(* the start, in which every thread clears the modes the others have set.   *)
(* While a thread may still do so no thread is in its loop (StartInv), and  *)
(* rcc_idle is set from the first thread's first write on (IdleInv); from   *)
(* then on every clearing of a mode is followed by the same thread's        *)
(* setting of another (ModeInv).                                            *)

StartLabel == {"launch", "start", "started"}

Early(t) == pc[t][1] \in {"launch", "start"}

ModeOrSwitch == (\E m \in Mode : ns[m]) \/ (\E t \in Threads : Switching(t))

StartInv == (\E u \in Threads : Early(u)) => \A u \in Threads : Starting(u)

HasReset(t) ==
    pc[t][1] = "started" \/ (pc[t][1] = "start" /\ pc[t][2] # "rcc_idle")

IdleInv ==
    (\A u \in Threads : Starting(u)) /\ (\E u \in Threads : HasReset(u))
        => ns["rcc_idle"]

ModeInv == (\E u \in Threads : ~Starting(u)) => ModeOrSwitch

ModesInv == StartInv /\ IdleInv /\ ModeInv

\* No thread has reset anything yet.
LEMMA ModesInit == Init => ModesInv
<1> SUFFICES ASSUME Init PROVE ModesInv
  BY Zenon
<1>1. \A u \in Threads : pc[u][1] = "launch"
  BY Zenon DEF Init
<1>2. \A u \in Threads : Starting(u) /\ ~HasReset(u)
  BY <1>1, Zenon DEF Starting, HasReset
<1> QED BY <1>2, Zenon DEF ModesInv, StartInv, IdleInv, ModeInv

\* Where a step takes its thread, and that it leaves the others where they are.
LEMMA PcStep ==
  ASSUME TypeOK, NEW t \in Threads, NEW l, NEW m, Goto(t, l, m)
  PROVE  /\ pc'[t] = <<l, m>> /\ pc'[t][1] = l /\ pc'[t][2] = m
         /\ \A u \in Threads : u # t => pc'[u] = pc[u]
  BY Zenon DEF Goto, TypeOK

\* A step inside the loop keeps the invariant if there is a mode after it.
LEMMA LoopStep ==
  ASSUME TypeOK, ModesInv, NEW t \in Threads, ~Starting(t),
         NEW l, l \notin StartLabel, NEW m, Goto(t, l, m), ModeOrSwitch'
  PROVE  ModesInv'
<1>1. pc'[t][1] = l /\ \A u \in Threads : u # t => pc'[u] = pc[u]
  BY PcStep, Zenon
<1>2. ~Starting(t)'
  BY <1>1, Zenon DEF Starting, StartLabel
<1>3. \A u \in Threads : ~Early(u)
  BY Zenon DEF ModesInv, StartInv
<1>4. \A u \in Threads : ~Early(u)'
  BY <1>1, <1>2, <1>3, Zenon DEF Early, Starting
<1> QED BY <1>2, <1>4, Zenon DEF ModesInv, StartInv, IdleInv, ModeInv

\* A step that touches no mode, of a thread that is not in the middle of a
\* mode change, leaves a mode if there was one.
LEMMA KeepMode ==
  ASSUME TypeOK, ModesInv, NEW t \in Threads, ~Starting(t), ~Switching(t),
         NEW l, NEW m, Goto(t, l, m), \A f \in Mode : ns'[f] = ns[f]
  PROVE  ModeOrSwitch'
<1>1. \A u \in Threads : u # t => pc'[u] = pc[u]
  BY PcStep, Zenon
<1>2. ModeOrSwitch
  BY Zenon DEF ModesInv, ModeInv
<1>3. CASE \E f \in Mode : ns[f]
  BY <1>3, Zenon DEF ModeOrSwitch
<1>4. CASE \E u \in Threads : Switching(u)
  BY <1>1, <1>4, Zenon DEF ModeOrSwitch, Switching
<1> QED BY <1>2, <1>3, <1>4, Zenon DEF ModeOrSwitch

\* A thread that clears a mode is then about to set one.
LEMMA ClearMode ==
  ASSUME TypeOK, NEW t \in Threads, NEW l \in {"connect", "raise"}, NEW m,
         Goto(t, l, m)
  PROVE  ModeOrSwitch'
  BY PcStep DEF ModeOrSwitch, Switching

\* A thread that sets a mode has set it.
LEMMA SetMode ==
  ASSUME TypeOK, NEW f \in Mode, ns' = [ns EXCEPT ![f] = TRUE]
  PROVE  ModeOrSwitch'
<1>1. ns'[f] = TRUE
  BY Names, Zenon DEF TypeOK
<1> QED BY <1>1, Zenon DEF ModeOrSwitch

\* What a step that only reads, writes a time stamp or ends a pass keeps.
LEMMA Harmless ==
  ASSUME TypeOK, ModesInv, NEW t \in Threads, ~Starting(t), ~Switching(t),
         NEW l, l \notin StartLabel, NEW m
  PROVE  /\ \A s \in BOOLEAN : Read(t, s, l, m) => ModesInv'
         /\ \A s \in BOOLEAN : Touch(t, s, l, m) => ModesInv'
         /\ NextPass(t) => ModesInv'
         /\ \A v \in BOOLEAN : Write(t, "first_rcc_connected", v, l, m) => ModesInv'
<1>1. ASSUME NEW s \in BOOLEAN, Read(t, s, l, m) \/ Touch(t, s, l, m)
      PROVE  ModesInv'
  <2>1. Goto(t, l, m) /\ ns' = ns
    BY <1>1, Zenon DEF Read, Touch
  <2> QED BY <2>1, KeepMode, LoopStep, Zenon
<1>2. ASSUME NextPass(t) PROVE ModesInv'
  <2>1. Goto(t, "build", "none") /\ ns' = ns
    BY <1>2, Zenon DEF NextPass
  <2>2. "build" \notin StartLabel
    BY Zenon DEF StartLabel
  <2>3. ModeOrSwitch'
    BY <2>1, KeepMode, Zenon
  <2> QED BY <2>1, <2>2, <2>3, LoopStep, Zenon
<1>3. ASSUME NEW v \in BOOLEAN, Write(t, "first_rcc_connected", v, l, m)
      PROVE  ModesInv'
  <2>1. Goto(t, l, m) /\ \A f \in Mode : ns'[f] = ns[f]
    BY <1>3, Names, Zenon DEF Write, TypeOK
  <2> QED BY <2>1, KeepMode, LoopStep, Zenon
<1> QED BY <1>1, <1>2, <1>3, Zenon

\* The labels at which a thread is neither starting nor changing the mode.
CalmLabel == Label \ (StartLabel \cup {"connect", "raise"})

\* A thread at a calm label is neither starting nor changing the mode.
LEMMA Calm ==
  ASSUME NEW t \in Threads, NEW l \in CalmLabel, NEW m, At(t, l, m)
  PROVE  ~Starting(t) /\ ~Switching(t)
  BY DEF At, Starting, Switching, StartLabel, CalmLabel, Label

\* A thread in the middle of a mode change has finished starting.
LEMMA Switcher ==
  ASSUME NEW t \in Threads, NEW l \in {"connect", "raise"}, NEW m, At(t, l, m)
  PROVE  ~Starting(t)
  BY DEF At, Starting

\* The labels of the loop other than those of a mode change are calm.
LEMMA CalmLabels ==
  /\ {"build", "building", "built", "test", "sending", "wait", "active", "wake",
      "announce", "touch", "timer", "drop", "done"} \subseteq CalmLabel
  /\ \A l \in CalmLabel : l \notin StartLabel
  BY Zenon DEF CalmLabel, Label, StartLabel

\* A calm thread that takes one of the steps above to a calm label.
LEMMA CalmStep ==
  ASSUME TypeOK, ModesInv, NEW t \in Threads, NEW k \in CalmLabel, NEW n,
         At(t, k, n), NEW l \in CalmLabel, NEW m
  PROVE  /\ Read(t, TRUE, l, m) => ModesInv'
         /\ Read(t, FALSE, l, m) => ModesInv'
         /\ Touch(t, TRUE, l, m) => ModesInv'
         /\ Touch(t, FALSE, l, m) => ModesInv'
         /\ NextPass(t) => ModesInv'
         /\ Write(t, "first_rcc_connected", TRUE, l, m) => ModesInv'
<1>1. ~Starting(t) /\ ~Switching(t) /\ l \notin StartLabel
  BY Calm, CalmLabels, Zenon
<1> QED BY <1>1, Harmless, Zenon

\* The invariant is preserved while a thread starts.
LEMMA ModesStart ==
  ASSUME TypeOK, ModesInv, Staggered = FALSE, NEW t \in Threads, Start(t)
  PROVE  ModesInv'
<1>1. ASSUME NEW l \in StartLabel, NEW m, Goto(t, l, m), Early(t),
             HasReset(t)' => ns'["rcc_idle"],
             ns["rcc_idle"] => ns'["rcc_idle"]
      PROVE  ModesInv'
  <2>1. \A u \in Threads : Starting(u)
    BY <1>1, Zenon DEF ModesInv, StartInv
  <2>2. pc'[t][1] = l /\ \A u \in Threads : u # t => pc'[u] = pc[u]
    BY <1>1, PcStep, Zenon
  <2>3. \A u \in Threads : Starting(u)'
    BY <2>1, <2>2, Zenon DEF Starting, StartLabel
  <2>4. IdleInv'
    <3>1. ASSUME NEW u \in Threads, HasReset(u)', u # t
          PROVE  ns'["rcc_idle"]
      <4>1. HasReset(u)
        BY <2>2, <3>1, Zenon DEF HasReset
      <4>2. ns["rcc_idle"]
        BY <2>1, <4>1, Zenon DEF ModesInv, IdleInv
      <4> QED BY <1>1, <4>2, Zenon
    <3> QED BY <1>1, <3>1, Zenon DEF IdleInv
  <2> QED BY <2>3, <2>4, Zenon DEF ModesInv, StartInv, ModeInv
<1>2. CASE Launch(t)
  <2>1. pc[t][1] = "launch" /\ Goto(t, "start", "rcc_idle") /\ ns' = ns
    BY <1>2 DEF Launch, At, Read
  <2>2. ~HasReset(t)'
    BY <2>1, PcStep DEF HasReset
  <2> QED BY <1>1, <2>1, <2>2, Zenon DEF Early, StartLabel
<1>3. CASE StartMode(t)
  <2>1. PICK m \in Mode : /\ At(t, "start", m)
                          /\ Write(t, m, m = "rcc_idle", "start", StartNext[m])
    BY <1>3, Zenon DEF StartMode
  <2>2. /\ pc[t][1] = "start" /\ pc[t][2] = m
        /\ Goto(t, "start", StartNext[m])
        /\ ns' = [ns EXCEPT ![m] = (m = "rcc_idle")]
    BY <2>1 DEF At, Write
  <2>3. Early(t)
    BY <2>2, Zenon DEF Early
  <2>4. CASE m = "rcc_idle"
    <3>1. ns'["rcc_idle"]
      BY <2>2, <2>4, Names, Zenon DEF TypeOK
    <3> QED BY <1>1, <2>2, <2>3, <3>1, Zenon DEF StartLabel
  <2>5. CASE m # "rcc_idle"
    <3>1. \A u \in Threads : Starting(u)
      BY <2>3, Zenon DEF ModesInv, StartInv
    <3>2. HasReset(t)
      BY <2>2, <2>5, Zenon DEF HasReset
    <3>3. ns["rcc_idle"]
      BY <3>1, <3>2, Zenon DEF ModesInv, IdleInv
    <3>4. ns'["rcc_idle"]
      BY <2>2, <2>5, <3>3, Names, Zenon DEF TypeOK
    <3> QED BY <1>1, <2>2, <2>3, <3>4, Zenon DEF StartLabel
  <2> QED BY <2>4, <2>5, Zenon
<1>4. ASSUME Early(t), HasReset(t), NEW l \in StartLabel, NEW m, Goto(t, l, m),
             ns'["rcc_idle"] = ns["rcc_idle"]
      PROVE  ModesInv'
  <2>1. \A u \in Threads : Starting(u)
    BY <1>4, Zenon DEF ModesInv, StartInv
  <2>2. ns["rcc_idle"]
    BY <1>4, <2>1, Zenon DEF ModesInv, IdleInv
  <2> QED BY <1>1, <1>4, <2>2, Zenon
<1>5. CASE StartTime(t)
  <2>1. /\ pc[t][1] = "start" /\ pc[t][2] = "last_packet_time"
        /\ Goto(t, "start", "first_rcc_connected") /\ ns' = ns
    BY <1>5 DEF StartTime, At, Touch
  <2>2. Early(t) /\ HasReset(t)
    BY <2>1, Zenon DEF Early, HasReset
  <2> QED BY <1>4, <2>1, <2>2, Zenon DEF StartLabel
<1>6. CASE StartConnected(t)
  <2>1. /\ pc[t][1] = "start" /\ pc[t][2] = "first_rcc_connected"
        /\ Goto(t, "started", "none")
        /\ ns' = [ns EXCEPT !["first_rcc_connected"] = FALSE]
    BY <1>6 DEF StartConnected, At, Write
  <2>2. Early(t) /\ HasReset(t)
    BY <2>1, Zenon DEF Early, HasReset
  <2>3. ns'["rcc_idle"] = ns["rcc_idle"]
    BY <2>1, Names, Zenon DEF TypeOK
  <2> QED BY <1>4, <2>1, <2>2, <2>3, Zenon DEF StartLabel
<1>7. CASE Begin(t)
  <2>1. /\ pc[t][1] = "started" /\ Goto(t, "build", "none") /\ ns' = ns
        /\ \A u \in Threads : ~Early(u)
    BY <1>7 DEF Begin, At, Read, Early
  <2>2. pc'[t][1] = "build" /\ \A u \in Threads : u # t => pc'[u] = pc[u]
    BY <2>1, PcStep, Zenon
  <2>3. \A u \in Threads : ~Early(u)'
    BY <2>1, <2>2, Zenon DEF Early
  <2>4. ~Starting(t)'
    BY <2>2, Zenon DEF Starting
  <2>5. ModeOrSwitch
    <3>1. CASE \E u \in Threads : ~Starting(u)
      BY <3>1, Zenon DEF ModesInv, ModeInv
    <3>2. CASE \A u \in Threads : Starting(u)
      <4>1. HasReset(t)
        BY <2>1, Zenon DEF HasReset
      <4>2. ns["rcc_idle"]
        BY <3>2, <4>1, Zenon DEF ModesInv, IdleInv
      <4> QED BY <4>2, Names, Zenon DEF ModeOrSwitch
    <3> QED BY <3>1, <3>2, Zenon
  <2>6. ~Switching(t)
    BY <2>1, Zenon DEF Switching
  <2>7. ModeOrSwitch'
    BY <2>1, <2>2, <2>5, <2>6, Zenon DEF ModeOrSwitch, Switching
  <2> QED BY <2>3, <2>4, <2>7, Zenon DEF ModesInv, StartInv, IdleInv, ModeInv
<1> QED BY <1>2, <1>3, <1>5, <1>6, <1>7, Zenon DEF Start

\* The invariant is preserved by every step of a thread.
LEMMA ModesForward ==
  ASSUME TypeOK, ModesInv, Staggered = FALSE, NEW t \in Threads, Forward(t)
  PROVE  ModesInv'
<1> USE Names
<1>1. CASE Start(t)
  BY <1>1, ModesStart, Zenon
<1>2. CASE Build(t)
  <2>1. CASE TestBuild(t)
    BY <2>1, CalmStep, CalmLabels, Zenon DEF TestBuild
  <2>2. CASE Built(t)
    BY <2>2, CalmStep, CalmLabels, Zenon DEF Built
  <2>3. CASE ConnectionBuilt(t)
    <3>1. /\ At(t, "built", "none")
          /\ Goto(t, "test", "continuous_reception")
          /\ \A f \in Mode : ns'[f] = ns[f]
      BY <2>3, Zenon DEF ConnectionBuilt, TypeOK
    <3>2. ~Starting(t) /\ ~Switching(t)
      BY <3>1, Calm, CalmLabels, Zenon
    <3>3. "test" \notin StartLabel
      BY Zenon DEF StartLabel
    <3> QED BY <3>1, <3>2, <3>3, KeepMode, LoopStep, Zenon
  <2> QED BY <1>2, <2>1, <2>2, <2>3, Zenon DEF Build
<1>3. CASE Receive(t)
  <2>1. ~Starting(t) /\ ~Switching(t)
    BY <1>3, Calm, CalmLabels, Zenon DEF Receive
  <2>2. CASE ns["continuous_reception"] /\ queue[t] > 0
    <3>1. Goto(t, "sending", "none") /\ ns' = ns
      BY <1>3, <2>2, Zenon DEF Receive
    <3>2. "sending" \notin StartLabel
      BY Zenon DEF StartLabel
    <3> QED BY <2>1, <3>1, <3>2, KeepMode, LoopStep, Zenon
  <2>3. CASE ~(ns["continuous_reception"] /\ queue[t] > 0)
    BY <1>3, <2>1, <2>3, Harmless, Zenon DEF Receive, StartLabel
  <2> QED BY <2>2, <2>3, Zenon
<1>4. CASE Send(t)
  BY <1>4, CalmStep, CalmLabels, Zenon DEF Send
<1>5. CASE Rest(t)
  <2>1. CASE TestMode(t)
    BY <2>1, CalmStep, CalmLabels, Zenon DEF TestMode
  <2>2. CASE Wait(t)
    BY <2>2, CalmStep, CalmLabels, Zenon DEF Wait
  <2>3. CASE ActiveEnds(t)
    BY <2>3, CalmStep, CalmLabels, Zenon DEF ActiveEnds
  <2> QED BY <1>5, <2>1, <2>2, <2>3, Zenon DEF Rest
<1>6. CASE WakeUp(t)
  <2>1. CASE Active(t)
    BY <2>1, CalmStep, CalmLabels, Zenon DEF Active
  <2>2. CASE Wake(t)
    <3>1. PICK m \in Sleep : At(t, "wake", m) /\ Goto(t, "connect", m)
      BY <2>2, Zenon DEF Wake, Write
    <3>2. ~Starting(t)
      BY <3>1, Calm, CalmLabels, Zenon
    <3>3. "connect" \notin StartLabel
      BY Zenon DEF StartLabel
    <3> QED BY <3>1, <3>2, <3>3, ClearMode, LoopStep, Zenon
  <2>3. CASE Connect(t)
    <3>1. PICK m \in Sleep, l \in {"announce", "touch"} :
            /\ At(t, "connect", m)
            /\ Goto(t, l, m)
            /\ ns' = [ns EXCEPT !["continuous_reception"] = TRUE]
      BY <2>3, Zenon DEF Connect, Write
    <3>2. ~Starting(t)
      BY <3>1, Switcher, Zenon
    <3>3. l \notin StartLabel
      BY Zenon DEF StartLabel
    <3>4. ModeOrSwitch'
      BY <3>1, SetMode, Zenon
    <3> QED BY <3>1, <3>2, <3>3, <3>4, LoopStep, Zenon
  <2>4. CASE Announce(t)
    BY <2>4, CalmStep, CalmLabels, Zenon DEF Announce
  <2>5. CASE Woken(t)
    BY <2>5, CalmStep, CalmLabels, Zenon DEF Woken
  <2> QED BY <1>6, <2>1, <2>2, <2>3, <2>4, <2>5, Zenon DEF WakeUp
<1>7. CASE TimeOut(t)
  <2>1. CASE Timer(t)
    BY <2>1, CalmStep, CalmLabels, Zenon DEF Timer
  <2>2. CASE Drop(t)
    <3>1. PICK m \in DOMAIN Lower : At(t, "drop", m) /\ Goto(t, "raise", Lower[m])
      BY <2>2, Zenon DEF Drop, Write
    <3>2. ~Starting(t)
      BY <3>1, Calm, CalmLabels, Zenon
    <3>3. "raise" \notin StartLabel
      BY Zenon DEF StartLabel
    <3> QED BY <3>1, <3>2, <3>3, ClearMode, LoopStep, Zenon
  <2>3. CASE Raise(t)
    <3>1. PICK m \in Sleep : /\ At(t, "raise", m)
                             /\ Goto(t, "test", m)
                             /\ ns' = [ns EXCEPT ![m] = TRUE]
      BY <2>3, Zenon DEF Raise, Write
    <3>2. ~Starting(t)
      BY <3>1, Switcher, Zenon
    <3>3. "test" \notin StartLabel
      BY Zenon DEF StartLabel
    <3>4. ModeOrSwitch'
      BY <3>1, SetMode, Zenon
    <3> QED BY <3>1, <3>2, <3>3, <3>4, LoopStep, Zenon
  <2> QED BY <1>7, <2>1, <2>2, <2>3, Zenon DEF TimeOut
<1>8. CASE Return(t)
  <2>1. \E l \in CalmLabel, m \in Field : At(t, l, m)
    BY <1>8, CalmLabels, Zenon DEF Return, Spinning
  <2> QED BY <1>8, <2>1, CalmStep, CalmLabels, Zenon DEF Return
<1> QED BY <1>1, <1>2, <1>3, <1>4, <1>5, <1>6, <1>7, <1>8, Zenon DEF Forward

\* The invariant is preserved by every step.
LEMMA ModesNext ==
  ASSUME Staggered = FALSE
  PROVE  TypeOK /\ ModesInv /\ [Next]_vars => ModesInv'
<1> SUFFICES ASSUME TypeOK, ModesInv, [Next]_vars PROVE ModesInv'
  BY Zenon
<1>1. CASE \E t \in Threads : Forward(t)
  BY <1>1, ModesForward, Zenon
<1>2. CASE UNCHANGED <<pc, ns>>
  BY <1>2, Zenon DEF ModesInv, StartInv, IdleInv, ModeInv, ModeOrSwitch, Starting,
      Switching, Early, HasReset
<1>3. ~(\E t \in Threads : Forward(t)) => UNCHANGED <<pc, ns>>
  BY Zenon DEF Next, Arrive, Tick, Stop, vars
<1> QED BY <1>1, <1>2, <1>3, Zenon

\* Where all threads have reset the shared fields before the first of them
\* takes up its loop, the mode is never lost: a mode is set, or a thread is
\* between the two writes of a mode change.
THEOREM ModeNeverLost ==
  ASSUME Staggered = FALSE
  PROVE  Spec => []SomeMode
<1>1. ModesInv => SomeMode
  BY Bounds, Zenon DEF ModesInv, ModeInv, ModeOrSwitch, SomeMode
<1>2. TypeOK /\ ModesInv /\ [Next]_vars => ModesInv'
  BY ModesNext, Zenon
<1> QED BY <1>1, <1>2, ModesInit, TypeInit, TypeNext, PTL DEF Spec
-----------------------------------------------------------------------------
(* Continuous reception is entered only for a packet.                       *)

WakeLabel == {"wake", "connect"}

\* A thread that is waking up has a packet, and only it could take it away.
WakeInv == \A t \in Threads : pc[t][1] \in WakeLabel => queue[t] > 0

\* What the theorem says of a step.
WakeStep == ~ns["continuous_reception"] /\ ns'["continuous_reception"] =>
                \E t \in Threads : queue[t] > 0

\* No thread is about to wake up at the start.
LEMMA WakeInit == Init => WakeInv
<1> SUFFICES ASSUME Init PROVE WakeInv
  BY Zenon
<1>1. \A u \in Threads : pc[u][1] = "launch"
  BY Zenon DEF Init
<1> QED BY <1>1, Zenon DEF WakeInv, WakeLabel

\* A step that does not make its thread wake up, and leaves the packets.
LEMMA AsleepStep ==
  ASSUME TypeOK, WakeInv, NEW t \in Threads, NEW l, l \notin WakeLabel, NEW m,
         Goto(t, l, m), \A u \in Threads : u # t => queue'[u] = queue[u]
  PROVE  WakeInv'
<1>1. pc'[t][1] = l /\ \A u \in Threads : u # t => pc'[u] = pc[u]
  BY PcStep, Zenon
<1> QED BY <1>1, Zenon DEF WakeInv

\* The same for the steps that make up the actions.
LEMMA AsleepSteps ==
  ASSUME TypeOK, WakeInv, NEW t \in Threads, NEW l, l \notin WakeLabel, NEW m
  PROVE  /\ \A s \in BOOLEAN : Read(t, s, l, m) => WakeInv' /\ WakeStep
         /\ \A s \in BOOLEAN : Touch(t, s, l, m) => WakeInv' /\ WakeStep
         /\ NextPass(t) => WakeInv' /\ WakeStep
         /\ \A f \in Flag : Write(t, f, FALSE, l, m) => WakeInv' /\ WakeStep
         /\ \A f \in Flag \ {"continuous_reception"}, v \in BOOLEAN :
                Write(t, f, v, l, m) => WakeInv' /\ WakeStep
<1>1. ASSUME NEW s \in BOOLEAN, Read(t, s, l, m) \/ Touch(t, s, l, m)
      PROVE  WakeInv' /\ WakeStep
  <2>1. Goto(t, l, m) /\ ns' = ns /\ queue' = queue
    BY <1>1, Zenon DEF Read, Touch
  <2> QED BY <2>1, AsleepStep, Zenon DEF WakeStep
<1>2. ASSUME NextPass(t) PROVE WakeInv' /\ WakeStep
  <2>1. Goto(t, "build", "none") /\ ns' = ns /\ queue' = queue
    BY <1>2, Zenon DEF NextPass
  <2>2. "build" \notin WakeLabel
    BY Zenon DEF WakeLabel
  <2> QED BY <2>1, <2>2, AsleepStep, Zenon DEF WakeStep
<1>3. ASSUME NEW f \in Flag, Write(t, f, FALSE, l, m)
      PROVE  WakeInv' /\ WakeStep
  <2>1. Goto(t, l, m) /\ queue' = queue /\ ns' = [ns EXCEPT ![f] = FALSE]
    BY <1>3, Zenon DEF Write
  <2>2. WakeStep
    BY <2>1, Names, Zenon DEF WakeStep, TypeOK
  <2> QED BY <2>1, <2>2, AsleepStep, Zenon
<1>4. ASSUME NEW f \in Flag \ {"continuous_reception"}, NEW v \in BOOLEAN,
             Write(t, f, v, l, m)
      PROVE  WakeInv' /\ WakeStep
  <2>1. Goto(t, l, m) /\ queue' = queue /\ ns' = [ns EXCEPT ![f] = v]
    BY <1>4, Zenon DEF Write
  <2>2. ns'["continuous_reception"] = ns["continuous_reception"]
    BY <2>1, Names, Zenon DEF TypeOK
  <2> QED BY <2>1, <2>2, AsleepStep, Zenon DEF WakeStep
<1> QED BY <1>1, <1>2, <1>3, <1>4, Zenon

\* The labels that are not on the way to continuous reception.
LEMMA AsleepLabels ==
  /\ "start" \notin WakeLabel /\ "started" \notin WakeLabel
  /\ "raise" \notin WakeLabel
  /\ \A l \in CalmLabel \ {"wake"} : l \notin WakeLabel
  /\ {"build", "building", "built", "test", "sending", "wait", "active",
      "announce", "touch", "timer", "drop", "done"} \subseteq CalmLabel \ {"wake"}
  BY Zenon DEF CalmLabel, Label, StartLabel, WakeLabel

\* Every step of a thread preserves WakeInv and satisfies WakeStep.
LEMMA WakeForward ==
  ASSUME TypeOK, WakeInv, NEW t \in Threads, Forward(t)
  PROVE  WakeInv' /\ WakeStep
<1> USE Names, AsleepLabels
<1>1. CASE Start(t)
  <2>1. CASE StartMode(t)
    <3>1. PICK m \in Mode : Write(t, m, m = "rcc_idle", "start", StartNext[m])
      BY <2>1, Zenon DEF StartMode
    <3>2. CASE m = "continuous_reception"
      <4>1. Write(t, m, FALSE, "start", StartNext[m])
        BY <3>1, <3>2, Zenon
      <4> QED BY <4>1, AsleepSteps, Zenon
    <3>3. CASE m # "continuous_reception"
      BY <3>1, <3>3, AsleepSteps, Zenon
    <3> QED BY <3>2, <3>3, Zenon
  <2>2. CASE Launch(t) \/ StartTime(t)
    BY <2>2, AsleepSteps, Zenon DEF Launch, StartTime
  <2>3. CASE StartConnected(t)
    BY <2>3, AsleepSteps, Zenon DEF StartConnected
  <2>4. CASE Begin(t)
    BY <2>4, AsleepSteps, Zenon DEF Begin
  <2> QED BY <1>1, <2>1, <2>2, <2>3, <2>4, Zenon DEF Start
<1>2. CASE Build(t)
  <2>1. CASE TestBuild(t)
    BY <2>1, AsleepSteps, Zenon DEF TestBuild
  <2>2. CASE Built(t)
    BY <2>2, AsleepSteps, Zenon DEF Built
  <2>3. CASE ConnectionBuilt(t)
    <3>1. /\ Goto(t, "test", "continuous_reception") /\ queue' = queue
          /\ ns' = [ns EXCEPT !["first_rcc_connected"] = FALSE]
      BY <2>3, Zenon DEF ConnectionBuilt
    <3>2. ns'["continuous_reception"] = ns["continuous_reception"]
      BY <3>1, Zenon DEF TypeOK
    <3>3. WakeInv'
      BY <3>1, AsleepStep, Zenon
    <3> QED BY <3>2, <3>3, Zenon DEF WakeStep
  <2> QED BY <1>2, <2>1, <2>2, <2>3, Zenon DEF Build
<1>3. CASE Receive(t)
  <2>1. CASE ns["continuous_reception"] /\ queue[t] > 0
    <3>1. /\ Goto(t, "sending", "none") /\ ns' = ns
          /\ queue' = [queue EXCEPT ![t] = @ - 1]
      BY <1>3, <2>1, Zenon DEF Receive
    <3>2. \A u \in Threads : u # t => queue'[u] = queue[u]
      BY <3>1, Zenon DEF TypeOK
    <3>3. WakeInv'
      BY <3>1, <3>2, AsleepStep, Zenon
    <3> QED BY <3>1, <3>3, Zenon DEF WakeStep
  <2>2. CASE ~(ns["continuous_reception"] /\ queue[t] > 0)
    BY <1>3, <2>2, AsleepSteps, Zenon DEF Receive
  <2> QED BY <2>1, <2>2, Zenon
<1>4. CASE Send(t)
  BY <1>4, AsleepSteps, Zenon DEF Send
<1>5. CASE Rest(t)
  BY <1>5, AsleepSteps, Zenon DEF Rest, TestMode, Wait, ActiveEnds
<1>6. CASE WakeUp(t)
  <2>1. CASE Active(t) \/ Wake(t)
    <3>1. queue[t] > 0
      <4>1. CASE Active(t)
        BY <4>1, Zenon DEF Active
      <4>2. CASE Wake(t)
        BY <4>2 DEF Wake, At, WakeInv, WakeLabel
      <4> QED BY <2>1, <4>1, <4>2, Zenon
    <3>2. PICK l, m : Goto(t, l, m) /\ queue' = queue
      BY <2>1, Zenon DEF Active, Wake, Read, Write
    <3>3. \A u \in Threads : u # t => pc'[u] = pc[u]
      BY <3>2, PcStep, Zenon
    <3> QED BY <3>1, <3>2, <3>3, Zenon DEF WakeInv, WakeStep
  <2>2. CASE Connect(t)
    <3>1. PICK m \in Sleep, l \in {"announce", "touch"} :
            At(t, "connect", m) /\ Goto(t, l, m) /\ queue' = queue
      BY <2>2, Zenon DEF Connect, Write
    <3>2. queue[t] > 0
      BY <3>1 DEF At, WakeInv, WakeLabel
    <3>3. WakeInv'
      BY <3>1, AsleepStep, Zenon
    <3> QED BY <3>2, <3>3, Zenon DEF WakeStep
  <2>3. CASE Announce(t)
    BY <2>3, AsleepSteps, Zenon DEF Announce
  <2>4. CASE Woken(t)
    BY <2>4, AsleepSteps, Zenon DEF Woken
  <2> QED BY <1>6, <2>1, <2>2, <2>3, <2>4, Zenon DEF WakeUp
<1>7. CASE TimeOut(t)
  <2>1. CASE Timer(t)
    BY <2>1, AsleepSteps, Zenon DEF Timer
  <2>2. CASE Drop(t)
    BY <2>2, AsleepSteps, Zenon DEF Drop
  <2>3. CASE Raise(t)
    <3>1. PICK m \in Sleep : Write(t, m, TRUE, "test", m)
      BY <2>3, Zenon DEF Raise
    <3>2. m \in Flag \ {"continuous_reception"}
      BY Zenon
    <3> QED BY <3>1, <3>2, AsleepSteps, Zenon
  <2> QED BY <1>7, <2>1, <2>2, <2>3, Zenon DEF TimeOut
<1>8. CASE Return(t)
  BY <1>8, AsleepSteps, Zenon DEF Return
<1> QED BY <1>1, <1>2, <1>3, <1>4, <1>5, <1>6, <1>7, <1>8, Zenon DEF Forward

\* Every step preserves WakeInv and satisfies WakeStep.
LEMMA WakeNext == TypeOK /\ WakeInv /\ [Next]_vars => WakeInv' /\ WakeStep
<1> SUFFICES ASSUME TypeOK, WakeInv, [Next]_vars PROVE WakeInv' /\ WakeStep
  BY Zenon
<1>1. CASE \E t \in Threads : Forward(t)
  BY <1>1, WakeForward, Zenon
<1>2. CASE \E t \in Threads : Arrive(t)
  <2>1. PICK t \in Threads : Arrive(t)
    BY <1>2, Zenon
  <2>2. queue[t] \in 0..MaxQueue /\ pc' = pc /\ ns' = ns
    BY <2>1, Zenon DEF Arrive, TypeOK
  <2>3. /\ queue'[t] = queue[t] + 1
        /\ \A u \in Threads : u # t => queue'[u] = queue[u]
    BY <2>1, Zenon DEF Arrive, TypeOK
  <2>4. \A u \in Threads : queue[u] > 0 => queue'[u] > 0
    BY <2>2, <2>3
  <2> QED BY <2>2, <2>4, Zenon DEF WakeInv, WakeStep
<1>3. CASE UNCHANGED <<pc, queue, ns>>
  BY <1>3, Zenon DEF WakeInv, WakeStep
<1>4. CASE Tick \/ Stop \/ UNCHANGED vars
  BY <1>3, <1>4, Zenon DEF Tick, Stop, vars
<1> QED BY <1>1, <1>2, <1>4, Zenon DEF Next

\* Continuous reception begins only when a packet is waiting: the thread that
\* begins it saw the packet in its own ring, and nobody else can have taken it.
THEOREM WakeOnlyForPacket == Spec => WokenByPacket
<1>1. TypeOK /\ WakeInv /\ [Next]_vars =>
        [~ns["continuous_reception"] /\ ns'["continuous_reception"] =>
            \E t \in Threads : queue[t] > 0]_vars
  BY WakeNext, Zenon DEF WakeStep
<1> QED BY <1>1, WakeInit, WakeNext, TypeInit, TypeNext, PTL DEF Spec, WokenByPacket
=============================================================================

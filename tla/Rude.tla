-------------------------------- MODULE Rude --------------------------------
(***************************************************************************)
(* rude, the UDP traffic generator (src/rude/rude): it reads its options   *)
(* and the flows from a configuration file into linked lists of blocks,    *)
(* opens a socket for each flow, raises its priority if asked to, then     *)
(* always sends the packet whose turn is next, until no block is left.  A  *)
(* signal runs the clean-up at whatever point the program has reached.     *)
(*                                                                         *)
(* The lists are modelled with their pointers.  The clock is abstract and  *)
(* may advance at any time, so the host may be arbitrarily slow.           *)
(***************************************************************************)
EXTENDS StartTime, Sequences, Functions

CONSTANTS
    FlowIds,     \* identifiers of flows
    Blocks,      \* addresses of flow_cfg structures
    NULL,
    user_id, priority,             \* of the process, 0 for root; of -P, 0 without it
    OnTimes, ModTimes, OffTimes,   \* time fields of the commands
    Starts,      \* arguments of START
    localtime,   \* the time of day at which the configuration is read
    CbrTraffic,  \* constant rates: [ftype, waits, sizes], the time to wait after
                 \* each packet and its size; no waits for a rate of zero
    TraceFiles,  \* the contents of trace files
    Base, Digits,                  \* a second has Base^Digits ticks, 10^6 in the code
    PMINSIZE, PMAXSIZE,
    MaxLines,    \* bound on the ON, MODIFY and OFF lines of the configuration
    MaxFaults,   \* bound on the signals and the system calls that fail
    MaxTime      \* bound on the clock, counted from the START time

ASSUME RudeAssumption ==
    /\ NULL \notin Blocks \cup FlowIds
    /\ {user_id, priority} \subseteq Nat
    /\ OnTimes \cup ModTimes \cup OffTimes \subseteq Nat
    /\ localtime \in Times
    /\ \A t \in Starts : {t.hour, t.min, t.sec} \subseteq Int
    /\ \A t \in CbrTraffic :
          t.ftype = "CBR" /\ t.waits \in Seq(Nat) /\ t.sizes \in Seq(PMINSIZE .. PMAXSIZE)
    /\ {Base, Digits, Base ^ Digits} \subseteq Nat \ {0}
    /\ \A f \in TraceFiles :
          /\ f.terminated \in BOOLEAN
          /\ f.lines \in Seq([psize : Nat, sec : Int, fraction : Seq(0 .. Base - 1)])
          /\ \A i \in 1 .. Len(f.lines) : Len(f.lines[i].fraction) <= Digits
    /\ {MaxLines, MaxFaults, MaxTime} \subseteq Nat

VARIABLES
    pc,
    mem,             \* the flow_cfg structures
    head, done,      \* the two lists
    start_set, errors, commands, lines,     \* of read_cfg
    tester_start, max_packet_size,
    flow, prev, target, checked,  \* locals of find_next; checked is its "now"
    tmp1,            \* local of clean_up
    open,            \* flows whose socket is open
    buffer,          \* is the packet buffer allocated?
    now,             \* the clock
    sched,           \* the scheduling policy of the process
    failures, signals,            \* system calls failed, signals so far
    sent,            \* packets sent so far, for each flow
    closes, frees    \* how often a socket or a block (or the buffer) was released

lists == <<mem, head, done>>
parser == <<start_set, errors, commands, lines, tester_start, max_packet_size>>
locals == <<flow, prev, target, checked, tmp1>>
system == <<open, buffer, sched, closes, frees>>
vars == <<pc, lists, parser, locals, system, now, failures, signals, sent>>

\* A flow_cfg structure filled with zeros.
Zero == [next |-> NULL, mod_flow |-> NULL, flow_id |-> NULL, flow_start |-> 0,
         flow_stop |-> 0, next_tx |-> 0, traffic |-> NULL, list_index |-> 1,
         send_sock |-> FALSE, sequence_nmbr |-> 0, errors |-> 0, success |-> 0]

Unused == {b \in Blocks : mem[b] = Zero /\ frees[b] = 0}

Init ==
    /\ pc = "options"
    /\ mem = [b \in Blocks |-> Zero]
    /\ head = NULL /\ done = NULL
    /\ start_set = FALSE /\ errors = FALSE /\ commands = FALSE /\ lines = 0
    /\ tester_start = 0 /\ max_packet_size = 0
    /\ flow = NULL /\ prev = NULL /\ target = NULL /\ checked = 0 /\ tmp1 = NULL
    /\ open = {} /\ buffer = FALSE /\ sched = "SCHED_OTHER"
    /\ now = 1
    /\ failures = 0 /\ signals = 0
    /\ sent = [f \in FlowIds |-> 0]
    /\ closes = [f \in FlowIds |-> 0]
    /\ frees = [b \in Blocks \cup {NULL} |-> 0]
-----------------------------------------------------------------------------
(* Walking along the lists *)

\* The set has p and, with every block, the one it is linked to.
Leads(p, link, A) ==
    /\ p # NULL => p \in A
    /\ \A b \in A : link[b] # NULL => link[b] \in A

\* The blocks that a walk from p along the links meets.
Walk(p, link) == {b \in Blocks : \A A \in SUBSET Blocks : Leads(p, link, A) => b \in A}

Next_ == [b \in Blocks |-> mem[b].next]
ModFlow == [b \in Blocks |-> mem[b].mod_flow]

\* The first blocks of the flows; all blocks of the active list; the done list.
Entries == Walk(head, Next_)
BlocksOf(b) == Walk(b, ModFlow)
Active == UNION {BlocksOf(b) : b \in Entries}
Done == Walk(done, Next_)

\* The last block of the flow that starts with b; find_flow_id; the last entry.
LastBlock(b) == CHOOSE l \in BlocksOf(b) : mem[l].mod_flow = NULL
Found(id) == {b \in Entries : mem[b].flow_id = id}
LastEntry == CHOOSE b \in Entries : mem[b].next = NULL
-----------------------------------------------------------------------------
(* main: options *)

\* Only root may ask for a priority, between 1 and 90.
PriorityAllowed == priority = 0 \/ (priority \in 1 .. 90 /\ user_id = 0)

\* The program goes on with a script it can open and no wrong option; -h, -v and
\* everything else end it.
ReadOptions ==
    /\ pc = "options"
    /\ \E script \in {"none", "missing", "opened"}, other \in BOOLEAN :
          pc' = IF script = "opened" /\ ~other /\ PriorityAllowed THEN "parse" ELSE "gone"
    /\ UNCHANGED <<lists, parser, locals, system, now, failures, signals, sent>>
-----------------------------------------------------------------------------
(* read_cfg *)

\* A line of the configuration is read; n is 1 for a line that may add a block
\* or stop one, of which there are MaxLines at most.
Line(n) ==
    /\ pc = "parse" /\ lines + n <= MaxLines
    /\ lines' = lines + n
    /\ UNCHANGED <<pc, done, max_packet_size, locals, system, now, failures, signals, sent>>

\* A line that changes nothing but the count of commands or of errors.
Count(isCommand, isError) ==
    /\ commands' = (commands \/ isCommand)
    /\ errors' = (errors \/ isError)

Comment == Line(0) /\ Count(TRUE, FALSE) /\ UNCHANGED <<mem, head, start_set, tester_start>>

\* A line that cannot be parsed, a command for a flow that does not exist, an
\* ON command for one that does, a second START, a command before it.
Invalid == Line(0) /\ Count(FALSE, TRUE) /\ UNCHANGED <<mem, head, start_set, tester_start>>

\* A TOS line for a flow: it counts neither as a command nor as an error.
Tos ==
    /\ Line(0)
    /\ start_set /\ Entries # {}
    /\ Count(FALSE, FALSE)
    /\ UNCHANGED <<mem, head, start_set, tester_start>>

Second == Base ^ Digits

\* START NOW.
start_now ==
    /\ Line(0)
    /\ ~start_set
    /\ start_set' = TRUE
    /\ tester_start' = now
    /\ Count(TRUE, FALSE)
    /\ UNCHANGED <<mem, head>>

\* START at a time of day; one that is out of range is an error.
start_time(t) ==
    /\ Line(0)
    /\ ~start_set
    /\ start_set' = (t \in Times)
    /\ tester_start' = IF t \in Times THEN now + Second * Until(t, localtime) ELSE tester_start
    /\ Count(t \in Times, t \notin Times)
    /\ UNCHANGED <<mem, head>>

\* trace_parse: the lines counted, without one that has no end; the lines that
\* are right; the fraction of a second, filled up with zeros on the right.
Counted(f) == IF f.terminated THEN Len(f.lines) ELSE Len(f.lines) - 1
LineRight(l) == l.psize \in PMINSIZE .. PMAXSIZE /\ l.sec >= 0
Ticks(fraction) ==
    LET value[i \in 0 .. Digits] ==
            IF i = 0 THEN 0
            ELSE Base * value[i - 1] + (IF i <= Len(fraction) THEN fraction[i] ELSE 0)
    IN  value[Digits]

\* One wrong line spoils the file, and the list is empty then.
trace_parse(f) ==
    LET n == Counted(f)
        used == IF \A i \in 1 .. n : LineRight(f.lines[i]) THEN n ELSE 0
    IN  [ftype |-> "TRACE",
         waits |-> [i \in 1 .. used |-> Second * f.lines[i].sec + Ticks(f.lines[i].fraction)],
         sizes |-> [i \in 1 .. used |-> f.lines[i].psize]]

\* What an ON line may ask for; a trace without packets is an error.
Traffic == CbrTraffic \cup {tr \in {trace_parse(f) : f \in TraceFiles} : tr.waits # <<>>}

\* A structure filled in for a block that begins at time t.
NewBlock(id, t, tr) ==
    [Zero EXCEPT !.flow_id = id, !.flow_start = tester_start + t,
                 !.next_tx = tester_start + t, !.traffic = tr]

flow_on(id, t, tr, new) ==
    /\ Line(1)
    /\ start_set /\ Found(id) = {}
    /\ IF head = NULL
       THEN /\ head' = new
            /\ mem' = [mem EXCEPT ![new] = NewBlock(id, t, tr)]
       ELSE /\ head' = head
            /\ mem' = [mem EXCEPT ![new] = NewBlock(id, t, tr), ![LastEntry].next = new]
    /\ Count(TRUE, FALSE)
    /\ UNCHANGED <<start_set, tester_start>>

\* Mutant: the stop time is not compared with the start time.
StopTime_Unchecked(b, t) == tester_start + t

\* The stop time given to block b by a command for time t.
StopTime(b, t) ==
    IF tester_start + t < mem[b].flow_start THEN mem[b].flow_start ELSE tester_start + t

\* May block b be stopped at time t?
CanStop(b, t) == mem[b].flow_stop = 0 /\ StopTime(b, t) = tester_start + t

\* What flow_off does to a block: nothing if the stop time is already set.
Stopped(b, t) ==
    IF mem[b].flow_stop = 0 THEN [mem EXCEPT ![b].flow_stop = StopTime(b, t)] ELSE mem

flow_off(b, t) ==
    /\ Line(1)
    /\ start_set
    /\ LET last == LastBlock(b)
       IN  /\ mem' = Stopped(last, t)
           /\ Count(CanStop(last, t), ~CanStop(last, t))
    /\ UNCHANGED <<head, start_set, tester_start>>

\* The last block is stopped and followed by another one, which must be CBR; an
\* error found later leaves the stop time set.
flow_modify(b, t, tr, new) ==
    /\ Line(1)
    /\ start_set
    /\ LET last == LastBlock(b)
           ok == CanStop(last, t) /\ tr.ftype = "CBR"
       IN  /\ mem' = IF ok
                     THEN [Stopped(last, t) EXCEPT
                              ![new] = NewBlock(mem[b].flow_id, t, tr),
                              ![last].mod_flow = new]
                     ELSE Stopped(last, t)
           /\ Count(ok, ~ok)
    /\ UNCHANGED <<head, start_set, tester_start>>

\* The blocks whose packet size counts for the buffer.
Sized == Active

Largest(sizes) == CHOOSE m \in sizes \cup {0} : \A n \in sizes : n <= m

\* The file has been read: every block must have a stop time, a block with a
\* rate of zero is given a transmission time after it.
EndOfFile ==
    LET silent == {b \in Active : mem[b].traffic.waits = <<>>}
        wrong == errors \/ \E b \in Active : mem[b].flow_stop = 0
    IN  /\ pc = "parse"
        /\ mem' = [b \in Blocks |-> IF b \in silent
                                    THEN [mem[b] EXCEPT !.next_tx = mem[b].flow_stop + Second]
                                    ELSE mem[b]]
        /\ max_packet_size' = Largest(UNION {Range(mem[b].traffic.sizes) : b \in Sized})
        /\ errors' = wrong
        /\ pc' = IF wrong \/ ~commands THEN "cu_close" ELSE "init"
        /\ UNCHANGED <<head, done, start_set, commands, lines, tester_start, locals,
                       system, now, failures, signals, sent>>

\* Identifiers are only compared, so it does not matter which new one is used.
NewIds == {id \in FlowIds : Found(id) = {}}

Parse ==
    \/ Comment \/ Invalid \/ Tos \/ EndOfFile
    \/ start_now \/ \E t \in Starts : start_time(t)
    \/ \E t \in OnTimes, tr \in Traffic :
          /\ Unused # {} /\ NewIds # {}
          /\ flow_on(CHOOSE id \in NewIds : TRUE, t, tr, CHOOSE b \in Unused : TRUE)
    \/ \E b \in Entries, t \in OffTimes : flow_off(b, t)
    \/ \E b \in Entries, t \in ModTimes, tr \in Traffic :
          Unused # {} /\ flow_modify(b, t, tr, CHOOSE c \in Unused : TRUE)
-----------------------------------------------------------------------------
(* init_rude *)

\* A system call fails.
Fail == failures + signals < MaxFaults /\ failures' = failures + 1

\* The packet buffer is allocated; open_sockets begins with the first flow.
init_rude ==
    /\ pc = "init"
    /\ \/ /\ max_packet_size > 0
          /\ buffer' = TRUE /\ flow' = head /\ pc' = "socket"
          /\ UNCHANGED failures
       \/ /\ max_packet_size = 0
          /\ pc' = "cu_close"
          /\ UNCHANGED <<buffer, flow, failures>>
       \/ /\ max_packet_size > 0
          /\ Fail /\ pc' = "cu_close"
          /\ UNCHANGED <<buffer, flow>>
    /\ UNCHANGED <<lists, parser, prev, target, checked, tmp1, open, sched, closes, frees,
                   now, signals, sent>>

\* The socket of a flow is opened.  socket() or bind() may fail, and then the
\* flow has none; fcntl() may fail, and then it has one.
open_sockets ==
    /\ pc = "socket" /\ flow # NULL
    /\ \/ /\ mem' = [mem EXCEPT ![flow].send_sock = TRUE]
          /\ open' = open \cup {mem[flow].flow_id}
          /\ Fail \/ UNCHANGED failures
       \/ /\ Fail
          /\ UNCHANGED <<mem, open>>
    /\ flow' = mem[flow].next
    /\ UNCHANGED <<pc, head, done, parser, prev, target, checked, tmp1, buffer, sched, closes,
                   frees, now, signals, sent>>

\* All sockets tried: any failure ends the program.
SocketsTried ==
    /\ pc = "socket" /\ flow = NULL
    /\ pc' = IF failures > 0 THEN "cu_close" ELSE "start"
    /\ UNCHANGED <<lists, parser, locals, system, now, failures, signals, sent>>

\* init_rude sleeps until the START time.
StartLoop ==
    /\ pc = "start" /\ now >= tester_start
    /\ pc' = "priority"
    /\ UNCHANGED <<lists, parser, locals, system, now, failures, signals, sent>>

\* main: root may have asked for a real-time priority.
RaisePriority ==
    /\ pc = "priority"
    /\ \/ /\ sched' = IF user_id = 0 /\ priority > 0 THEN "SCHED_RR" ELSE sched
          /\ pc' = "run" /\ UNCHANGED failures
       \/ /\ user_id = 0 /\ priority > 0
          /\ Fail /\ pc' = "restore" /\ UNCHANGED sched
    /\ UNCHANGED <<lists, parser, locals, open, buffer, closes, frees, now, signals, sent>>

\* rude_exit: it is taken back, which may fail, before clean_up.
RestorePriority ==
    /\ pc = "restore"
    /\ \/ sched' = "SCHED_OTHER" /\ UNCHANGED failures
       \/ user_id = 0 /\ priority > 0 /\ Fail /\ UNCHANGED sched
    /\ pc' = "cu_close"
    /\ UNCHANGED <<lists, parser, locals, open, buffer, closes, frees, now, signals, sent>>
-----------------------------------------------------------------------------
(* find_next and remove_flow *)

\* find_next reads the clock, once, and begins with the first flow.
find_next ==
    /\ pc = "run"
    /\ flow' = head /\ prev' = NULL /\ target' = NULL /\ checked' = now
    /\ pc' = "scan"
    /\ UNCHANGED <<lists, parser, tmp1, system, now, failures, signals, sent>>

\* Is block b over?
Expired(b) == mem[b].flow_stop < checked \/ mem[b].next_tx > mem[b].flow_stop

\* Mutant: the last of several flows with the same transmission time, or with
\* a later one, is taken.
Sooner_Last(b) == target = NULL \/ mem[b].next_tx >= mem[target].next_tx

\* Has block b an earlier turn than the flows met so far?
Sooner(b) == target = NULL \/ mem[b].next_tx < mem[target].next_tx

\* A flow that is not over is passed.
ScanFlow ==
    /\ pc = "scan" /\ flow # NULL /\ ~Expired(flow)
    /\ target' = IF Sooner(flow) THEN flow ELSE target
    /\ prev' = flow
    /\ flow' = mem[flow].next
    /\ UNCHANGED <<pc, lists, parser, checked, tmp1, system, now, failures, signals, sent>>

\* A block that is over is removed.
ScanExpired ==
    /\ pc = "scan" /\ flow # NULL /\ Expired(flow)
    /\ pc' = "rm_init"
    /\ UNCHANGED <<lists, parser, locals, system, now, failures, signals, sent>>

\* The socket of block b, if it has one, is closed.
Close(b) ==
    IF mem[b].send_sock
    THEN /\ open' = open \ {mem[b].flow_id}
         /\ closes' = [closes EXCEPT ![mem[b].flow_id] = @ + 1]
    ELSE UNCHANGED <<open, closes>>

\* Mutant: the next block of the flow does not inherit the sequence number.
Inherit_NoSequence(to_remove, new) ==
    [mem EXCEPT ![new].next = mem[to_remove].next,
                ![new].send_sock = mem[to_remove].send_sock]

\* The next block of a flow takes over place, socket and sequence number.
Inherit(to_remove, new) ==
    [mem EXCEPT ![new].next = mem[to_remove].next,
                ![new].send_sock = mem[to_remove].send_sock,
                ![new].sequence_nmbr = mem[to_remove].sequence_nmbr]

\* remove_flow, first part: the flow goes on with its next block or its socket
\* is closed.
InitNextBlock ==
    /\ pc = "rm_init"
    /\ IF mem[flow].mod_flow # NULL
       THEN /\ mem' = Inherit(flow, mem[flow].mod_flow)
            /\ pc' = "rm_unlink"
            /\ UNCHANGED <<open, closes>>
       ELSE /\ Close(flow)
            /\ pc' = "rm_zero"
            /\ UNCHANGED mem
    /\ UNCHANGED <<head, done, parser, locals, buffer, sched, frees, now, failures, signals,
                   sent>>

ClearSocket ==
    /\ pc = "rm_zero"
    /\ mem' = [mem EXCEPT ![flow].send_sock = FALSE]
    /\ pc' = "rm_unlink"
    /\ UNCHANGED <<head, done, parser, locals, system, now, failures, signals, sent>>

\* What takes the place of a removed block in the active list.
Successor(b) == IF mem[b].mod_flow # NULL THEN mem[b].mod_flow ELSE mem[b].next

\* remove_flow, second part: the block leaves the active list.
Unlink ==
    /\ pc = "rm_unlink"
    /\ IF head = flow
       THEN head' = Successor(flow) /\ UNCHANGED mem
       ELSE LET before == CHOOSE p \in Entries : mem[p].next = flow
            IN  /\ mem' = [mem EXCEPT ![before].next = Successor(flow)]
                /\ UNCHANGED head
    /\ pc' = "rm_link"
    /\ UNCHANGED <<done, parser, locals, system, now, failures, signals, sent>>

\* remove_flow, third part: it is linked to the done list, and find_next goes on
\* with what follows.
LinkToDone ==
    /\ pc = "rm_link"
    /\ mem' = [mem EXCEPT ![flow].next = done]
    /\ done' = flow
    /\ flow' = IF prev # NULL THEN mem[prev].next ELSE head
    /\ pc' = "scan"
    /\ UNCHANGED <<head, parser, prev, target, checked, tmp1, system, now, failures,
                   signals, sent>>

\* Mutant: the loop goes on although no flow is left.
FoundNext_Again ==
    /\ pc = "scan" /\ flow = NULL
    /\ pc' = IF target = NULL THEN "run" ELSE "wait"
    /\ UNCHANGED <<lists, parser, locals, system, now, failures, signals, sent>>

\* The list has been scanned: the loop sends a packet or ends.
FoundNext ==
    /\ pc = "scan" /\ flow = NULL
    /\ pc' = IF target = NULL THEN "restore" ELSE "wait"
    /\ UNCHANGED <<lists, parser, locals, system, now, failures, signals, sent>>
-----------------------------------------------------------------------------
(* send_cbr and send_trace *)

\* wait_for_xmit returns.
Due(b) == now >= mem[b].next_tx

\* The block after a packet: counters, and the time of its next packet.
AfterSend(m, ok) ==
    [m EXCEPT !.success = IF ok THEN @ + 1 ELSE @,
              !.errors = IF ok THEN @ ELSE @ + 1,
              !.sequence_nmbr = @ + 1,
              !.next_tx = @ + m.traffic.waits[m.list_index],
              !.list_index = (@ % Len(m.traffic.waits)) + 1]

send_func ==
    /\ pc = "wait" /\ Due(target)
    /\ \/ /\ mem' = [mem EXCEPT ![target] = AfterSend(mem[target], TRUE)]
          /\ UNCHANGED failures
       \/ /\ mem' = [mem EXCEPT ![target] = AfterSend(mem[target], FALSE)]
          /\ Fail
    /\ sent' = [sent EXCEPT ![mem[target].flow_id] = @ + 1]
    /\ pc' = "run"
    /\ UNCHANGED <<head, done, parser, locals, system, now, signals>>
-----------------------------------------------------------------------------
(* clean_up *)

\* The first flow of the active list has its socket closed.
CloseFirst ==
    /\ pc = "cu_close" /\ head # NULL
    /\ tmp1' = head
    /\ Close(head)
    /\ pc' = IF mem[head].send_sock THEN "cu_zero" ELSE "cu_unlink"
    /\ UNCHANGED <<lists, parser, flow, prev, target, checked, buffer, sched, frees, now,
                   failures, signals, sent>>

ZeroFirst ==
    /\ pc = "cu_zero"
    /\ mem' = [mem EXCEPT ![head].send_sock = FALSE]
    /\ pc' = "cu_unlink"
    /\ UNCHANGED <<head, done, parser, locals, system, now, failures, signals, sent>>

\* Mutant: the other blocks of the flow are forgotten.
UnlinkFirst_OneBlock ==
    /\ pc = "cu_unlink"
    /\ head' = mem[head].next
    /\ pc' = "cu_free"
    /\ UNCHANGED <<mem, done, parser, locals, system, now, failures, signals, sent>>

\* It is unlinked; its next block, if any, comes first now, and is then linked
\* to the rest of the list.
UnlinkFirst ==
    /\ pc = "cu_unlink"
    /\ head' = Successor(head)
    /\ pc' = IF mem[head].mod_flow # NULL THEN "cu_relink" ELSE "cu_free"
    /\ UNCHANGED <<mem, done, parser, locals, system, now, failures, signals, sent>>

RelinkFirst ==
    /\ pc = "cu_relink"
    /\ mem' = [mem EXCEPT ![head].next = mem[tmp1].next]
    /\ pc' = "cu_free"
    /\ UNCHANGED <<head, done, parser, locals, system, now, failures, signals, sent>>

FreeActive ==
    /\ pc = "cu_free"
    /\ frees' = [frees EXCEPT ![tmp1] = @ + 1]
    /\ pc' = "cu_close"
    /\ UNCHANGED <<lists, parser, locals, open, buffer, sched, closes, now, failures, signals,
                   sent>>

ActiveCleared ==
    /\ pc = "cu_close" /\ head = NULL
    /\ pc' = "cu_done"
    /\ UNCHANGED <<lists, parser, locals, system, now, failures, signals, sent>>

\* Mutant: the list is not advanced.
UnlinkDone_Kept ==
    /\ pc = "cu_done" /\ done # NULL
    /\ tmp1' = done
    /\ pc' = "cu_dfree"
    /\ UNCHANGED <<lists, parser, flow, prev, target, checked, system, now, failures,
                   signals, sent>>

\* The same for the done list.
UnlinkDone ==
    /\ pc = "cu_done" /\ done # NULL
    /\ tmp1' = done
    /\ done' = mem[done].next
    /\ pc' = "cu_dfree"
    /\ UNCHANGED <<mem, head, parser, flow, prev, target, checked, system, now, failures,
                   signals, sent>>

FreeDone ==
    /\ pc = "cu_dfree"
    /\ frees' = [frees EXCEPT ![tmp1] = @ + 1]
    /\ pc' = "cu_done"
    /\ UNCHANGED <<lists, parser, locals, open, buffer, sched, closes, now, failures, signals,
                   sent>>

\* The buffer is freed; the pointer to it stays.
FreeBuffer ==
    /\ pc = "cu_done" /\ done = NULL
    /\ frees' = IF buffer THEN [frees EXCEPT ![NULL] = @ + 1] ELSE frees
    /\ pc' = "exit"
    /\ UNCHANGED <<lists, parser, locals, open, buffer, sched, closes, now, failures, signals,
                   sent>>

\* The process ends.
Exit ==
    /\ pc = "exit"
    /\ pc' = "gone"
    /\ UNCHANGED <<lists, parser, locals, system, now, failures, signals, sent>>
-----------------------------------------------------------------------------
(* Signals, the clock, the specification *)

\* A signal: the handler interrupts whatever the program does, cleans up and
\* exits.  The handlers are installed once the configuration has been accepted.
rude_handler ==
    /\ commands /\ ~errors /\ pc \notin {"parse", "gone"}
    /\ failures + signals < MaxFaults
    /\ signals' = signals + 1
    /\ sched' \in {sched, "SCHED_OTHER"}
    /\ pc' = "cu_close"
    /\ UNCHANGED <<lists, parser, locals, open, buffer, closes, frees, now, failures, sent>>

\* Time passes.  It matters only where the program is about to read the clock.
Tick ==
    /\ now < tester_start + MaxTime
    /\ pc \in {"start", "run", "wait"}
    /\ now' = now + 1
    /\ UNCHANGED <<pc, lists, parser, locals, system, failures, signals, sent>>

CleanUp ==
    \/ CloseFirst \/ ZeroFirst \/ UnlinkFirst \/ RelinkFirst \/ FreeActive
    \/ ActiveCleared \/ UnlinkDone \/ FreeDone \/ FreeBuffer \/ Exit

Transmit ==
    \/ find_next \/ ScanFlow \/ ScanExpired \/ FoundNext
    \/ InitNextBlock \/ ClearSocket \/ Unlink \/ LinkToDone
    \/ send_func

main ==
    \/ ReadOptions \/ Parse \/ init_rude \/ open_sockets \/ SocketsTried \/ StartLoop
    \/ RaisePriority \/ Transmit \/ RestorePriority \/ CleanUp

Next == main \/ rude_handler \/ Tick

Spec == Init /\ [][Next]_vars

\* The process is scheduled and the clock goes on.
FairSpec == Spec /\ WF_vars(main) /\ WF_vars(Tick)
-----------------------------------------------------------------------------
(* Properties *)

Allocated == {b \in Blocks : mem[b].flow_id # NULL}

\* read_cfg keeps one entry for each flow, however many blocks it has; in an
\* accepted configuration the blocks of a flow follow one another in time and do
\* not overlap, and each has its share of the time.  Removal keeps it so.
FlowsInOrder ==
    /\ \A b, c \in Entries : mem[b].flow_id = mem[c].flow_id => b = c
    /\ pc # "parse" /\ ~errors =>
          \A b \in Active :
             /\ mem[b].flow_start <= mem[b].flow_stop
             /\ mem[b].mod_flow # NULL =>
                   /\ mem[mem[b].mod_flow].flow_id = mem[b].flow_id
                   /\ mem[mem[b].mod_flow].flow_start >= mem[b].flow_stop

\* While packets are sent, the flows with an open socket are the flows that
\* still have a block, and the next packet of each carries the number of packets
\* of that flow before it, whatever blocks they belonged to.
SequenceGoesOn ==
    pc \in {"run", "scan", "wait"} =>
       /\ open = {mem[b].flow_id : b \in Entries}
       /\ \A b \in Entries :
             /\ mem[b].send_sock
             /\ mem[b].sequence_nmbr = sent[mem[b].flow_id]

\* Every packet is sent in its turn: it belongs to the flow with the earliest
\* turn of all flows, which lies in the time of the current block, and is not sent
\* before its time nor before the START time; one step sends one packet.
InTurn ==
    [][sent' # sent =>
          /\ target \in Entries
          /\ sent' = [sent EXCEPT ![mem[target].flow_id] = @ + 1]
          /\ \A b \in Entries : mem[target].next_tx <= mem[b].next_tx
          /\ mem[target].next_tx \in mem[target].flow_start .. mem[target].flow_stop
          /\ now >= mem[target].next_tx /\ now >= tester_start]_vars

\* init_rude allocates a buffer that holds every packet of every block, the ones
\* that a MODIFY command adds and all packets of a trace included.
BufferLargeEnough ==
    pc = "wait" =>
       buffer /\ mem[target].traffic.sizes[mem[target].list_index] <= max_packet_size

\* clean_up "frees the reserved resources" (flow_cntl.c): no block, and not the
\* buffer, is freed twice, and no socket is closed twice, also when a signal
\* makes rude_handler run clean_up while the program is at work on the lists.
ReleasedOnce ==
    /\ \A p \in Blocks \cup {NULL} : frees[p] <= 1
    /\ \A f \in FlowIds : closes[f] <= 1

\* clean_up releases everything, once, on every way to the end without a signal,
\* however many blocks were moved to the done list before and whichever system
\* call failed: every block that was read and the buffer are freed, every socket
\* is closed, and the priority is restored unless just that failed.
Released ==
    signals = 0 =>
       /\ ReleasedOnce
       /\ pc \in {"exit", "gone"} =>
             /\ \A b \in Allocated : frees[b] = 1
             /\ buffer => frees[NULL] = 1
             /\ open = {}
             /\ sched = "SCHED_OTHER" \/ failures > 0

\* Wherever a signal finds the program, the handler follows no pointer to a freed
\* block: what the lists hold has not been freed.
NothingDangling == \A b \in Active \cup Done : frees[b] = 0

\* The program ends: the configuration is finite and every flow has a stop time.
Terminates == <>(pc = "gone")
=============================================================================

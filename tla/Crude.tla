------------------------------- MODULE Crude -------------------------------
(***************************************************************************)
(* The program crude (src/rude/crude/main.c) as a whole: main reads the    *)
(* options, raises the priority, installs the handler of SIGINT, makes the *)
(* socket and runs one of the three ways to capture packets or the         *)
(* decoder, and leaves by one path that restores the priority, prints the  *)
(* statistics and gives everything back.  A signal may come between any    *)
(* two of these steps; before the handler is installed it ends the         *)
(* program, afterwards crude_handler does, by a path of its own.           *)
(*                                                                         *)
(* The statistics are those of CrudeStats, whose state is this module's,   *)
(* recorder and decoder are those of CrudeLog.  Only the sign of retval is *)
(* ever read, and whether it is 1: the amounts that accepted options add   *)
(* to it, all even, are one value here.  A file recorded by one invocation *)
(* may be decoded by a second one.                                         *)
(***************************************************************************)
EXTENDS CrudeStats, Sequences

CONSTANTS
    LogPackets,   \* what tells packets apart in the recorder
    NoData        \* contents of a fresh buffer

ASSUME MainAssumption == NoData \notin LogPackets

VARIABLES
    at,           \* where main is, or the handler
    argv, argc,   \* the options still to read, and how many there were
    root,         \* user_id = 0
    priority, retval, nflows, main_file, main_socket,
    sched,        \* the scheduling policy of the process
    installed,    \* is crude_handler the handler of SIGINT?
    freed,        \* was flows given back?
    prints,       \* history: calls of print_stats in this invocation
    captured,     \* history: runtime_stats was called
    dangling,     \* history: flows was read after it was given back
    lpc, mode, lcount, file, read, buffer, output, received

L == INSTANCE CrudeLog WITH Packets <- LogPackets, pc <- lpc, pkt_count <- lcount

log == <<lpc, mode, lcount, file, read, buffer, output, received>>
options == <<argv, argc, root, priority, main_file>>
capture == <<nflows, main_socket, captured>>
ending == <<sched, installed, freed, prints, dangling>>
crudeVars == <<at, options, capture, ending, retval, vars, log>>

Options == {"v", "h", "d", "p", "i", "l", "P", "n", "s", "?"}

Alone == {"v", "h", "d"}

\* Command lines: -n is given when there is a limit, unless the program only
\* prints its usage or its version, or decodes a file.
CommandLines ==
    {a \in SUBSET Options : a \cap Alone # {} \/ (("n" \in a) <=> (limit # 0))}

Starts(a) ==
    /\ at' = "options"
    /\ argv' = a /\ argc' = Cardinality(a)
    /\ priority' = 0 /\ retval' = 0 /\ nflows' = 0 /\ main_file' = 0 /\ main_socket' = 0
    /\ sched' = "SCHED_OTHER" /\ installed' = FALSE

CrudeInit ==
    /\ at = "options"
    /\ argv \in CommandLines /\ argc = Cardinality(argv)
    /\ root \in BOOLEAN
    /\ priority = 0 /\ retval = 0 /\ nflows = 0 /\ main_file = 0 /\ main_socket = 0
    /\ sched = "SCHED_OTHER" /\ installed = FALSE /\ freed = FALSE
    /\ prints = 0 /\ captured = FALSE /\ dangling = FALSE
    /\ Init /\ L!Init
-----------------------------------------------------------------------------
(* main: options, priority, handler *)

Accepted == IF retval = 1 THEN 1 ELSE 2

\* The values retval may have after option o: its argument is right, or it is
\* not, or the file does not open.
Outcomes(o) ==
    CASE o \in {"v", "h"} -> {IF argc = 1 THEN -1 ELSE -2}
      [] o = "d" -> IF argc = 1 THEN {1, -3} ELSE {-2}
      [] o = "p" -> {Accepted, -4}
      [] o = "i" -> {Accepted}
      [] o = "l" -> {Accepted, -5}
      [] o = "P" -> IF root THEN {retval, -2} ELSE {-2}
      [] o = "n" -> {Accepted, -6}
      [] o = "s" -> {retval, -6}
      [] OTHER -> {-1}

\* -d and -l open a file, unless -d is not the only option.
FileAfter(o, r) ==
    IF o \notin {"d", "l"} \/ r = -2 THEN main_file ELSE IF r > 0 THEN 1 ELSE -1

\* -s counts the flows read before an error; their number is not looked at then.
FlowsAfter(o, r) ==
    IF o # "s" THEN {nflows} ELSE IF r >= 0 THEN {Cardinality(Flows)} ELSE 0 .. Cardinality(Flows)

\* -P stores a priority even when it is out of range or the user is not root.
PriorityAfter(o, r) == IF o # "P" THEN {priority} ELSE IF r >= 0 THEN {1} ELSE {0, 1}

Option(o) ==
    /\ at = "options" /\ retval >= 0 /\ o \in argv
    /\ argv' = argv \ {o}
    /\ \E r \in Outcomes(o) :
          /\ retval' = r
          /\ main_file' = FileAfter(o, r)
          /\ nflows' \in FlowsAfter(o, r)
          /\ priority' \in PriorityAfter(o, r)
    /\ UNCHANGED <<at, argc, root, main_socket, captured, ending, vars, log>>

OptionsRead ==
    /\ at = "options" /\ (argv = {} \/ retval < 0)
    /\ at' = IF retval < 0 THEN "crude_exit" ELSE "priority"
    /\ argv' = {} /\ argc' = 0
    /\ UNCHANGED <<root, priority, main_file, capture, ending, retval, vars, log>>

RaisePriority ==
    /\ at = "priority"
    /\ \/ /\ root /\ priority > 0
          /\ \/ sched' = "SCHED_RR" /\ at' = "sigaction" /\ UNCHANGED retval
             \/ at' = "crude_exit" /\ retval' = -1 /\ UNCHANGED sched
       \/ /\ ~(root /\ priority > 0)
          /\ at' = "sigaction" /\ UNCHANGED <<sched, retval>>
    /\ UNCHANGED <<options, capture, installed, freed, prints, dangling, vars, log>>

InstallHandler ==
    /\ at = "sigaction"
    /\ \/ installed' = TRUE /\ at' = "dispatch" /\ UNCHANGED retval
       \/ at' = "crude_exit" /\ retval' = -7 /\ UNCHANGED installed
    /\ UNCHANGED <<options, capture, sched, freed, prints, dangling, vars, log>>
-----------------------------------------------------------------------------
(* main: capture or decode *)

\* The buffer of decode_file cannot be allocated, or the decoding begins.
decode_file ==
    /\ at = "dispatch" /\ retval = 1
    /\ \/ at' = "crude_exit" /\ retval' = -10 /\ UNCHANGED log
       \/ at' = "run" /\ L!Open /\ UNCHANGED retval
    /\ UNCHANGED <<options, capture, ending, vars>>

\* The address is wrong, or the socket is not made or not bound.
make_conn_fails ==
    /\ at = "dispatch" /\ retval # 1
    /\ main_socket' = -1 /\ retval' = -8
    /\ at' = "crude_exit"
    /\ UNCHANGED <<options, nflows, captured, ending, vars, log>>

make_conn ==
    /\ at = "dispatch" /\ retval # 1
    /\ main_socket' = 1
    /\ captured' = (nflows > 0)
    /\ IF nflows > 0 THEN UNCHANGED log
       ELSE IF main_file > 0 THEN L!Begin("file") ELSE L!Begin("print")
    /\ at' = "run"
    /\ UNCHANGED <<options, nflows, ending, retval, vars>>

\* Does main go on after a step of what it runs, or has that returned 0?
Return(over) ==
    IF over THEN at' = "crude_exit" /\ retval' = 0 ELSE UNCHANGED <<at, retval>>

Gather ==
    /\ at = "run" /\ nflows > 0
    /\ runtime_stats
    /\ Return(pc' = "print")
    /\ UNCHANGED <<options, capture, ending, log>>

RecordOrDecode ==
    /\ at = "run" /\ nflows = 0
    /\ L!Record \/ L!Decode
    /\ Return(lpc' \in {"recorded", "done"})
    /\ UNCHANGED <<options, capture, ending, vars>>
-----------------------------------------------------------------------------
(* main: crude_exit *)

\* Mutant: the return value is looked at after the priority was restored.
crude_exit_Late ==
    /\ at = "crude_exit"
    /\ \/ sched' = "SCHED_OTHER" /\ UNCHANGED retval
       \/ root /\ priority > 0 /\ retval' = -1 /\ UNCHANGED sched
    /\ at' = IF retval' >= 0 /\ nflows > 0 THEN "print" ELSE "close"
    /\ UNCHANGED <<options, capture, installed, freed, prints, dangling, vars, log>>

\* ps_flag is set and the priority is restored, which may fail.
crude_exit ==
    /\ at = "crude_exit"
    /\ at' = IF retval >= 0 /\ nflows > 0 THEN "print" ELSE "close"
    /\ \/ sched' = "SCHED_OTHER" /\ UNCHANGED retval
       \/ root /\ priority > 0 /\ retval' = -1 /\ UNCHANGED sched
    /\ UNCHANGED <<options, capture, installed, freed, prints, dangling, vars, log>>

PrintResults ==
    /\ at = "print"
    /\ print_stats
    /\ prints' = prints + 1
    /\ at' = "close"
    /\ UNCHANGED <<options, capture, sched, installed, freed, dangling, retval, log>>

\* File and socket are closed, the flows freed.
GiveBack ==
    /\ at = "close"
    /\ freed' = (nflows > 0)
    /\ at' = "exit"
    /\ UNCHANGED <<options, capture, sched, installed, prints, dangling, retval, vars, log>>

Leave ==
    /\ at = "exit"
    /\ at' = "gone"
    /\ UNCHANGED <<options, capture, ending, retval, vars, log>>
-----------------------------------------------------------------------------
(* SIGINT *)

\* The handler is not installed yet: the process is ended.
Killed ==
    /\ ~installed /\ at \notin {"handler", "gone"}
    /\ at' = "gone"
    /\ UNCHANGED <<options, capture, ending, retval, vars, log>>

\* The handler interrupts main and restores the priority.
Interrupted ==
    /\ installed /\ at \notin {"handler", "gone"}
    /\ at' = "handler"
    /\ sched' \in {sched, "SCHED_OTHER"}
    /\ IF nflows > 0 /\ pc \notin {"print", "exit"} THEN crude_handler ELSE UNCHANGED vars
    /\ IF at = "run" /\ nflows = 0 THEN L!crude_handler ELSE UNCHANGED log
    /\ UNCHANGED <<options, capture, installed, freed, prints, dangling, retval>>

\* It prints the statistics if there are flows, whatever main has printed or
\* freed already, closes everything and exits.
HandlerExits ==
    /\ at = "handler"
    /\ prints' = IF nflows > 0 THEN prints + 1 ELSE prints
    /\ dangling' = (nflows > 0 /\ freed)
    /\ IF pc = "print" THEN print_stats ELSE UNCHANGED vars
    /\ at' = "gone"
    /\ UNCHANGED <<options, capture, sched, installed, freed, retval, log>>
-----------------------------------------------------------------------------
\* A file recorded is decoded by a second invocation.
DecodeLater ==
    /\ at = "gone" /\ lpc = "recorded"
    /\ Starts({"d"})
    /\ UNCHANGED <<root, freed, prints, captured, dangling, vars, log>>

main ==
    \/ \E o \in Options : Option(o)
    \/ OptionsRead \/ RaisePriority \/ InstallHandler
    \/ decode_file \/ make_conn_fails \/ make_conn \/ Gather \/ RecordOrDecode
    \/ crude_exit \/ PrintResults \/ GiveBack \/ Leave

CrudeNext == main \/ Killed \/ Interrupted \/ HandlerExits \/ DecodeLater

CrudeSpec == CrudeInit /\ [][CrudeNext]_crudeVars
-----------------------------------------------------------------------------
(* Properties *)

\* What was gathered is reported on every way out of the program once
\* runtime_stats was called and the handler is installed: main's crude_exit, also
\* when restoring the priority fails and changes retval, and crude_handler at any
\* point.  Nothing is reported if nothing was asked for.
Reported == at = "gone" => (captured => prints > 0) /\ (nflows = 0 => prints = 0)

\* Every packet recorded to a file or printed is printed once, in order and with
\* both of its parts; see CrudeLog.
RoundTrip == L!RoundTrip

\* crude_handler prints statistics that main has not freed yet.  The code does
\* not see to it: it holds until a signal comes between free(flows) and exit.
ResultsLive == ~dangling
=============================================================================

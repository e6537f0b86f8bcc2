------------------------------ MODULE Runtime ------------------------------
(***************************************************************************)
(* The runtime libmoon scripts share: the life of the process              *)
(* (lifecycle.cpp), tasks on lcores (task.cpp, libmoon.lua), the values    *)
(* they return (task-results.cpp) and a barrier (barrier.cpp).  All tasks  *)
(* are threads of one process; the master task runs on a core of its own.  *)
(* The state of an lcore is the one DPDK keeps: rte_eal_remote_launch has  *)
(* set RUNNING when it returns, and FINISHED follows the function's return.*)
(***************************************************************************)
EXTENDS Integers, FiniteSets

CONSTANTS
    WorkerCores,    \* number of cores tasks are started on (mod.config.cores)
    Boot,           \* rte_rdtsc() when the program starts
    MaxTsc,         \* bound on rte_rdtsc()
    W,              \* the modulus of the unsigned 64-bit counters
    MaxSignals,     \* bound on SIGINT and SIGTERM
    NULL

ASSUME RuntimeAssumption ==
    /\ {WorkerCores, Boot, MaxTsc, W, MaxSignals} \subseteq Nat
    /\ WorkerCores > 0 /\ Boot <= MaxTsc /\ 2 * MaxTsc < W

VARIABLES
    process,        \* "up", "exited" or "aborted"
    tsc,            \* rte_rdtsc()
    stop_at,
    signal_at,
    lcore,          \* rte_eal_get_lcore_state of each core
    running,        \* the task id each core was last given, 0 for none
    task_id_ctr,
    results,        \* the entries of the results map: task id, value
    waiting,        \* cores blocked in barrier_wait, on the condition
    n               \* barrier.n

lifecycle == <<process, tsc, stop_at, signal_at>>
tasks == <<lcore, running, task_id_ctr, results>>
barrier == <<waiting, n>>
runtimeVars == <<lifecycle, tasks, barrier>>

Cores == 1 .. WorkerCores

\* (uint64_t) -1: no signal yet, no run time set.
Never == W - 1

RuntimeTypeOK ==
    /\ process \in {"up", "exited", "aborted"}
    /\ tsc \in Boot .. MaxTsc
    /\ {stop_at, signal_at} \subseteq 0 .. Never
    /\ lcore \in [Cores -> {"WAIT", "RUNNING", "FINISHED"}]
    /\ running \in [Cores -> 0 .. task_id_ctr - 1]
    /\ task_id_ctr \in Nat
    /\ \A r \in results : r.id \in 1 .. task_id_ctr - 1
    /\ waiting \subseteq Cores
    /\ n \in 0 .. Never

RuntimeInit ==
    /\ process = "up"
    /\ tsc = Boot
    /\ stop_at = Never
    /\ signal_at = Never
    /\ lcore = [c \in Cores |-> "WAIT"]
    /\ running = [c \in Cores |-> 0]
    /\ task_id_ctr = 1
    /\ results = {}
    /\ waiting = {}

-----------------------------------------------------------------------------
(* lifecycle.cpp *)

Tick ==
    /\ process = "up"
    /\ tsc < MaxTsc
    /\ tsc' = tsc + 1
    /\ UNCHANGED <<process, stop_at, signal_at>>

\* A second signal aborts the process, wherever its threads are.
handler ==
    /\ process = "up"
    /\ IF signal_at # Never
       THEN process' = "aborted" /\ UNCHANGED signal_at
       ELSE signal_at' = tsc /\ UNCHANGED process
    /\ UNCHANGED <<tsc, stop_at>>

\* The subtraction is unsigned.
is_running(extra_time) ==
    LET time == (tsc - extra_time) % W
    IN  signal_at > time /\ stop_at > time

set_runtime(run_time) ==
    /\ stop_at' = (tsc + run_time) % W
    /\ UNCHANGED <<process, tsc, signal_at>>

-----------------------------------------------------------------------------
(* Tasks and their results *)

\* The first core that runs no task; 0 if there is none.
getCore ==
    LET free == {c \in Cores : lcore[c] # "RUNNING"}
    IN  IF free = {} THEN 0 ELSE CHOOSE c \in free : \A d \in free : c <= d

task_generate_id == task_id_ctr' = task_id_ctr + 1

\* rte_eal_remote_launch of lua_core_main with the id among the arguments.
launch_lua_core(core, id) ==
    /\ lcore' = [lcore EXCEPT ![core] = "RUNNING"]
    /\ running' = [running EXCEPT ![core] = id]

\* A FINISHED core is joined first, which takes it back to WAIT.
startTaskOnCore(core) ==
    /\ lcore[core] # "RUNNING"
    /\ task_generate_id
    /\ launch_lua_core(core, task_id_ctr)
    /\ UNCHANGED results

\* emplace: an id that is already there keeps its value.
task_store_result(id, value) ==
    /\ results' = results \cup {r \in {[id |-> id, value |-> value]} :
                                    \A s \in results : s.id # id}
    /\ UNCHANGED <<lcore, running, task_id_ctr>>

\* lua_core_main returns, after the script or after an error in it.
lua_core_main_returns(core) ==
    /\ lcore' = [lcore EXCEPT ![core] = "FINISHED"]
    /\ UNCHANGED <<running, task_id_ctr, results>>

\* The value task_get_result finds, NULL (nullptr) if there is none.
ResultOf(id) ==
    IF \E r \in results : r.id = id
    THEN (CHOOSE r \in results : r.id = id).value
    ELSE NULL

task_get_result(id) ==
    /\ results' = {r \in results : r.id # id}
    /\ UNCHANGED <<lcore, running, task_id_ctr>>

\* task:wait polls the core the task was started on.
TaskOver(core) == lcore[core] # "RUNNING"

-----------------------------------------------------------------------------
(* barrier.cpp *)

make_barrier(tasks_) == n = tasks_ /\ waiting = {}

\* The last one to arrive goes on, the others sleep on the condition.
barrier_wait(core) ==
    /\ n' = (n - 1) % W
    /\ waiting' = IF n' = 0 THEN waiting ELSE waiting \cup {core}

\* A sleeper wakes (notified or not) and sees that n is 0.
barrier_wake(core) ==
    /\ core \in waiting
    /\ n = 0
    /\ waiting' = waiting \ {core}
    /\ UNCHANGED n
=============================================================================

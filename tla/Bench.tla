--------------------------------- MODULE Bench ---------------------------------
(***************************************************************************)
(* One benchmark run: the harness main, the thread launcher, the dispatch  *)
(* loop of every worker, the target's lifecycle and the statistics engine. *)
(*                                                                         *)
(* The launcher's actions are those of ThreadLauncher and the statistics   *)
(* operators those of BmStats.  The harness main and the worker function   *)
(* (run_fun) are not in src/: they are modelled from spec sections 4.1,    *)
(* 4.3 and 4.4.  The worker function refines ThreadLauncher's abstract     *)
(* RunFun.                                                                 *)
(***************************************************************************)
EXTENDS Naturals, Sequences, Rand, BmHelper

CONSTANTS
    NumThreads,   \* -t
    OpDist,       \* -op<i> weights, a sequence summing to 100
    NumBuckets, U64Max, Durations, Outcomes,
    MaxIters,     \* bound on loop iterations per worker
    MaxNoise,     \* -n: the largest noise of one iteration, in nops
    RandomNoise   \* whether the noise is drawn in 0 .. MaxNoise or fixed

ASSUME MaxIters \in Nat \ {0} /\ MaxNoise \in Nat /\ RandomNoise \in BOOLEAN

VARIABLES
    go, stop, lpc, nextTid, joinIdx, tstate,   \* ThreadLauncher
    stats,    \* BmStats: the per-thread, per-operation slots
    wpc,      \* per worker: "reg", "loop", "noise", "nop", "dispatch", "dereg", "done"
    iters,    \* per worker: loop iterations started
    nop_count, \* per worker: the nops the current noise call chose
    nops,     \* per worker: the loop index i of the noise call
    lateNops, \* history: per worker, the nops run while the stop flag was set
    mpc,      \* main: "setup", "launch", "running", "report", "teardown", "done"
    target,   \* the target's state: "uninit", "ready", "destroyed"
    report    \* the values bm_print_stats prints, or NoReport

lvars == <<go, stop, lpc, nextTid, joinIdx, tstate>>
nvars == <<nop_count, nops, lateNops>>
wvars == <<wpc, iters, nvars>>
vars == <<lvars, stats, wvars, mpc, target, report>>

L == INSTANCE ThreadLauncher WITH CreateMayFail <- FALSE
Threads == L!Threads
Ops == 0 .. Len(OpDist) - 1
S == INSTANCE BmStats WITH MaxCallsPerSlot <- MaxIters

NoReport == "none"

\* bm_print_stats has run.
Reported == mpc \in {"teardown", "done"}

Init ==
    /\ L!Init
    /\ stats = S!bm_stat_init
    /\ wpc = [t \in Threads |-> "reg"]
    /\ iters = [t \in Threads |-> 0]
    /\ nop_count = [t \in Threads |-> 0]
    /\ nops = [t \in Threads |-> 0]
    /\ lateNops = [t \in Threads |-> 0]
    /\ mpc = "setup"
    /\ target = "uninit"
    /\ report = NoReport

-----------------------------------------------------------------------------
(* The harness main (spec 4.1, 4.2, 4.4).                                  *)

\* bm_target_init once, before any thread starts.
MainSetup ==
    /\ mpc = "setup"
    /\ target' = "ready"
    /\ mpc' = "launch"
    /\ UNCHANGED <<lvars, stats, wvars, report>>

\* The call of launch_threads_and_stop_them.
MainLaunch ==
    /\ mpc = "launch"
    /\ L!Launch
    /\ mpc' = "running"
    /\ UNCHANGED <<stats, wvars, target, report>>

\* The launcher's own steps while main is blocked in the call.
LauncherStep ==
    /\ L!LauncherStep
    /\ UNCHANGED <<stats, wvars, mpc, target, report>>

\* The call returns; the stats are merged and printed.
MainReport ==
    /\ mpc = "running"
    /\ lpc = "returned"
    /\ report' = S!bm_print_stats(stats)
    /\ mpc' = "teardown"
    /\ UNCHANGED <<lvars, stats, wvars, target>>

\* bm_target_destroy once, after all threads have joined; bm_stat_destroy.
MainTeardown ==
    /\ mpc = "teardown"
    /\ target' = "destroyed"
    /\ mpc' = "done"
    /\ UNCHANGED <<lvars, stats, wvars, report>>

\* The process has exited.
Terminated ==
    /\ mpc = "done"
    /\ UNCHANGED vars

-----------------------------------------------------------------------------
(* A worker: common_run up to g_go, then the dispatch loop (spec 4.3).     *)

PassGoSignal(t) ==
    /\ L!PassGoSignal(t)
    /\ UNCHANGED <<stats, wvars, mpc, target, report>>

\* bm_target_reg.
Register(t) ==
    /\ tstate[t] = "run"
    /\ wpc[t] = "reg"
    /\ wpc' = [wpc EXCEPT ![t] = "loop"]
    /\ UNCHANGED <<lvars, stats, iters, nvars, mpc, target, report>>

\* The loop head reads the stop flag and goes on while it is clear; the
\* iteration starts with bm_generate_noise_interruptible(MaxNoise,
\* RandomNoise, stop), which chooses its nop count.
CheckStop(t) ==
    /\ wpc[t] = "loop"
    /\ ~stop
    /\ iters[t] < MaxIters
    /\ wpc' = [wpc EXCEPT ![t] = "noise"]
    /\ iters' = [iters EXCEPT ![t] = @ + 1]
    /\ \E n \in NoiseCounts(MaxNoise, RandomNoise) : nop_count' = [nop_count EXCEPT ![t] = n]
    /\ nops' = [nops EXCEPT ![t] = 0]
    /\ UNCHANGED <<lvars, stats, lateNops, mpc, target, report>>

\* bm_generate_noise's loop condition: i < nop_count, with no stop check.
NoiseCheckUninterruptible(t) ==
    /\ wpc[t] = "noise"
    /\ wpc' = [wpc EXCEPT ![t] = IF nops[t] < nop_count[t] THEN "nop" ELSE "dispatch"]
    /\ UNCHANGED <<lvars, stats, iters, nvars, mpc, target, report>>

\* The loop condition i < nop_count && !stop() of the interruptible noise:
\* another nop, or the end of the noise and on to the dispatch.
NoiseCheck(t) ==
    /\ wpc[t] = "noise"
    /\ wpc' = [wpc EXCEPT ![t] = IF nops[t] < nop_count[t] /\ ~stop THEN "nop" ELSE "dispatch"]
    /\ UNCHANGED <<lvars, stats, iters, nvars, mpc, target, report>>

\* One nop of the loop body, then i++.
Nop(t) ==
    /\ wpc[t] = "nop"
    /\ nops' = [nops EXCEPT ![t] = @ + 1]
    /\ lateNops' = [lateNops EXCEPT ![t] = IF stop THEN @ + 1 ELSE @]
    /\ wpc' = [wpc EXCEPT ![t] = "noise"]
    /\ UNCHANGED <<lvars, stats, iters, nop_count, mpc, target, report>>

\* The operations random_with_probability(op_dist, .) selects over all draws.
SelectedOps == {random_with_probability(OpDist, r) : r \in Draws}

\* One iteration: draw the operation, run the noise and the dispatch, and
\* record the outcome and duration (or a skip) in the thread's own slot.
\* An in-flight iteration is never interrupted by the stop flag.
Dispatch(t) ==
    /\ wpc[t] = "dispatch"
    /\ \E op \in SelectedOps, res \in Outcomes, d \in Durations, skipped \in BOOLEAN :
          S!bm_stat_add_op(t, op, res, d, skipped)
    /\ wpc' = [wpc EXCEPT ![t] = "loop"]
    /\ UNCHANGED <<lvars, iters, nvars, mpc, target, report>>

\* A loop head that tests the start flag instead of the stop flag.
LoopExitOnGo(t) ==
    /\ wpc[t] = "loop"
    /\ go
    /\ wpc' = [wpc EXCEPT ![t] = "dereg"]
    /\ UNCHANGED <<lvars, stats, iters, nvars, mpc, target, report>>

\* The loop head sees the stop flag and leaves the loop.
LoopExit(t) ==
    /\ wpc[t] = "loop"
    /\ stop
    /\ wpc' = [wpc EXCEPT ![t] = "dereg"]
    /\ UNCHANGED <<lvars, stats, iters, nvars, mpc, target, report>>

\* bm_target_dereg, and the thread function returns to common_run.  It
\* reads no flag here: only the loop head decides when the worker ends.
Deregister(t) ==
    /\ wpc[t] = "dereg"
    /\ tstate' = [tstate EXCEPT ![t] = "exited"]
    /\ wpc' = [wpc EXCEPT ![t] = "done"]
    /\ UNCHANGED <<go, stop, lpc, nextTid, joinIdx, stats, iters, nvars, mpc, target, report>>

Worker(t) ==
    \/ PassGoSignal(t) \/ Register(t) \/ CheckStop(t) \/ NoiseCheck(t) \/ Nop(t) \/ Dispatch(t)
    \/ LoopExit(t) \/ Deregister(t)

Main == MainSetup \/ MainLaunch \/ MainReport \/ MainTeardown

Next ==
    \/ Main
    \/ LauncherStep
    \/ \E t \in Threads : Worker(t)
    \/ Terminated

\* main and the launcher run to completion (sleep is finite) and the OS
\* schedules every live thread; the target's dispatch returns in bounded
\* time (bm_server_redis waits at most TIMEOUT_MS in epoll_wait).
Fairness ==
    /\ WF_vars(Main)
    /\ WF_vars(LauncherStep)
    /\ \A t \in Threads : WF_vars(Worker(t))

Spec == Init /\ [][Next]_vars /\ Fairness

-----------------------------------------------------------------------------
TypeOK ==
    /\ L!TypeOK
    /\ S!TypeOK
    /\ wpc \in [Threads -> {"reg", "loop", "noise", "nop", "dispatch", "dereg", "done"}]
    /\ iters \in [Threads -> 0 .. MaxIters]
    /\ nop_count \in [Threads -> 0 .. MaxNoise]
    /\ nops \in [Threads -> 0 .. MaxNoise]
    /\ mpc \in {"setup", "launch", "running", "report", "teardown", "done"}
    /\ target \in {"uninit", "ready", "destroyed"}

\* The report is final: once bm_print_stats has read the slots, no worker
\* writes to them again, so the printed values are those of every
\* recorded iteration of every thread (slots are read only after the join).
ReportIsFinal ==
    Reported => report = S!bm_print_stats(stats)

\* The detailed run implements the launcher's abstract specification: the
\* dispatch loop only leaves its thread function after the stop flag.
LauncherSpec == L!Spec

\* Every run ends: all workers see the stop flag, are joined, the report
\* is printed and the target destroyed.
RunCompletes == <>(mpc = "done")

\* A printed minimum is a measured duration, or 0 when nothing was measured
\* (bm_stats.h: "overwrite with zero if no real min was found").
ReportedMinSound ==
    Reported =>
        /\ report.univ_min \in Durations \cup {0}
        /\ \A op \in Ops : report.ops[op].min \in Durations \cup {0}

\* The noise is interruptible (spec 4.3: the noise loop checks the stop
\* flag so that shutdown latency stays bounded): once the stop flag is set,
\* a worker runs at most the one nop whose check passed before the store.
NoiseStopsPromptly ==
    \A t \in Threads : lateNops[t] <= 1
=============================================================================

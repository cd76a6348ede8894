---------------------------- MODULE LauncherReuse ----------------------------
(***************************************************************************)
(* Consecutive calls of launch_threads_and_stop_them in one process, as a  *)
(* caller running several measured phases would make them.  Each call      *)
(* creates fresh threads; the caller clears its stop flag between calls.   *)
(* g_go is a static of thread_launcher.h that nothing clears:              *)
(* RESET_START_SIGNAL (line 31) expands to an atomic load, not a store,    *)
(* and no launcher calls it.                                               *)
(***************************************************************************)
EXTENDS Naturals

CONSTANTS
    NumThreads,
    Calls       \* the number of launches the caller makes

ASSUME Calls \in Nat \ {0}

VARIABLES go, stop, lpc, nextTid, joinIdx, tstate,
          calls   \* launches made so far

vars == <<go, stop, lpc, nextTid, joinIdx, tstate, calls>>

L == INSTANCE ThreadLauncher WITH CreateMayFail <- FALSE

Init == L!Init /\ calls = 0

\* The first call.
FirstLaunch ==
    /\ L!Launch
    /\ calls' = calls + 1

\* A later call, after the previous one returned: the caller clears its
\* stop flag, a new run_info_t array is allocated and the loops of
\* create_threads and await_threads start from 0.  g_go keeps the value
\* the previous GIVE_START_SIGNAL stored.
Relaunch ==
    /\ lpc = "returned"
    /\ calls < Calls
    /\ stop' = FALSE
    /\ lpc' = "create"
    /\ nextTid' = 0
    /\ joinIdx' = 0
    /\ tstate' = [t \in L!Threads |-> "none"]
    /\ calls' = calls + 1
    /\ UNCHANGED go

\* The launcher's steps within one call.
LauncherStep == L!LauncherStep /\ UNCHANGED calls

\* A created thread's steps: common_run and its thread function.
ThreadStep(t) == (L!PassGoSignal(t) \/ L!RunFun(t)) /\ UNCHANGED calls

\* The caller is done.
Finished ==
    /\ lpc = "returned"
    /\ calls = Calls
    /\ UNCHANGED vars

Next ==
    FirstLaunch \/ Relaunch \/ LauncherStep \/ (\E t \in L!Threads : ThreadStep(t)) \/ Finished

\* As in ThreadLauncher: the caller proceeds, the sleep is finite and the
\* OS schedules every live thread.
Fairness ==
    /\ WF_vars(FirstLaunch \/ Relaunch \/ LauncherStep)
    /\ \A t \in L!Threads : WF_vars(ThreadStep(t))

Spec == Init /\ [][Next]_vars /\ Fairness

-----------------------------------------------------------------------------
TypeOK == L!TypeOK /\ calls \in 0 .. Calls

\* The first launch of the process has the synchronized start of the
\* create_threads loop: no thread enters its function while another
\* thread is still to be created.
FirstLaunchBarrier == calls = 1 => L!StartBarrier

\* Every launch has the synchronized start its comment promises ("the
\* threads start on the same signal"): no thread enters its function
\* while another thread of the same launch is still to be created.
StartBarrier == L!StartBarrier

\* Each call returns only after all of its threads ran to the end.
AllThreadsRan == L!AllThreadsRan

\* Every call the caller makes returns.
EveryCallReturns == <>(calls = Calls /\ lpc = "returned")
=============================================================================

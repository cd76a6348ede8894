---------------------------- MODULE ThreadLauncher ----------------------------
(***************************************************************************)
(* launch_threads_and_stop_them of src/bench/include/CSB/thread_launcher.h *)
(* and the common_run wrapper every created thread executes.               *)
(*                                                                         *)
(* The launcher creates NumThreads threads, raises g_go, sleeps, raises    *)
(* the stop flag and joins the threads in index order.  Each thread spins  *)
(* on g_go and then runs the thread function, which this module keeps      *)
(* abstract: it returns only after the stop flag has been raised           *)
(* (cooperative shutdown).  Bench refines it into the dispatch loop.       *)
(***************************************************************************)
EXTENDS Naturals

CONSTANTS
    NumThreads,   \* thread_count
    CreateMayFail \* whether pthread_create may fail (its result is ignored)

ASSUME NumThreads \in Nat \ {0} /\ CreateMayFail \in BOOLEAN

Threads == 0 .. NumThreads - 1

VARIABLES
    go,       \* g_go
    stop,     \* *stop_flag
    lpc,      \* launcher: "idle", "create", "sleep", "join", "returned"
    nextTid,  \* i of the create_threads loop
    joinIdx,  \* i of the await_threads loop
    tstate    \* per thread: "none", "failed", "spin", "run", "exited"

lvars == <<go, stop, lpc, nextTid, joinIdx, tstate>>

Init ==
    /\ go = FALSE
    /\ stop = FALSE
    /\ lpc = "idle"
    /\ nextTid = 0
    /\ joinIdx = 0
    /\ tstate = [t \in Threads |-> "none"]

\* The call of launch_threads_and_stop_them (malloc of the run_info_t array).
Launch ==
    /\ lpc = "idle"
    /\ lpc' = "create"
    /\ UNCHANGED <<go, stop, nextTid, joinIdx, tstate>>

\* A create loop that gives the start signal as it goes.
CreateThreadEarlyGo ==
    /\ lpc = "create"
    /\ nextTid < NumThreads
    /\ tstate' = [tstate EXCEPT ![nextTid] = "spin"]
    /\ nextTid' = nextTid + 1
    /\ go' = TRUE
    /\ UNCHANGED <<stop, lpc, joinIdx>>

\* A create loop whose condition is i <= thread_count.
CreateThreadPastEnd ==
    /\ lpc = "create"
    /\ nextTid <= NumThreads
    /\ tstate' = [tstate EXCEPT ![nextTid] = "spin"]
    /\ nextTid' = nextTid + 1
    /\ UNCHANGED <<go, stop, lpc, joinIdx>>

\* One iteration of the create_threads loop: pthread_create(common_run).
\* When it fails, its result is ignored and threads[i].t stays unset.
CreateThread ==
    /\ lpc = "create"
    /\ nextTid < NumThreads
    /\ \E ok \in IF CreateMayFail THEN BOOLEAN ELSE {TRUE} :
          tstate' = [tstate EXCEPT ![nextTid] = IF ok THEN "spin" ELSE "failed"]
    /\ nextTid' = nextTid + 1
    /\ UNCHANGED <<go, stop, lpc, joinIdx>>

\* GIVE_START_SIGNAL after the create loop, then sleep(wait_in_seconds).
GiveStartSignal ==
    /\ lpc = "create"
    /\ nextTid = NumThreads
    /\ go' = TRUE
    /\ lpc' = "sleep"
    /\ UNCHANGED <<stop, nextTid, joinIdx, tstate>>

\* A launcher that sleeps and joins without storing to the stop flag.
RaiseStopNoStore ==
    /\ lpc = "sleep"
    /\ lpc' = "join"
    /\ UNCHANGED <<go, stop, nextTid, joinIdx, tstate>>

\* The sleep ends: store to the stop flag, record_time(&stop_time).
RaiseStop ==
    /\ lpc = "sleep"
    /\ stop' = TRUE
    /\ lpc' = "join"
    /\ UNCHANGED <<go, nextTid, joinIdx, tstate>>

\* An await loop that moves on without waiting for the thread to end.
JoinThreadNoWait ==
    /\ lpc = "join"
    /\ joinIdx < NumThreads
    /\ joinIdx' = joinIdx + 1
    /\ UNCHANGED <<go, stop, lpc, nextTid, tstate>>

\* One iteration of the await_threads loop: pthread_join(threads[i].t).
\* Joining a thread that was never created returns at once (ESRCH), one of
\* the outcomes of joining an unset pthread_t.
JoinThread ==
    /\ lpc = "join"
    /\ joinIdx < NumThreads
    /\ tstate[joinIdx] \in {"exited", "failed"}
    /\ joinIdx' = joinIdx + 1
    /\ UNCHANGED <<go, stop, lpc, nextTid, tstate>>

\* free(threads); return stop_time.
Return ==
    /\ lpc = "join"
    /\ joinIdx = NumThreads
    /\ lpc' = "returned"
    /\ UNCHANGED <<go, stop, nextTid, joinIdx, tstate>>

\* common_run: set_cpu_affinity (no modelled state), then WAIT_FOR_GO_SIGNAL
\* spins until g_go is seen and the thread function is called.
PassGoSignal(t) ==
    /\ tstate[t] = "spin"
    /\ go
    /\ tstate' = [tstate EXCEPT ![t] = "run"]
    /\ UNCHANGED <<go, stop, lpc, nextTid, joinIdx>>

\* The thread function returns; it does so only once stop has been raised.
RunFun(t) ==
    /\ tstate[t] = "run"
    /\ stop
    /\ tstate' = [tstate EXCEPT ![t] = "exited"]
    /\ UNCHANGED <<go, stop, lpc, nextTid, joinIdx>>

\* After the launcher returns, the caller goes on; nothing here changes.
Returned ==
    /\ lpc = "returned"
    /\ UNCHANGED lvars

\* The steps of the call, once made.
LauncherStep ==
    CreateThread \/ GiveStartSignal \/ RaiseStop \/ JoinThread \/ Return

Next ==
    \/ Launch
    \/ LauncherStep
    \/ \E t \in Threads : PassGoSignal(t) \/ RunFun(t)
    \/ Returned

\* The caller makes the call, the launcher sleeps a finite time and the OS
\* schedules every live thread, so each is weakly fair.
Fairness ==
    /\ WF_lvars(Launch \/ LauncherStep)
    /\ \A t \in Threads : WF_lvars(PassGoSignal(t)) /\ WF_lvars(RunFun(t))

Spec == Init /\ [][Next]_lvars /\ Fairness

-----------------------------------------------------------------------------
TypeOK ==
    /\ go \in BOOLEAN
    /\ stop \in BOOLEAN
    /\ lpc \in {"idle", "create", "sleep", "join", "returned"}
    /\ nextTid \in 0 .. NumThreads
    /\ joinIdx \in 0 .. NumThreads
    /\ tstate \in [Threads -> {"none", "failed", "spin", "run", "exited"}]

\* Synchronized start: no thread gets past WAIT_FOR_GO_SIGNAL into its
\* thread function while another thread of the launch is still to be
\* created by the create_threads loop.
StartBarrier ==
    \A t \in Threads :
        tstate[t] \in {"run", "exited"} => \A u \in Threads : tstate[u] # "none"

\* When launch_threads_and_stop_them returns, every requested thread has
\* run its thread function to the end.
AllThreadsRan ==
    lpc = "returned" => \A t \in Threads : tstate[t] = "exited"
=============================================================================

# TLA+ models of CSB, the concurrent micro-benchmark harness

CSB drives a *target* (a unit of work with init, register, dispatch, deregister
and destroy hooks) from a fixed pool of worker threads for a bounded time. Each
worker records every call's outcome and duration into its own statistics slot.
The slots are merged into a one-line report after all workers have joined.

## Inventory of the system

| Part | Source | What it does | Concurrency / state |
|---|---|---|---|
| Thread launcher | `src/bench/include/CSB/thread_launcher.h` | Creates the pool, raises `g_go`, sleeps, raises the stop flag, then joins in index order | Two relaxed atomic flags; N spinning threads |
| Statistics engine | `src/bench/include/CSB/bm_stats.h` | Per-thread, per-operation slots, a 60-bucket histogram, and the merge and report | Each slot is written only by its owner and read after the join |
| RNG utility | `src/bench/include/CSB/rand.h` | `_random` rejection sampling, `random_next_int`, and operation selection by weights | A plain global seed flag, set lazily by whichever worker draws first, and a per-thread `rand_r` seed |
| Math helpers | `src/bench/include/CSB/math.h` | clz-based powers of two, masks, ceilings, min/max | pure |
| Parameters | `src/bench/include/CSB/bm_params.h` | Regex matching of `-t= -n= -d= -s= -opN=` into `uint32_t` fields | sequential |
| Noise | `src/bench/include/CSB/bm_helper.h` | nop busy loops; one version is interruptible by the stop flag | per thread |
| Timing | `src/bench/include/CSB/time.h` | Cycle counter, tick calibration, wall-clock and CPU time | hardware |
| Targets | `src/bench/targets/bm_empty.h`, `bm_server_redis.h` | A no-op target, and a TCP key/value responder on one epoll instance shared by all workers | Redis: shared sockets and epoll |
| Client | `src/bench/client.c` | hiredis load generator for the redis target | separate process |
| Harness main and worker function | not under `src/` (spec sections 4.1-4.4) | Parse, init target, launch, report, destroy; the dispatch loop | Modelled from the spec |

How the parts interact: main calls `bm_target_init`, then
`launch_threads_and_stop_them(run_fun)`. Each worker runs `common_run`: it spins
on `g_go`, then runs `run_fun`. `run_fun` registers with the target, then loops
while the stop flag is clear. Each pass draws an operation with
`random_with_probability`, calls `bm_dispatch_operation`, and records the call
with `bm_stat_add_op`. At the end `run_fun` deregisters. Once all threads have
joined, main calls `bm_print_stats` and `bm_target_destroy`.

## Modules

| Module | Models | State and actions |
|---|---|---|
| `Math` | math.h | Operators only. `BitLength(x)` is `32 - __builtin_clz(x)`. |
| `Time` | `calc_spent_time`, `calc_spent_time_nano` | Operators on `[sec, nsec]` timespecs. `CDiv` is C's division of a negative `long`, which truncates toward zero. |
| `BmHelper` | `bm_generate_noise`, `bm_generate_noise_interruptible` | `NoiseCounts`: the nop counts a call may choose (none for 0, `max_noise`, or a draw from `random_thread_safe_get_next(0, max_noise)`, which is in `Rand`). The loop itself is in `Bench`. |
| `BmEmpty` | bm_empty.h | Operators: the operation count (1) and the `(1, 1)` result of the dispatch, used as the outcomes of `MCBench` and `MCBmStats`. |
| `Rand` | `_random`, `random_next_int`, `random_with_probability`, `random_next_int64` | Operators. The draw is the set of values `random_next_int(1,100)` can return. `SelectFrom` is the cumulative-weight loop; falling out of it returns 0, as a release build with the assert compiled out does. `random_next_int64` takes the modulus of `uint64_t` as an argument, so it can be checked on scaled words. `deterministic_random_shuffle` is the set of arrays its loop can leave, one per sequence of draws (`ShuffleFrom`). `ThreadSafeGetNext(min, max, U)` is `random_thread_safe_get_next` in `uint32_t` arithmetic with modulus `U`, over the values `rand_r` returns (0..RAND_MAX, with RAND_MAX = INT32_MAX = U/2 - 1). A failed assert and a division by a wrapped 0 are results of their own. `Bench` uses the range form `random_thread_safe_get_next(min, max) == min..max`, which `ThreadSafeDrawInRange` shows exact. |
| `BmThroughput` | `bm_stat_add_spent_time` and the throughput of `bm_print_stats` | Operators. A double is a tagged record: a finite quotient `n / d`, `Inf` or `NaN`. `DoubleDiv` is IEEE division of non-negative values (x/0 is inf, 0/0 is nan) and `DoubleLeq` is IEEE `<=`, false when either side is nan. Rounding is left out: both figures of a pair share the numerator, and division is monotone in the divisor. |
| `BmStats` | bm_stats.h | `stats[t][op]` is a `bm_op_stat_t`. `bm_stat_init` is Init. `bm_stat_add_op` is the one action: skip branch, sums, min/max, bucket search with clamp. `bm_print_stats(st)` holds the printed values: merge, per-op min sentinel replaced by 0, universal fold. |
| `ThreadLauncher` | `launch_threads_and_stop_them`, `create_threads`, `await_threads`, `common_run` | Launcher pc `lpc`, loop indices `nextTid` and `joinIdx`, flags `go` and `stop`, and thread states `tstate`. One action per loop iteration or statement group. The thread function is abstract: `RunFun` returns only after stop. |
| `LauncherReuse` | Consecutive calls of `launch_threads_and_stop_them` in one process | Composes `ThreadLauncher` (`INSTANCE`) with a call counter `calls`. `Relaunch` starts a later call: fresh threads, loop indices from 0, the caller's stop flag cleared, and `g_go` left as it was, because `RESET_START_SIGNAL` is only a load. |
| `RedisTarget` | bm_server_redis.h and client.c | Shared kernel state: `backlog` (connected, not yet accepted), `fdConn` (descriptor number to connection), per-client `inbox` (request bytes at the server) and `outbox` (replies, tagged with the client they answer). Per worker: `wpc`, the event snapshot `evs`, and the fd and request being answered (`cur`, `buf`). One action per system call: `EpollWait`/`EpollReturn`/`EpollTimeout`, `Accept` (lowest free descriptor), `ReadRequest`, `ReadFails` (count <= 0, then `close`), and `Respond`, which writes through `WriteReply`. The client's actions are `Connect` (retry until listening), `SendRequest`, `ReceiveReply` and `ConnectionLost`. `ProcessExit` is the end of main: destroy closes nothing, and the exit closes every socket. |
| `Bench` | One whole run | Composes ThreadLauncher (`INSTANCE`) and BmStats (`INSTANCE`) with main and the worker loop, both modelled from the spec. Worker pc `wpc`: reg, loop, noise, nop, dispatch, dereg, done. The noise is `bm_generate_noise_interruptible`: `CheckStop` chooses the nop count, `NoiseCheck` is the loop condition `i < nop_count && !stop()`, and `Nop` is one nop. The history variable `lateNops` counts the nops run while the stop flag was set. `Deregister` is the worker's own exit, with no stop guard, so the refinement to the launcher's abstract `RunFun` is a real check. |
| `Params` | `bm_params_extract` and its helpers | Variables `argv` (chosen in Init: a right or short count of abstract arguments), `fields`, `op_dist`, `op_dist_len`, loop index `i`, `pc`, `ret`, `oob`. Actions: `CountMismatch`, `ExtractInit` (malloc, then `_bm_params_init` run with the caller's old `op_dist_len`, then the length set), one action per kind of argument the loop meets (`MatchFixed`, `MatchOp`, `MatchOpOutOfRange`, `MatchNone`), and `ExtractEnd` (`_bm_are_params_set`). An argument is the option it matches and the value `strtoul` gives. |
| `MC*` | TLC instances | Constants and the reference checks. `MCOperators` enumerates inputs of the pure helpers: math argument pairs, weight vectors, `random_next_int64` and `random_thread_safe_get_next` arguments on 6-bit words, timespecs, shuffle lengths, and counts and duration bounds for the throughput. |

Abstractions: durations are a small set of cycle counts; a dispatch outcome is
an `(op_count, succ_count)` record from a set; `UINT64_MAX` is modelled only
as a sentinel above every duration (2147483647 in the MC modules, because
TLC's integers are 32-bit). The 1.1 growth factor of the bucket bounds is
computed as `max + ((max-min+1)*11) div 10`. For all 60 buckets of the code
this equals the truncated double computation (first bound 99, last 293990).
`MCBmStats` checks with an `ASSUME` that the 60 bounds strictly increase.

## Runs

| Run | Expect | Shows |
|---|---|---|
| `bmstats` | pass | Three threads, one operation, 60 buckets, durations 99/100/293990/293991, two calls per slot. Under every interleaving, the lowest and highest non-empty merged buckets hold the merged min and max. For bm_empty outcomes (1,1), the histogram sum equals count. |
| `launcher` | pass | Two consecutive launches of four threads (`MCLauncherReuse`). In the first launch no thread passes `g_go` while another is still uncreated. Each call returns only after all of its threads ran to the end, and every call returns. |
| `launcher_createfail` | violation | `pthread_create` may fail. Its result is ignored, so the launcher returns and the run goes on with a thread that never ran. |
| `launcher_reuse_barrier` | violation | In the second launch, `g_go` is still true, so a thread enters its function while its siblings are still to be created. |
| `operators` | pass | Nine checks on pure operators. All argument pairs in 1..70: round-up and round-down to a power of two, `v_log2`, `V_MOD_POWER_OF_TWO`, `VCEIL_DIV` and `v_least_containing_multiple` satisfy their defining properties. For every weight vector of three operations summing to 100 (5151 vectors), `random_next_int(1,100)` yields exactly 1..100 and operation i is chosen by exactly `w[i]` draws. With 6-bit words and alignments 0..3, `random_next_int64` returns exactly the aligned values of `[min, max]` whenever `min` is aligned. For timespecs up to two seconds apart with `tv_nsec` at the edges of a microsecond and a second, `calc_spent_time` is within one microsecond of `calc_spent_time_nano` and never decreases for a later finish. For arrays of length 1 to 5, `deterministic_random_shuffle` yields exactly the permutations that are a single cycle, so it is Sattolo's algorithm, not a uniform shuffle (see Findings). With 6-bit words, `random_thread_safe_get_next` returns exactly `[min, max]` for every pair its asserts accept (`ThreadSafeDrawInRange`). The pair the asserts exclude breaks this: a `max` of INT32_MAX or more leaves values above RAND_MAX + `min` unreachable, and `max` = UINT32_MAX with `min` = 0 divides by 0. For counts 0..2, tick factors 1..2 and every pair of duration bounds 0..2 with min <= max, the throughput bounds are ordered, inf included (`ThroughputBoundsOrdered`). The one exception is a report that counted nothing over a zero shortest duration: there `throughput_max` is nan. |
| `bench` | pass | Two workers, weights 50/50, two iterations each. The run implements `ThreadLauncher!Spec` under the refinement in which `run_fun` is the dispatch loop. Each iteration runs two nops of interruptible noise. It always completes, and the printed report equals the merge of the final slots. After the stop flag, each worker runs at most one nop (`NoiseStopsPromptly`). |
| `bench_min` | violation | If no operation is recorded, the report prints `univ_min = UINT64_MAX` while each operation's min is printed as 0. |
| `params` | pass | One operation, every argument list of 4 or 5 arguments from {each option =1, `-t=2`, `-op0=`, `-op1=`, unmatched}. The caller's `op_dist_len` is 0 or 1; heap garbage is 7 or `PARAM_VAL_NONE`; asserts are on. An accepted command line holds the last given value of each fixed option. |
| `params_opdist` | violation | A zeroed `bm_params_t` (`op_dist_len` = 0) and a command line without `-op0=` are accepted. `op_dist[0]` is whatever malloc returned (bm_params.h:174-177). |
| `redis` | pass | One worker, two clients, descriptors 5 and 6 (3 is `g_socket` and 4 `g_epoll_fd`). Every request is answered, however long the run lasts before the stop flag. |
| `redis_2w` | pass | Two workers, two clients and one descriptor, so accept also fails with EMFILE and the level-triggered listening socket keeps waking the workers. Even with the races of the shared epoll, every worker leaves its loop after the stop flag (the `epoll_wait` timeout brings it back to the loop head). Every connected client leaves its loop once the process exits. |
| `redis_race` | violation | Two workers. A reply reaches a client that did not send the request it answers (the trace is under Findings). |

Bounds. Two clients and two descriptors let a closed descriptor be handed
to the other client; `redis_2w` gives the two clients one descriptor, so
the descriptor table fills and accept fails while a connection waits. Two workers are the fewest that can be woken for the
same descriptor. Requests are abstracted to SET and GET, the only commands
client.c sends. Two iterations per worker and two calls per slot are enough for a
min/max to be overwritten and for interleaved writes from different threads to
reach the merge. Four launcher threads let creates, go-releases, exits and
joins interleave in every relative order. Durations sit on both sides of the
first bound and of the last bound, so the `<=` test and the clamp are both
exercised. In `bench`, two nops of noise are the fewest for which a noise loop
without the stop check would run more than one nop after the stop; `bench`
uses one duration, since the bucket search is checked by `bmstats`, which
keeps the state space within a minute. For the throughput, counts and
durations 0..2 include the zero divisor and the zero numerator, and the
pairs min < max that a swapped divisor would misorder. Six-bit words for
`random_thread_safe_get_next` put all three regions within 64 values: ranges
that fit RAND_MAX + 1, a `max` above INT32_MAX, and the wrap to 0.

Fairness. The launcher's steps are weakly fair: `sleep(wait_in_seconds)` is
finite and the join loop proceeds when its thread has exited. Each live thread
is weakly fair, because the OS schedules runnable threads. A worker's dispatch
returns in bounded time: bm_empty runs a fixed number of nops, and
bm_server_redis waits at most `TIMEOUT_MS` in `epoll_wait`. In `RedisTarget`, every worker and client is weakly fair, and so is the
process exit once all workers are done. The stop flag has no fairness: the
launcher's sleep may be of any length. So the redis properties that need
the stop say so (`WorkersStop`, `ClientsTerminate`), and `RequestAnswered`
holds whether the stop ever comes or not. A worker with nothing ready
returns through `EpollTimeout` after `TIMEOUT_MS`. The redis runs do not
check deadlock: after the exit, a client still retrying `redisConnect`
retries for ever, and the others have left their loops. The `bmstats` run
is a passive data structure with no liveness claim, and it stops at its call
bound, so it does not check deadlock. The `params` runs model one call that
returns, so their final states are not deadlocks either.

## Findings

1. `thread_launcher.h:95`: the result of `pthread_create` is ignored, and `await_threads` then joins an unset handle. A run can report with fewer workers than `-t` asks for (`launcher_createfail`).
2. `bm_stats.h:223`: `univ_min` is folded before line 239 replaces the sentinel. A run that records nothing prints `univ_min = 18446744073709551615` and `min = 0` (`bench_min`).
3. `thread_launcher.h:31`: `RESET_START_SIGNAL` is an atomic load, not a store of false, and no launcher calls it. Every launch after the first in a process has no start barrier (`launcher_reuse_barrier`). The harness main launches once.
4. `bm_server_redis.h:229`: a worker woken by the shared level-triggered epoll for a descriptor another worker has already read gets EAGAIN and closes it. accept can then hand the number to a new client, and the first worker's reply goes to that client (`redis_race`). The shortest trace has 16 states: client 2 receives the `+OK` of client 1's SET. The same race closes live connections, which ends the client's run. No passing run states that live connections stay open: with one worker a read fails only on a closed peer, so such a property could not fail.
5. `bm_params.h:176`: `_bm_params_init` runs before `op_dist_len` is set, so `op_dist` keeps malloc garbage and a missing `-op<i>=` goes undetected (`params_opdist`).

Passing runs also pin down two behaviours worth knowing. `bm_stats.h:277`:
a run that counted no operation and lasted under a millisecond (`-d=0` is
accepted) prints `throughput_max = nan`. Spec section 8 says
`throughput_min <= throughput_max` for every valid duration pair, and for nan
that comparison is false. `ThroughputBoundsOrdered` states the exception
exactly, and its mutant (the divisors swapped) is caught.

The second behaviour: `rand.h:308`:
`deterministic_random_shuffle` draws the swap index in `[0, i - 1]`. This is
Sattolo's algorithm. It returns only permutations that form a single cycle,
so no element stays in place. The `operators` run checks this for lengths 1
to 5 (`ShuffleIsSingleCycle`). Nothing in the repository calls it. A test
that takes it for a uniform shuffle would never see the identity order or
any order with a fixed point.

## Not modelled, and why

- **Timing** (`time.h`): reading the cycle counter and the clock, the sleep of `calc_ticks_in_ms`, and `getrusage` are I/O. Durations are inputs. Only the two conversions are modelled (`Time`).
- **The run's durations**: the harness main (not under src/) measures the four duration bounds and passes them to `bm_stat_add_spent_time`. `BmThroughput` takes them as inputs; `Bench` keeps no durations of the run.
- **Lazy RNG seeding** (`rand.h:128`, `random_init_seed`): two workers can race through the check of the plain `g_rand_initialized` flag, and the second then fails the assert. This only happens if the harness main does not seed before the launch. That code is not under src/, and a violation run would need a thirteenth run. It is listed as a hazard.
- **Printing layout**: delimiters, names, `%.2f`. The report is modelled by its values.
- **`set_cpu_affinity`**: OS state only.
- **Noise loops** (`bm_helper.h`): the loop of `bm_generate_noise` runs only inside bm_empty's dispatch, which is one step of `Bench`. The return value of both generators is unused. Whether an iteration is counted as skipped is a free choice in `Bench`: the harness that decides it is not under src/.
- **Redis dispatch counts**: the `(op_count, succ_count)` a redis dispatch returns is not kept, and `bm_target_reg` only stores ids. A read that splits a command is not modelled either: the client's commands are far shorter than `MAX_BUFFER_LEN`, and loopback delivers each in one segment.
- **`launch_threads`**: it has no caller.
- **RNG string and array fillers** (`random_next_string`, `random_next_printable_string`, `random_gen_values`): no caller, and each only repeats `random_next_int`.
- **`random_next_int64` edges**: an unaligned `min` (the result can fall below `min`) and the full 64-bit range (division by zero). These are recorded as a hazard; the function has no caller.

## Plan for later sittings

1. `Params`: an argument whose value truncates to `PARAM_VAL_NONE`, which is given but reported missing. Also the absence of any check that the weights sum to 100. A violation run for this needs one of the 12 run slots, which are all in use.
2. A `RandInit` module for the lazy seeding race of `rand.h:128`, under a harness main that does or does not call `random_init` first. It needs a run slot.
3. Compose `RedisTarget` with the dispatch loop of `Bench`, so that the counts a redis dispatch returns reach the statistics.
4. `Params` with asserts off, or with a caller's stale `op_dist_len` above the operation count: both write outside `op_dist` (the `oob` flag), which would be a violation run.

------------------------------- MODULE BmStats -------------------------------
(***************************************************************************)
(* The statistics engine of src/bench/include/CSB/bm_stats.h.              *)
(*                                                                         *)
(* stats[t][op] is the bm_op_stat_t slot of thread t for operation op.     *)
(* bm_stat_init is the initial state, bm_stat_add_op the one operation     *)
(* that changes a slot, and bm_print_stats the report the engine derives   *)
(* from all slots.  The report's printing (names, delimiters, %.2f) is     *)
(* left out; its values are kept, including the UINT64_MAX sentinel.       *)
(***************************************************************************)
EXTENDS Naturals, FiniteSets, FiniteSetsExt, Functions, Math

CONSTANTS
    Threads,      \* thread ids: indices of stats->threads
    Ops,          \* operation ids 0..op_count-1
    NumBuckets,   \* STAT_MAX_NUM_BUCKETS (60 in the code)
    U64Max,       \* UINT64_MAX: only its role as a sentinel above every duration is modelled
    Durations,    \* the cycle-count durations a dispatch may take
    Outcomes,     \* the bm_op_res_t values the target's dispatch may return
    MaxCallsPerSlot \* bound on bm_stat_add_op calls per slot

ASSUME /\ NumBuckets \in Nat \ {0}
       /\ Durations \subseteq Nat
       /\ \A d \in Durations : d < U64Max
       /\ Outcomes \subseteq [op_count : Nat, succ_count : Nat]

Buckets == 0 .. NumBuckets - 1

(***************************************************************************)
(* The boundary loop of bm_stat_init: the pair <<min, max>> of bucket i.   *)
(* The code computes max + (max - min + 1) * 1.1 in double and truncates;  *)
(* for the 60 buckets of the code this equals the integer form below.      *)
(***************************************************************************)
\* A boundary loop that starts the next bucket after the new bound.
RECURSIVE BucketEdgesSkip(_, _, _)
BucketEdgesSkip(i, min, max) ==
    IF i = 0 THEN <<min, max>>
    ELSE LET nmax == max + ((max - min + 1) * 11) \div 10
         IN  BucketEdgesSkip(i - 1, nmax + 1, nmax)

RECURSIVE BucketEdges(_, _, _)
BucketEdges(i, min, max) ==
    IF i = 0 THEN <<min, max>>
    ELSE BucketEdges(i - 1, max + 1, max + ((max - min + 1) * 11) \div 10)

\* stats->op_time_ranges
op_time_ranges == [i \in Buckets |-> BucketEdges(i, 0, 99)[2]]

\* The search loop of bm_stat_add_op: first bucket whose bound is >= the
\* duration, clamped to the last bucket when the duration exceeds them all.
\* A search loop that tests duration < bound instead of <=.
BucketIdxStrict(duration) ==
    LET fits == {i \in Buckets : duration < op_time_ranges[i]}
    IN  IF fits = {} THEN NumBuckets - 1 ELSE Min(fits)

\* A search loop whose index runs one past the last bucket (no clamp).
BucketIdxNoClamp(duration) ==
    LET fits == {i \in Buckets : duration <= op_time_ranges[i]}
    IN  IF fits = {} THEN NumBuckets ELSE Min(fits)

BucketIdx(duration) ==
    LET fits == {i \in Buckets : duration <= op_time_ranges[i]}
    IN  IF fits = {} THEN NumBuckets - 1 ELSE Min(fits)

\* An init that zeroes the slots and omits the UINT64_MAX min.
ZeroOpStatMinZero ==
    [succ_count |-> 0, count |-> 0, skipped_count |-> 0, sum |-> 0,
     min |-> 0, max |-> 0, histogram_data |-> [i \in Buckets |-> 0]]

ZeroOpStat ==
    [succ_count |-> 0, count |-> 0, skipped_count |-> 0, sum |-> 0,
     min |-> U64Max, max |-> 0, histogram_data |-> [i \in Buckets |-> 0]]

bm_stat_init == [t \in Threads |-> [op \in Ops |-> ZeroOpStat]]

\* bm_stat_add_op applied to one slot s.
AddToSlot(s, result, duration, skipped) ==
    IF skipped
    THEN [s EXCEPT !.skipped_count = @ + 1]
    ELSE LET idx == BucketIdx(duration)
         IN  [s EXCEPT !.succ_count = @ + result.succ_count,
                       !.sum = @ + duration,
                       !.count = @ + result.op_count,
                       !.max = VMAX(@, duration),
                       !.min = VMIN(@, duration),
                       !.histogram_data =
                           [i \in Buckets |-> @[i] + (IF i = idx THEN 1 ELSE 0)]]

\* Calls made on a slot so far: one histogram cell or one skip per call.
Calls(s) == SumFunction(s.histogram_data) + s.skipped_count

(***************************************************************************)
(* bm_print_stats: the per-operation merge across threads, then the        *)
(* universal totals.  A per-operation min still at the sentinel is printed *)
(* as 0; univ_min is folded from the per-operation minima before that      *)
(* overwrite, as the code does.                                            *)
(***************************************************************************)
MergeOp(st, op) ==
    LET f(field) == [t \in Threads |-> st[t][op][field]]
    IN  [max |-> FoldFunction(VMAX, 0, f("max")),
         min |-> FoldFunction(VMIN, U64Max, f("min")),
         sum |-> SumFunction(f("sum")),
         count |-> SumFunction(f("count")),
         succ_count |-> SumFunction(f("succ_count")),
         skipped_count |-> SumFunction(f("skipped_count")),
         histogram_data |->
            [i \in Buckets |-> SumFunction([t \in Threads |-> st[t][op].histogram_data[i]])]]

bm_print_stats(st) ==
    LET m == [op \in Ops |-> MergeOp(st, op)]
        u(field) == [op \in Ops |-> m[op][field]]
    IN  [ops |-> [op \in Ops |-> [m[op] EXCEPT !.min = IF @ = U64Max THEN 0 ELSE @]],
         univ_max |-> FoldFunction(VMAX, 0, u("max")),
         univ_min |-> FoldFunction(VMIN, U64Max, u("min")),
         univ_sum |-> SumFunction(u("sum")),
         univ_count |-> SumFunction(u("count")),
         univ_succ_count |-> SumFunction(u("succ_count")),
         univ_skipped_count |-> SumFunction(u("skipped_count"))]

-----------------------------------------------------------------------------
(***************************************************************************)
(* The engine on its own: any thread records any call into its own slot,   *)
(* in any order; the report may be derived from any of the states reached. *)
(***************************************************************************)
VARIABLE stats

Init == stats = bm_stat_init

bm_stat_add_op(t, op, result, duration, skipped) ==
    /\ Calls(stats[t][op]) < MaxCallsPerSlot
    /\ stats' = [stats EXCEPT ![t][op] = AddToSlot(@, result, duration, skipped)]

Next ==
    \E t \in Threads, op \in Ops, r \in Outcomes, d \in Durations, sk \in BOOLEAN :
        bm_stat_add_op(t, op, r, d, sk)

Spec == Init /\ [][Next]_stats

-----------------------------------------------------------------------------
\* min is the sentinel or a measured duration, max 0 or a measured one.
OpStatType ==
    [succ_count : Nat, count : Nat, skipped_count : Nat, sum : Nat,
     min : Durations \cup {U64Max}, max : Durations \cup {0},
     histogram_data : [Buckets -> Nat]]

TypeOK == stats \in [Threads -> [Ops -> OpStatType]]

\* The bounds the boundary loop of bm_stat_init computes (in double, then
\* truncated) strictly increase, so every bucket covers a non-empty range of
\* durations and the search of bm_stat_add_op can reach each of them.
BucketBoundsIncrease ==
    \A i \in 1 .. NumBuckets - 1 : op_time_ranges[i - 1] < op_time_ranges[i]

InBucket(d, i) ==
    /\ i > 0 => op_time_ranges[i - 1] < d
    /\ i < NumBuckets - 1 => d <= op_time_ranges[i]

\* In every merged report, the lowest non-empty histogram bucket is the one
\* holding the reported min and the highest non-empty bucket the one holding
\* the reported max: the bucket search, the clamp and the min/max updates of
\* bm_stat_add_op, and their merge in bm_print_stats, agree with each other.
HistogramBracketsMinMax ==
    LET rep == bm_print_stats(stats)
    IN  \A op \in Ops :
          LET h == rep.ops[op].histogram_data
              used == {i \in Buckets : h[i] > 0}
          IN  used # {} =>
                /\ InBucket(rep.ops[op].min, Min(used))
                /\ InBucket(rep.ops[op].max, Max(used))

\* For a target whose every dispatch is one attempted operation (bm_empty),
\* the merged histogram of an operation sums to its reported count (spec
\* section 8, end-to-end property).
HistogramMatchesCount ==
    LET rep == bm_print_stats(stats)
    IN  \A op \in Ops : SumFunction(rep.ops[op].histogram_data) = rep.ops[op].count
=============================================================================

------------------------------ MODULE BmThroughput ------------------------------
(***************************************************************************)
(* The run's duration bounds and the four throughput figures of            *)
(* src/bench/include/CSB/bm_stats.h: bm_stat_add_spent_time stores the     *)
(* bounds, and the end of bm_print_stats divides the universal count by    *)
(* them.                                                                   *)
(*                                                                         *)
(* The divisions are in double with no zero guard.  A double is a tagged   *)
(* record: a finite non-negative quotient n / d, inf, or nan.  Rounding    *)
(* is left out: the numerators are the same in both figures of a pair and *)
(* IEEE division is monotone in the divisor, so rounding cannot reorder    *)
(* them.                                                                   *)
(***************************************************************************)
EXTENDS Naturals

Finite(n, d) == [kind |-> "num", n |-> n, d |-> d]
Inf == [kind |-> "inf", n |-> 0, d |-> 1]
NaN == [kind |-> "nan", n |-> 0, d |-> 1]

\* x / y in double for non-negative x and y: 0/0 is nan and x/0 is inf.
DoubleDiv(x, y) ==
    IF y # 0 THEN Finite(x, y) ELSE IF x = 0 THEN NaN ELSE Inf

\* a <= b in IEEE order: false whenever either side is nan.
DoubleLeq(a, b) ==
    /\ a.kind # "nan" /\ b.kind # "nan"
    /\ \/ b.kind = "inf"
       \/ a.kind = "num" /\ b.kind = "num" /\ a.n * b.d <= b.n * a.d

\* The four fields bm_stat_add_spent_time writes.
bm_stat_add_spent_time(min_duration_clk, max_duration_clk, min_duration_ms, max_duration_ms) ==
    [min_duration_clk |-> min_duration_clk, max_duration_clk |-> max_duration_clk,
     min_duration_ms |-> min_duration_ms, max_duration_ms |-> max_duration_ms]

\* A throughput whose upper bound divides by the longest wall-clock
\* duration and whose lower bound by the shortest.
bm_throughput_swapped(univ_count, ticks_to_ms, s) ==
    [throughput_max |-> DoubleDiv(univ_count * 1000, s.max_duration_ms),
     throughput_min |-> DoubleDiv(univ_count * 1000, s.min_duration_ms),
     throughput_min_ts |-> DoubleDiv(univ_count * 1000 * ticks_to_ms, s.max_duration_clk),
     throughput_max_ts |-> DoubleDiv(univ_count * 1000 * ticks_to_ms, s.min_duration_clk)]

\* The operations per second over the shortest and the longest duration,
\* by wall clock and by cycle counter (ticks_to_ms from calc_ticks_in_ms).
bm_throughput(univ_count, ticks_to_ms, s) ==
    [throughput_max |-> DoubleDiv(univ_count * 1000, s.min_duration_ms),
     throughput_min |-> DoubleDiv(univ_count * 1000, s.max_duration_ms),
     throughput_min_ts |-> DoubleDiv(univ_count * 1000 * ticks_to_ms, s.max_duration_clk),
     throughput_max_ts |-> DoubleDiv(univ_count * 1000 * ticks_to_ms, s.min_duration_clk)]
=============================================================================

------------------------------ MODULE MCOperators ------------------------------
(***************************************************************************)
(* The pure helpers of math.h and rand.h checked against reference         *)
(* definitions.  Each initial state is one input: an argument pair of the  *)
(* math helpers, a weight vector of random_with_probability, the           *)
(* arguments of random_next_int64 with uint64_t scaled to Width bits, or   *)
(* three timespecs for the conversions of time.h, the length of an array  *)
(* for deterministic_random_shuffle, the arguments of                      *)
(* random_thread_safe_get_next with uint32_t scaled to Width bits, or a    *)
(* count and duration bounds of the throughput figures of bm_stats.h.      *)
(***************************************************************************)
EXTENDS Rand, Time, BmThroughput, TLC

CONSTANTS
    MaxArg,   \* math arguments range over 1 .. MaxArg
    NumOps,   \* length of the weight vectors
    Width,    \* bits of the scaled uint64_t
    MaxAlign, \* alignments range over 0 .. MaxAlign
    MaxLen,   \* shuffled arrays have lengths 1 .. MaxLen
    MaxCount  \* counts and durations of the throughput range over 0 .. MaxCount

VARIABLE input

U == 2^Width

SumSeq(s) == LET f[i \in 0 .. Len(s)] == IF i = 0 THEN 0 ELSE f[i - 1] + s[i]
             IN  f[Len(s)]

\* Weight vectors summing to exactly 100, the precondition of the selection.
WeightVectors == {w \in [1 .. NumOps -> 0 .. 100] : SumSeq(w) = 100}

\* Arguments with max >= min (the first assert) and a range below the full
\* width, for which (max - min) + 1 is not 0.
Int64Args ==
    {a \in [min : 0 .. U - 1, max : 0 .. U - 1, align : 0 .. MaxAlign] :
        a.max >= a.min /\ a.max - a.min + 1 < U}

\* Timespecs one or two seconds apart, with tv_nsec at the edges of a
\* microsecond and of a second (seconds beyond keep the nanoseconds within
\* TLC's 32-bit integers).
NsecEdges == {0, 1, 999, 1000, 999999000, 999999999}
Stamps == [sec : 0 .. 1, nsec : NsecEdges]
Later(a, b) == a.sec < b.sec \/ (a.sec = b.sec /\ a.nsec <= b.nsec)

\* The array 0, 1, ..., n - 1 (arr[i] = i).
Identity(n) == [i \in 1 .. n |-> i - 1]

\* Following i -> arr[i] k times from x.
RECURSIVE Follow(_, _, _)
Follow(arr, x, k) == IF k = 0 THEN x ELSE Follow(arr, arr[x + 1], k - 1)

\* The permutations of 0 .. n - 1 that are one cycle through all n indices.
Cycles(n) ==
    {p \in [1 .. n -> 0 .. n - 1] :
        /\ {p[i] : i \in 1 .. n} = 0 .. n - 1
        /\ \A k \in 1 .. n - 1 : Follow(p, 0, k) # 0}

\* Duration bounds as the harness main passes them to bm_stat_add_spent_time:
\* the minimum and maximum over the threads, so min <= max; 0 is a run
\* shorter than a millisecond (or a cycle-count difference of 0).
SpentTimes ==
    {bm_stat_add_spent_time(a, b, c, d) :
        a \in 0 .. MaxCount, b \in 0 .. MaxCount, c \in 0 .. MaxCount, d \in 0 .. MaxCount}
ValidSpentTimes ==
    {s \in SpentTimes : s.min_duration_clk <= s.max_duration_clk /\ s.min_duration_ms <= s.max_duration_ms}

Inputs ==
    [kind : {"math"}, x : 1 .. MaxArg, y : 1 .. MaxArg]
    \cup [kind : {"rand"}, weights : WeightVectors]
    \cup {[kind |-> "int64"] @@ a : a \in Int64Args}
    \cup {t \in [kind : {"time"}, start : Stamps, finish : Stamps, later : Stamps] :
            Later(t.start, t.finish) /\ Later(t.finish, t.later)}
    \cup [kind : {"shuffle"}, len : 1 .. MaxLen]
    \cup [kind : {"tsget"}, min : 0 .. U - 1, max : 0 .. U - 1]
    \cup [kind : {"tput"}, count : 0 .. MaxCount, ticks : 1 .. MaxCount, spent : ValidSpentTimes]

Init == input \in Inputs

Next == UNCHANGED input

Spec == Init /\ [][Next]_input

IsPow2(p) == \E k \in 0 .. 30 : p = 2^k

\* v_pow2_round_up is the least power of two >= v (used by _random of
\* rand.h to cover the range), v_pow2_round_down the greatest power of two
\* <= v, and v_log2 the exponent of the latter: the clz arithmetic of
\* math.h is off by no bit.
Pow2RoundingCorrect ==
    input.kind = "math" =>
        LET x == input.x IN
        /\ IsPow2(v_pow2_round_up(x))
        /\ v_pow2_round_up(x) >= x
        /\ v_pow2_round_up(x) < 2 * x
        /\ IsPow2(v_pow2_round_down(x))
        /\ v_pow2_round_down(x) <= x
        /\ x < 2 * v_pow2_round_down(x)
        /\ 2^v_log2(x) = v_pow2_round_down(x)

\* V_MOD_POWER_OF_TWO takes the bit mask only when the divisor is a power
\* of two, and so computes num % pot for every divisor.
ModPowerOfTwoCorrect ==
    input.kind = "math" => V_MOD_POWER_OF_TWO(input.x, input.y) = input.x % input.y

\* VCEIL_DIV(x, y) is the least q with q * y >= x, and
\* v_least_containing_multiple(x, y) the least multiple of y >= x.
CeilingCorrect ==
    input.kind = "math" =>
        LET x == input.x
            y == input.y
        IN  /\ VCEIL_DIV(x, y) * y >= x
            /\ (VCEIL_DIV(x, y) - 1) * y < x
            /\ v_least_containing_multiple(x, y) = VCEIL_DIV(x, y) * y

\* random_next_int(1, 100) can return every value of 1..100 and no other,
\* and with weights summing to 100 exactly probabilities[i] of the 100
\* equally likely draws select operation i, and no draw reaches the
\* unreachable assert (rand.h comment: "~ 20% 0, ~ 20% 1, ~ 60% 2").
SelectionMatchesWeights ==
    input.kind = "rand" =>
        LET weights == input.weights IN
        /\ Draws = 1 .. 100
        /\ \A r \in Draws : Reaches(weights, r, 0, 0)
        /\ \A i \in 1 .. NumOps :
              Cardinality({r \in Draws : random_with_probability(weights, r) = i - 1})
                  = weights[i]

\* For a min that is a multiple of 2^alignment, random_next_int64 returns
\* exactly the multiples of 2^alignment in [min, max]: the asserts of
\* rand.h:187-188 hold and every aligned value can come up.
Int64AlignedInRange ==
    (input.kind = "int64" /\ input.min % 2^input.align = 0) =>
        random_next_int64(input.min, input.max, input.align, U)
            = {v \in input.min .. input.max : v % 2^input.align = 0}

\* The spent time in microseconds (calc_spent_time) is within one
\* microsecond of the nanoseconds calc_spent_time_nano measures, also when
\* the finish's tv_nsec is below the start's and the negative difference
\* is truncated toward zero; and a later finish never reports less time.
SpentTimeConsistent ==
    input.kind = "time" =>
        LET us == calc_spent_time(input.start, input.finish)
            ns == calc_spent_time_nano(input.start, input.finish)
        IN  /\ ns - 1000 < us * 1000 /\ us * 1000 < ns + 1000
            /\ us <= calc_spent_time(input.start, input.later)

\* deterministic_random_shuffle, drawing index in [0, i - 1], returns
\* exactly the permutations that are a single cycle (Sattolo's algorithm):
\* it never leaves an element in place, so the identity and every
\* permutation with a fixed point are unreachable.  There are (n - 1)! such
\* cycles and (n - 1)! sequences of draws, so each comes from exactly one.
ShuffleIsSingleCycle ==
    input.kind = "shuffle" =>
        deterministic_random_shuffle(Identity(input.len)) = Cycles(input.len)

\* random_thread_safe_get_next(min, max), the nop count of the random noise,
\* returns exactly the values of [min, max] for every pair its asserts
\* accept: the divisor max - min + 1 neither wraps to 0 nor exceeds the
\* RAND_MAX + 1 values rand_r can return (rand.h:104).
ThreadSafeDrawInRange ==
    (input.kind = "tsget" /\ ThreadSafeAsserts(input.min, input.max, U)) =>
        ThreadSafeGetNext(input.min, input.max, U) = input.min .. input.max

\* The throughput bounds bm_print_stats prints are ordered (spec section 8:
\* throughput_min <= throughput_max for min_duration <= max_duration), by
\* wall clock and by cycle counter, a zero duration (inf) included.  The one
\* exception: nothing counted over a zero shortest duration divides 0 by 0,
\* and the upper bound is nan.
ThroughputBoundsOrdered ==
    input.kind = "tput" =>
        LET c == input.count
            s == input.spent
            f == bm_throughput(c, input.ticks, s)
            Ordered(lo, hi, num, shortest) ==
                IF num = 0 /\ shortest = 0 THEN hi = NaN ELSE DoubleLeq(lo, hi)
        IN  /\ Ordered(f.throughput_min, f.throughput_max, c * 1000, s.min_duration_ms)
            /\ Ordered(f.throughput_min_ts, f.throughput_max_ts,
                       c * 1000 * input.ticks, s.min_duration_clk)
=============================================================================

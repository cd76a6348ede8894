--------------------------------- MODULE Rand ---------------------------------
(***************************************************************************)
(* random_with_probability of src/bench/include/CSB/rand.h: the operation *)
(* selection of the dispatch loop, with the draw random_next_int(1, 100)   *)
(* as the set of values it can return.  The running sum start +            *)
(* probabilities[i] is a uint32_t; it cannot wrap for weights summing to   *)
(* at most 100, the only inputs modelled, so it is kept as a natural       *)
(* number (TLC's integers are 32-bit signed and cannot hold 2^32).         *)
(***************************************************************************)
EXTENDS Integers, Sequences, FiniteSets, Math

\* The values _random(range) returns: random_rand() modulo the power of two
\* that covers range, drawn again until it falls below range.  rand() is
\* abstracted to any value, so every residue can come up.
RandomValues(range) == {r \in 0 .. v_pow2_round_up(range) - 1 : r < range}

\* The values random_next_int(min, max) returns.
random_next_int(min, max) == {x + min : x \in RandomValues(max - min + 1)}

(***************************************************************************)
(* random_thread_safe_get_next(min, max) in uint32_t arithmetic with the   *)
(* word's modulus U as a parameter (2^32, or 2^w for a scaled check, with  *)
(* INT32_MAX = RAND_MAX = U / 2 - 1).  rand_r returns 0 .. RAND_MAX, so    *)
(* the r < 0 branch is dead.  A call that fails an assert returns          *)
(* ThreadSafeAssertFails; one whose divisor wraps to 0 traps (SIGFPE).     *)
(***************************************************************************)
ThreadSafeAssertFails == -1
ThreadSafeDivTrap == -2

\* The values random_thread_safe_rand (rand_r) returns.
ThreadSafeRand(U) == 0 .. U \div 2 - 1

\* Asserts that check min <= max only.
ThreadSafeAssertsMinOnly(min, max, U) == min <= max

\* assert(min <= max); assert(max < INT32_MAX).
ThreadSafeAsserts(min, max, U) == min <= max /\ max < U \div 2 - 1

ThreadSafeGetNext(min, max, U) ==
    LET range == (max - min + 1) % U
    IN  IF ~ThreadSafeAsserts(min, max, U) THEN {ThreadSafeAssertFails}
        ELSE IF range = 0 THEN {ThreadSafeDivTrap}
        ELSE {((r % range) + min) % U : r \in ThreadSafeRand(U)}

\* The values random_thread_safe_get_next(min, max) returns for the
\* arguments its asserts accept, as ThreadSafeDrawInRange checks.
random_thread_safe_get_next(min, max) == min .. max

\* The draw r = random_next_int(1, 100) of random_with_probability.
Draws == random_next_int(1, 100)

(***************************************************************************)
(* The loop: index i (0-based) is returned for the first i with            *)
(* start < r <= start + probabilities[i].  Falling out of the loop hits    *)
(* assert(0), which a release build compiles away, returning 0.            *)
(***************************************************************************)
\* A loop that tests r < start + p instead of r <= start + p.
RECURSIVE SelectFromUpperOpen(_, _, _, _)
SelectFromUpperOpen(probabilities, r, i, start) ==
    IF i = Len(probabilities) THEN 0
    ELSE LET p == probabilities[i + 1]
         IN  IF r > start /\ r < start + p
             THEN i
             ELSE SelectFromUpperOpen(probabilities, r, i + 1, start + p)

RECURSIVE SelectFrom(_, _, _, _)
SelectFrom(probabilities, r, i, start) ==
    IF i = Len(probabilities) THEN 0
    ELSE LET p == probabilities[i + 1]
         IN  IF r > start /\ r <= start + p
             THEN i
             ELSE SelectFrom(probabilities, r, i + 1, start + p)

random_with_probability(probabilities, r) == SelectFrom(probabilities, r, 0, 0)

\* Whether the loop returns from inside (the assert is not reached).
RECURSIVE Reaches(_, _, _, _)
Reaches(probabilities, r, i, start) ==
    /\ i < Len(probabilities)
    /\ LET p == probabilities[i + 1]
       IN  \/ r > start /\ r <= start + p
           \/ Reaches(probabilities, r, i + 1, start + p)


(***************************************************************************)
(* random_next_int64(min, max, alignment) with the modulus U of uint64_t   *)
(* as a parameter (2^64, or 2^w for a scaled check).  The two random_rand  *)
(* calls cover every value of the combined word, so x % range + min takes  *)
(* every value of min .. max; the mask then clears the low alignment bits  *)
(* (1 << alignment is an int, defined for alignment < 31).                 *)
(***************************************************************************)
\* A mask written ~(1 << alignment): it clears one bit only.
ClearBitOnly(v, a) == IF (v \div 2^a) % 2 = 1 THEN v - 2^a ELSE v

\* v & ~((1 << a) - 1)
ClearLowBits(v, a) == v - (v % 2^a)

\* (max - min) + 1 in uint64_t arithmetic: 0 for the full range.
Int64Range(min, max, U) == ((max - min) + 1) % U

random_next_int64(min, max, alignment, U) ==
    {ClearLowBits((x % Int64Range(min, max, U)) + min, alignment) : x \in 0 .. U - 1}

(***************************************************************************)
(* The deterministic generator for tests: deterministic_random is _random *)
(* over rand(), and the shuffle swaps arr[i] with arr[index] for i from 1, *)
(* index drawn by deterministic_random_next_int(0, i - 1).  An array is a  *)
(* sequence; C index i is position i + 1.                                   *)
(***************************************************************************)
deterministic_random(range) == RandomValues(range)

deterministic_random_next_int(min, max) ==
    {x + min : x \in deterministic_random(max - min + 1)}

\* arr with the elements at C indices i and j exchanged.
SwapAt(arr, i, j) == [arr EXCEPT ![i + 1] = arr[j + 1], ![j + 1] = arr[i + 1]]

\* A shuffle that draws index in 0 .. i, as the Fisher-Yates shuffle does.
RECURSIVE ShuffleFromInclusive(_, _)
ShuffleFromInclusive(arr, i) ==
    IF i >= Len(arr) THEN {arr}
    ELSE UNION {ShuffleFromInclusive(SwapAt(arr, i, index), i + 1) :
                    index \in deterministic_random_next_int(0, i)}

\* The arrays the loop can leave from index i on, one per sequence of draws.
RECURSIVE ShuffleFrom(_, _)
ShuffleFrom(arr, i) ==
    IF i >= Len(arr) THEN {arr}
    ELSE UNION {ShuffleFrom(SwapAt(arr, i, index), i + 1) :
                    index \in deterministic_random_next_int(0, i - 1)}

deterministic_random_shuffle(arr) == ShuffleFrom(arr, 1)
=============================================================================

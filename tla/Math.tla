--------------------------------- MODULE Math ---------------------------------
(***************************************************************************)
(* The integer helpers of src/bench/include/CSB/math.h, as operators on    *)
(* naturals.  __builtin_clz(x) of a uint32_t is 32 - BitLength(x); only    *)
(* arguments for which the code's shifts stay below 32 are in reach of     *)
(* TLC's 32-bit integers (v_pow2_round_up of v > 2^31 shifts 1U by 32,     *)
(* which is undefined in C).                                               *)
(***************************************************************************)
EXTENDS Naturals, Bitwise

\* The number of significant bits of x: 32 - __builtin_clz(x) for x > 0.
RECURSIVE BitLength(_)
BitLength(x) == IF x = 0 THEN 0 ELSE 1 + BitLength(x \div 2)

v_log2(v) == BitLength(v) - 1

\* A round-up that counts the bits of v instead of v - 1.
v_pow2_round_up_clz_v(v) == IF v = 1 THEN 1 ELSE 2^BitLength(v)

v_pow2_round_up(v) == IF v = 1 THEN 1 ELSE 2^BitLength(v - 1)

v_pow2_round_down(v) == 2^(BitLength(v) - 1)

V_IS_POWER_OF_TWO(num) == num # 0 /\ (num & (num - 1)) = 0

\* A modulo that takes the mask of every divisor.
V_MOD_MASK_ALWAYS(num, pot) == num & (pot - 1)

V_MOD_POWER_OF_TWO(num, pot) ==
    IF V_IS_POWER_OF_TWO(pot) THEN num & (pot - 1) ELSE num % pot

VMIN(a, b) == IF a < b THEN a ELSE b
VMAX(a, b) == IF a > b THEN a ELSE b

VIN_RANGE(lb, v, ub) == lb <= v /\ v <= ub

VCEIL_DIV(x, y) == IF x % y = 0 THEN x \div y ELSE (x \div y) + 1

\* A rounding that adds the dividend instead of dividend - 1.
v_least_containing_multiple_plus(divisor, dividend) ==
    ((divisor + dividend) \div dividend) * dividend

v_least_containing_multiple(divisor, dividend) ==
    ((divisor + (dividend - 1)) \div dividend) * dividend
=============================================================================

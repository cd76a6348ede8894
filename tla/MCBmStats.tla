------------------------------ MODULE MCBmStats ------------------------------
(* Instantiates BmStats for TLC: three threads sharing one operation, the  *)
(* 60 buckets of the code, and durations on both sides of the first and    *)
(* the last bucket bound (99 | 100, 293990 | 293991, which is clamped).    *)
EXTENDS BmStats, BmEmpty

\* The 60 bounds the boundary loop of bm_stat_init computes are strictly
\* increasing (spec section 8); a property of the constants, checked once.
ASSUME BucketBoundsIncrease

MCThreads == {0, 1, 2}
MCOps == 0 .. bm_target_op_count - 1
MCDurations == {99, 100, 293990, 293991}
MCU64Max == 2147483647

\* bm_empty's dispatch: one attempted, one successful operation.
EmptyOutcomes == {bm_dispatch_operation}
=============================================================================

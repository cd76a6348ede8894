------------------------------- MODULE MCBench -------------------------------
(* Two workers, two operations (weights 50/50), three buckets, bm_empty's *)
(* dispatch outcome, two iterations per worker, one duration, and a fixed  *)
(* noise of two nops per iteration (MCBench.cfg).                          *)
EXTENDS Bench, BmEmpty

MCOpDist == <<50, 50>>
MCDurations == {331}
MCU64Max == 2147483647
EmptyOutcomes == {bm_dispatch_operation}
=============================================================================

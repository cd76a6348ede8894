-------------------------------- MODULE BmHelper --------------------------------
(***************************************************************************)
(* The noise generators of src/bench/include/CSB/bm_helper.h.  Both return *)
(* nop_count, chosen before their loop; the loop itself runs in the worker *)
(* that calls it (the noise loop of Bench), one step per nop.              *)
(***************************************************************************)
EXTENDS Rand

\* The nop counts bm_generate_noise and bm_generate_noise_interruptible
\* may choose: none for max_noise = 0, max_noise itself, or a uniform draw
\* in 0 .. max_noise.
NoiseCounts(max_noise, random) ==
    IF max_noise = 0 THEN {0}
    ELSE IF random THEN random_thread_safe_get_next(0, max_noise)
    ELSE {max_noise}
=============================================================================

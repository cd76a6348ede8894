--------------------------------- MODULE Time ---------------------------------
(***************************************************************************)
(* The arithmetic of src/bench/include/CSB/time.h.  A cpu_time_t (struct   *)
(* timespec) is a record [sec, nsec] with nsec in 0 .. 10^9 - 1, as       *)
(* clock_gettime returns it.  The differences are of type long; C's        *)
(* division of a negative long truncates toward zero, which CDiv models.   *)
(* Reading the clocks, the sleep and getrusage are inputs, not modelled.   *)
(***************************************************************************)
EXTENDS Integers

VTIME_MILLISEC_IN_SEC == 1000
VTIME_MICROSEC_IN_SEC == VTIME_MILLISEC_IN_SEC * 1000
VTIME_NANOSEC_IN_SEC == VTIME_MICROSEC_IN_SEC * 1000

\* Signed integer division of C: the quotient is truncated toward zero.
CDiv(a, b) == IF a >= 0 THEN a \div b ELSE -((-a) \div b)

\* A conversion that divides the nanosecond difference by the microseconds
\* in a second instead of the milliseconds.
calc_spent_time_usec_div(start_time, finish_time) ==
    (finish_time.sec - start_time.sec) * VTIME_MICROSEC_IN_SEC
        + CDiv(finish_time.nsec - start_time.nsec, VTIME_MICROSEC_IN_SEC)

\* The spent time in microseconds.
calc_spent_time(start_time, finish_time) ==
    (finish_time.sec - start_time.sec) * VTIME_MICROSEC_IN_SEC
        + CDiv(finish_time.nsec - start_time.nsec, VTIME_MILLISEC_IN_SEC)

\* The spent time in nanoseconds.
calc_spent_time_nano(start_time, finish_time) ==
    (finish_time.sec - start_time.sec) * VTIME_NANOSEC_IN_SEC
        + (finish_time.nsec - start_time.nsec)
=============================================================================

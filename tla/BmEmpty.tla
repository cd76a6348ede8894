-------------------------------- MODULE BmEmpty --------------------------------
(***************************************************************************)
(* The bm_empty target of src/bench/targets/bm_empty.h, which measures the *)
(* harness's own overhead.  Its init, reg, dereg and destroy keep no state *)
(* anything reads; its names are printing only.  The dispatch runs         *)
(* bm_generate_noise(NOP_PER_OP, false), a fixed loop with no stop check,  *)
(* and returns one attempted and one successful operation.                 *)
(***************************************************************************)
NOP_PER_OP == 100
NUM_SYSCALLS == 1

bm_target_op_count == NUM_SYSCALLS

\* The result of every dispatch.  Its noise runs NOP_PER_OP nops, so the
\* dispatch returns after a bounded number of steps.
bm_dispatch_operation == [op_count |-> 1, succ_count |-> 1]
=============================================================================

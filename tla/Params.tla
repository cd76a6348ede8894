-------------------------------- MODULE Params --------------------------------
(***************************************************************************)
(* bm_params_extract of src/bench/include/CSB/bm_params.h: the command     *)
(* line checked for its count, matched argument by argument into the       *)
(* fields of bm_params_t, then checked for missing fields.                 *)
(*                                                                         *)
(* An argument is abstracted to the pattern it matches and the value the   *)
(* regex group converts to: [field |-> f, val |-> v] for -t=, -n=, -d=,    *)
(* -s=; [field |-> "op", idx |-> i, val |-> v] for -op<i>=; and            *)
(* [field |-> "none"] for an argument no pattern matches.  A value equal   *)
(* to NONE stands for a number whose uint32_t truncation is                *)
(* PARAM_VAL_NONE.  malloc returns memory holding any of Garbage.          *)
(***************************************************************************)
EXTENDS Naturals, Sequences, FiniteSets, FiniteSetsExt

CONSTANTS
    NumOps,         \* num_ops: bm_target_op_count()
    Args,           \* the abstract arguments argv[1..] may hold
    NONE,           \* PARAM_VAL_NONE (UINT32_MAX)
    Garbage,        \* values an uninitialised uint32_t of the heap may hold
    CallerLen,      \* values out_params->op_dist_len may hold on entry
    AssertsEnabled  \* whether the build keeps assert()

PARAM_FIXED_LEN == 5

\* The uint32_t fields of bm_params_t other than op_dist, by member name.
FixedFields == {"num_threads", "init_sz", "max_noise", "duration"}

OpIdx == 0 .. NumOps - 1

\* The values a matched argument converts to.
ArgVals == {a.val : a \in {b \in Args : b.field # "none"}}

Errors == {"BM_ERR_NONE", "BM_ERR_PARAMS_INCORRECT_COUNT", "BM_ERR_PARAM_MISSING"}

VARIABLES
    argv,         \* argv[1 .. argc-1]
    fields,       \* the four fixed fields
    op_dist,      \* op_dist[0 .. NumOps-1] once allocated
    op_dist_len,  \* out_params->op_dist_len
    i,            \* i of the matching loop
    pc,           \* "start", "match", "done", "aborted"
    ret,          \* the bm_error_t returned
    oob           \* a write outside the op_dist allocation has happened

vars == <<argv, fields, op_dist, op_dist_len, i, pc, ret, oob>>

\* argc may be right or one short.
Argvs ==
    UNION {[1 .. n -> Args] : n \in {PARAM_FIXED_LEN - 2 + NumOps, PARAM_FIXED_LEN - 1 + NumOps}}

Init ==
    /\ argv \in Argvs
    /\ fields = [f \in FixedFields |-> NONE]
    /\ op_dist = [j \in OpIdx |-> NONE]
    /\ op_dist_len \in CallerLen
    /\ i = 0
    /\ pc = "start"
    /\ ret = "BM_ERR_NONE"
    /\ oob = FALSE

\* argc != PARAM_FIXED_LEN + num_ops: return before anything is written.
CountMismatch ==
    /\ pc = "start"
    /\ Len(argv) + 1 # PARAM_FIXED_LEN + NumOps
    /\ ret' = "BM_ERR_PARAMS_INCORRECT_COUNT"
    /\ pc' = "done"
    /\ UNCHANGED <<argv, fields, op_dist, op_dist_len, i, oob>>

\* An init that zeroes the entries instead of writing PARAM_VAL_NONE.
bm_params_init_zero(len, heap) ==
    [j \in OpIdx |-> IF j < len THEN 0 ELSE heap[j]]

\* _bm_params_init as called: the loop over op_dist reads op_dist_len
\* before bm_params_extract sets it.  Entries below that stale length are
\* reset; the rest keep what malloc left; a stale length above num_ops
\* writes past the allocation.
bm_params_init(len, heap) ==
    [j \in OpIdx |-> IF j < len THEN NONE ELSE heap[j]]

\* malloc of op_dist, _bm_params_init, op_dist_len = num_ops.
ExtractInit ==
    /\ pc = "start"
    /\ Len(argv) + 1 = PARAM_FIXED_LEN + NumOps
    /\ \E heap \in [OpIdx -> Garbage] :
          op_dist' = bm_params_init(op_dist_len, heap)
    /\ fields' = [f \in FixedFields |-> NONE]
    /\ oob' = (op_dist_len > NumOps)
    /\ op_dist_len' = NumOps
    /\ i' = 1
    /\ pc' = "match"
    /\ UNCHANGED <<argv, ret>>

(***************************************************************************)
(* One iteration of the loop: _bm_params_match_field(argv[i]).  The first  *)
(* pattern that matches stores strtoul of its group; an argument that      *)
(* matches none is ignored.                                                *)
(***************************************************************************)
MatchFixed ==
    /\ pc = "match"
    /\ i <= Len(argv)
    /\ argv[i].field \in FixedFields
    /\ fields' = [fields EXCEPT ![argv[i].field] = argv[i].val]
    /\ i' = i + 1
    /\ UNCHANGED <<argv, op_dist, op_dist_len, pc, ret, oob>>

\* _bm_param_check_match_op with value[0] < max_idx: output[value[0]] is
\* written, outside the allocation if max_idx exceeds num_ops.
MatchOp ==
    /\ pc = "match"
    /\ i <= Len(argv)
    /\ argv[i].field = "op"
    /\ argv[i].idx < op_dist_len
    /\ op_dist' = [op_dist EXCEPT ![argv[i].idx] = argv[i].val]
    /\ oob' = (oob \/ argv[i].idx >= NumOps)
    /\ i' = i + 1
    /\ UNCHANGED <<argv, fields, op_dist_len, pc, ret>>

\* value[0] >= max_idx: assert(value[0] < max_idx) aborts, or, with
\* asserts compiled out, output[value[0]] is written past op_dist.
MatchOpOutOfRange ==
    /\ pc = "match"
    /\ i <= Len(argv)
    /\ argv[i].field = "op"
    /\ argv[i].idx >= op_dist_len
    /\ IF AssertsEnabled
       THEN pc' = "aborted" /\ UNCHANGED <<i, oob>>
       ELSE oob' = TRUE /\ i' = i + 1 /\ UNCHANGED pc
    /\ UNCHANGED <<argv, fields, op_dist, op_dist_len, ret>>

MatchNone ==
    /\ pc = "match"
    /\ i <= Len(argv)
    /\ argv[i].field = "none"
    /\ i' = i + 1
    /\ UNCHANGED <<argv, fields, op_dist, op_dist_len, pc, ret, oob>>

\* A missing-field check that forgets the duration.
bm_are_params_set_no_duration ==
    /\ \A f \in FixedFields \ {"duration"} : fields[f] # NONE
    /\ \A j \in 0 .. op_dist_len - 1 : op_dist[j] # NONE

\* _bm_are_params_set.
bm_are_params_set ==
    /\ \A f \in FixedFields : fields[f] # NONE
    /\ \A j \in 0 .. op_dist_len - 1 : op_dist[j] # NONE

\* The loop ends; the missing-field check decides the result.
ExtractEnd ==
    /\ pc = "match"
    /\ i > Len(argv)
    /\ ret' = IF bm_are_params_set THEN "BM_ERR_NONE" ELSE "BM_ERR_PARAM_MISSING"
    /\ pc' = "done"
    /\ UNCHANGED <<argv, fields, op_dist, op_dist_len, i, oob>>

Next ==
    \/ CountMismatch \/ ExtractInit
    \/ MatchFixed \/ MatchOp \/ MatchOpOutOfRange \/ MatchNone
    \/ ExtractEnd

Spec == Init /\ [][Next]_vars

-----------------------------------------------------------------------------
TypeOK ==
    /\ argv \in Argvs
    /\ fields \in [FixedFields -> ArgVals \cup {NONE}]
    /\ op_dist \in [OpIdx -> ArgVals \cup Garbage \cup {NONE}]
    /\ op_dist_len \in CallerLen \cup {NumOps}
    /\ i \in 0 .. Len(argv) + 1
    /\ pc \in {"start", "match", "done", "aborted"}
    /\ ret \in Errors
    /\ oob \in BOOLEAN

Accepted == pc = "done" /\ ret = "BM_ERR_NONE"

\* The value the last argument of a field (or of -op<j>=) carries.
Given(match(_)) == {k \in DOMAIN argv : match(argv[k])}
LastVal(match(_)) == argv[Max(Given(match))].val

\* When bm_params_extract accepts the command line, each fixed field holds
\* the value of the last argument that matched its pattern (a repeated
\* argument overwrites), never the PARAM_VAL_NONE of _bm_params_init.
AcceptedFixedFieldsGiven ==
    Accepted =>
        \A f \in FixedFields :
            LET isF(a) == a.field = f
            IN  Given(isF) # {} /\ fields[f] = LastVal(isF)

\* When bm_params_extract accepts the command line, each operation weight
\* is the value of an -op<j>= argument (spec section 6: all fields are
\* required and a missing one is reported before any thread starts).
AcceptedOpDistGiven ==
    Accepted =>
        \A j \in OpIdx :
            LET isOp(a) == a.field = "op" /\ a.idx = j
            IN  Given(isOp) # {} /\ op_dist[j] = LastVal(isOp)

=============================================================================

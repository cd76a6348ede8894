------------------------------- MODULE MCParams -------------------------------
(***************************************************************************)
(* Instantiates Params for TLC with one operation (argc = 6).  Every       *)
(* argument list of four or five arguments drawn from: each fixed option   *)
(* with value 1, -t= with a second value 2, -op0=, an out-of-range -op1=,  *)
(* and an argument no pattern matches.                                     *)
(***************************************************************************)
EXTENDS Params

MCNone == 99

MCArgs ==
    {[field |-> f, val |-> 1] : f \in FixedFields}
    \cup {[field |-> "num_threads", val |-> 2]}
    \cup {[field |-> "op", idx |-> j, val |-> 1] : j \in {0, 1}}
    \cup {[field |-> "none"]}
=============================================================================

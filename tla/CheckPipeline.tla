--------------------------- MODULE CheckPipeline ---------------------------
(***************************************************************************)
(* What the program in the container (validation/libValidator.py) promises *)
(* to the host, which only sees vali_phase and vali_result: the checks are *)
(* made in their order, each one passes or ends the validation with an     *)
(* error of its own kinds, and VAL is the result of the last one.          *)
(***************************************************************************)
EXTENDS Verdicts, Sequences

VARIABLES
  phase,     \* number of checks made
  verdict    \* vali_result

\* Nothing was checked yet.
Unchecked == "UNCK"

\* The errors each check can end with.
ErrorsOf ==
  << {"ERR-CORR"},                 \* text_truncation
     {"ERR-CORR", "ERR-PRSE"},     \* compile
     {"ERR-LINK"},                 \* link
     FuzzOracles,                  \* fuzz
     {"ERR-SEMA"} >>               \* semantic

Passed(p) == IF p = Len(ErrorsOf) THEN "VAL" ELSE "PTCK"

Init == phase = 0 /\ verdict = Unchecked

Check ==
  /\ verdict \in {Unchecked, "PTCK"}
  /\ phase' = phase + 1
  /\ verdict' \in {Passed(phase')} \cup ErrorsOf[phase']

Spec == Init /\ [][Check]_<<phase, verdict>>
============================================================================

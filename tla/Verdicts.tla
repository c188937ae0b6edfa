------------------------------ MODULE Verdicts ------------------------------
(***************************************************************************)
(* What a validation says of a fuzz driver (validation/libVR.py), and what *)
(* the prompt generator can make of it (generation/libImprovePrompt.py).   *)
(***************************************************************************)
EXTENDS Naturals

\* Oracles of an ERR-FUZZ verdict; the ASAN-..., libFuzzer-... and UNKNOWN
\* ones are handled alike everywhere and stand together as "CRASH".
FuzzOracles ==
  { "MEMLEAK", "OOM", "CRASH", "NONEFF", "NOINIT-LOG", "CORR-LOG", "UNK-EXP" }

\* Types of vali_result; an ERR-FUZZ verdict is named by its oracle.
VerdictTypes ==
  { "VAL", "PTCK", "ERR-CORR", "ERR-PRSE", "ERR-LINK", "ERR-SEMA" } \cup FuzzOracles

\* A validation whose container left no status file has no vali_result.
NoVerdict == "ABSENT"

(***************************************************************************)
(* The outcomes of improving a driver with verdict v: the call raises,     *)
(* yields no prompt, or yields at least one.                               *)
(*                                                                         *)
(*   - ERR-PRSE quotes the line of the driver with the number of the first *)
(*     diagnostic, which may lie in a longer header: IndexError;           *)
(*   - a crash is improved only if a frame of the driver was printed, and  *)
(*     quotes its line: the place of the frame may not split in three      *)
(*     (ValueError), or lie behind the end of the driver (IndexError);     *)
(*   - for the three oracles without a branch genImprovedQueries returns   *)
(*     None, and its callers iterate over it: TypeError;                   *)
(*   - PTCK (the container was stopped half-way) has no _desc, which the   *)
(*     caller logs: AttributeError.                                        *)
(***************************************************************************)
ImproveOutcomes(v) ==
  CASE v = "ERR-PRSE" -> {"raises", "some"}
    [] v \in {"ERR-LINK", "MEMLEAK", "OOM", "NONEFF"} -> {"some"}
    [] v = "CRASH" -> {"raises", "nothing", "some"}
    [] v \in {"NOINIT-LOG", "CORR-LOG", "UNK-EXP", "PTCK"} -> {"raises"}
    [] OTHER -> {"nothing"}

\* The verdicts for which genImprovedQueries has no return statement.
ReturnsNone == {"NOINIT-LOG", "CORR-LOG", "UNK-EXP"}
=============================================================================

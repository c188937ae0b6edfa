------------------------- MODULE MCIterativeSearch -------------------------
(***************************************************************************)
(* IterativeSearch with every verdict the validation can come to.          *)
(***************************************************************************)
EXTENDS IterativeSearch

AllVerdicts == VerdictTypes \cup {NoVerdict}
============================================================================

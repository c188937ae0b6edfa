------------------------- MODULE MCValidationBatch -------------------------
(***************************************************************************)
(* ValidationBatch with two projects.                                      *)
(***************************************************************************)
EXTENDS ValidationBatch

CONSTANTS p1, p2

TwoProjects == {p1, p2}
============================================================================

------------------------------ MODULE MCSetup ------------------------------
(* Small instances of Setup; r1, ... are model values. *)
EXTENDS Setup

CONSTANTS r1, r2, p1, t1, t2, t3

AllMain == [r \in Runs |-> "main"]

\* t3 has no configuration.
Lists == {<<t2, t1>>, <<t1, t3>>}
=============================================================================

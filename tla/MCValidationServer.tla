------------------------ MODULE MCValidationServer ------------------------
(***************************************************************************)
(* ValidationServer with two clients.                                      *)
(***************************************************************************)
EXTENDS ValidationServer

CONSTANTS c1, c2

TwoClients == {c1, c2}
===========================================================================

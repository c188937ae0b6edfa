----------------------- MODULE MCContainerValidation -----------------------
(***************************************************************************)
(* ContainerValidation on small instances; the bounds are in the .cfg      *)
(* files.                                                                  *)
(***************************************************************************)
EXTENDS ContainerValidation
============================================================================

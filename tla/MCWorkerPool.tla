---------------------------- MODULE MCWorkerPool ----------------------------
(***************************************************************************)
(* WorkerPool on small instances; the bounds are in the .cfg files.         *)
(***************************************************************************)
EXTENDS WorkerPool
=============================================================================

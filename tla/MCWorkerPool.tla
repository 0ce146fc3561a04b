---------------------------- MODULE MCWorkerPool ----------------------------
(* Small instances of WorkerPool for TLC; the tasks are model values. *)
EXTENDS WorkerPool, TLC
=============================================================================

---------------------------- MODULE MCWorkerLoop ----------------------------
(* The loops on small instances; the cfg files give every value. *)
EXTENDS WorkerLoop
=============================================================================

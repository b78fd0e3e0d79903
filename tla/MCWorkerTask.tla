----------------------------- MODULE MCWorkerTask -----------------------------
(* Instances of WorkerTask for TLC. *)
EXTENDS WorkerTask
===============================================================================

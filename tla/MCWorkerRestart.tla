---------------------------- MODULE MCWorkerRestart ----------------------------
(***************************************************************************)
(* An instance of WorkerRestart for TLC: a service and the one after it,   *)
(* and two copies of the entry, so that one is staged while the other is   *)
(* published, removed or left by a crash.                                  *)
(***************************************************************************)
EXTENDS WorkerRestart
=============================================================================

---------------------------- MODULE MCProcesses ----------------------------
(* Instance of Processes for TLC: an API, a worker and one without a key. *)
EXTENDS Processes

CONSTANTS api, worker, keyless, t1, t2
=============================================================================

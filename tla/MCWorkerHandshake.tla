-------------------------- MODULE MCWorkerHandshake --------------------------
(* Fault sets for the TLC runs of WorkerHandshake.                          *)
EXTENDS WorkerHandshake

AllFaults == FaultKinds
=============================================================================

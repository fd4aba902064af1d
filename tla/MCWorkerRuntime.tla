-------------------------- MODULE MCWorkerRuntime --------------------------
(***************************************************************************)
(* WorkerRuntime for TLC: the symmetries of its model values, for the run  *)
(* that checks no liveness.  Lease bounds the claims of the processes.     *)
(***************************************************************************)
EXTENDS RuntimeRequests, TLC

Symmetric ==
  Permutations(Task) \cup Permutations(Worker) \cup Permutations(Lease)
=============================================================================

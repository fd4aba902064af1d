---------------------------- MODULE MCTaskQueue ----------------------------
(***************************************************************************)
(* TaskQueue for TLC: the symmetries of its model values.  Nothing else    *)
(* needs a bound: Task bounds the submissions and Lease the claims.        *)
(***************************************************************************)
EXTENDS TaskQueue, TLC

(* Task, worker and lease ids are uuids the scripts compare for equality   *)
(* only; ZPOPMIN breaks ties by id, which Heads leaves open.               *)
Symmetric ==
  Permutations(Task) \cup Permutations(Worker) \cup Permutations(Lease)
=============================================================================

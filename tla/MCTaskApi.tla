----------------------------- MODULE MCTaskApi -----------------------------
(***************************************************************************)
(* TaskApi for TLC: the symmetries of its model values.  Lease bounds the  *)
(* claims, and with them the manual retries that change anything.          *)
(***************************************************************************)
EXTENDS TaskApi, TLC

Symmetric ==
  Permutations(Task) \cup Permutations(Worker) \cup Permutations(Lease)
    \cup Permutations(Request)
=============================================================================

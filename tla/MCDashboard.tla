---------------------------- MODULE MCDashboard ----------------------------
(***************************************************************************)
(* Dashboard for TLC: the filters of the page are no filter at all, or one *)
(* status.  Statuses are strings, so the instance needs no symmetry: the   *)
(* runs on it check liveness or one task.                                  *)
(***************************************************************************)
EXTENDS Dashboard

AnyStatus == Statuses \ {"NONE"}
ListFilters == {AnyStatus, {"RUNNING"}}
=============================================================================

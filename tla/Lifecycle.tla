----------------------------- MODULE Lifecycle -----------------------------
(***************************************************************************)
(* How the status of a task moves: as backend/app/models/task.py allows,   *)
(* and as the scripts and requests move it, with what the dashboard makes  *)
(* of the event published with each move (mapEventToStatus of              *)
(* frontend/src/pages/Tasks.tsx).                                          *)
(***************************************************************************)

(* VALID_TRANSITIONS, which no code in app/ consults, and the two statuses *)
(* a submission may start with.                                            *)
ValidTransitions ==
  { <<"NONE", "PENDING">>, <<"NONE", "QUEUED">>,
    <<"PENDING", "QUEUED">>, <<"PENDING", "CANCELLED">>,
    <<"QUEUED", "RUNNING">>, <<"QUEUED", "CANCELLED">>,
    <<"RUNNING", "COMPLETED">>, <<"RUNNING", "RETRYING">>, <<"RUNNING", "FAILED">>,
    <<"RETRYING", "QUEUED">>, <<"RETRYING", "CANCELLED">>,
    <<"FAILED", "DLQ">>, <<"FAILED", "QUEUED">>, <<"DLQ", "QUEUED">> }

(* No event is published, or one that the dashboard maps to no status.     *)
NoEvent == "NO_EVENT"
Unmapped == "UNMAPPED"

(* What the scripts do: from, to, and the status the event stands for.  A  *)
(* scheduled task is announced as TASK_QUEUED like any other.  A recovery  *)
(* publishes TASK_RECOVERED, or nothing when it breaks off; promotions     *)
(* publish nothing.                                                        *)
ScriptMoves ==
  { <<"NONE", "QUEUED", "QUEUED">>, <<"NONE", "PENDING", "QUEUED">>,
    <<"QUEUED", "RUNNING", "RUNNING">>,
    <<"RUNNING", "COMPLETED", "COMPLETED">>,
    <<"RUNNING", "RETRYING", "RETRYING">>, <<"RUNNING", "DLQ", "DLQ">>,
    <<"RUNNING", "QUEUED", Unmapped>>, <<"RUNNING", "QUEUED", NoEvent>>,
    <<"PENDING", "QUEUED", NoEvent>>, <<"RETRYING", "QUEUED", NoEvent>> }

(* What requests do that do not overlap with another on their task.  A     *)
(* cancellation may have been decided before the task ended.  A manual     *)
(* retry publishes nothing.                                                *)
RequestMoves ==
  {<<s, "CANCELLED", "CANCELLED">> :
     s \in {"PENDING", "QUEUED", "RETRYING", "RUNNING", "COMPLETED", "DLQ"}}
    \cup {<<"DLQ", "QUEUED", NoEvent>>}

Moves == ScriptMoves \cup RequestMoves
=============================================================================

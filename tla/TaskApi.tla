------------------------------ MODULE TaskApi ------------------------------
(***************************************************************************)
(* The two requests that change a task outside the scripts: cancel_task    *)
(* and retry_task of backend/app/api/tasks.py.                             *)
(*                                                                         *)
(* Both read the whole blob, decide, and write the whole blob back from    *)
(* the copy they read.  cancel_task writes in one MULTI; retry_task sends  *)
(* three commands.  Between two commands of a request any script may run,  *)
(* and any other request: every await is a step of its own.                *)
(***************************************************************************)
EXTENDS TaskQueue

CONSTANT Request  \* requests that can be in flight at the same time

VARIABLE req      \* what each request does next, on which task, and its copy

apiVars == <<task, prio, sched, retry, due, lease, ttl, active, owned, dlq, seq,
             idem, metrics, tickets, req>>

Idle == [pc |-> "idle", task |-> NoTask, blob |-> Blank]

RequestData ==
  [pc: {"idle", "cancel", "hset", "lrem", "zadd"},
   task: Task \cup {NoTask}, blob: TaskData]

ApiInit == Init /\ req = [r \in Request |-> Idle]

(* A request that passed the status check holds the copy it read.          *)
Admit(r, t, pc) ==
  /\ req[r] = Idle
  /\ req' = [req EXCEPT ![r] = [pc |-> pc, task |-> t, blob |-> task[t]]]
  /\ UNCHANGED vars

IsAt(r, pc) == req[r].pc = pc

Goto(r, pc) == req' = [req EXCEPT ![r].pc = pc]

Leave(r) == req' = [req EXCEPT ![r] = Idle]

-----------------------------------------------------------------------------
(* cancel_task.                                                            *)

Cancellable(t) == task[t].status \in {"PENDING", "QUEUED", "RETRYING", "RUNNING"}

CancelRead(r, t) == Cancellable(t) /\ Admit(r, t, "cancel")

(* The MULTI removes the task from the three sorted sets and deletes the   *)
(* lease key; the active set and the worker's set are not touched.         *)
Withdraw_KeepsLease(t) ==
  /\ prio' = [prio EXCEPT ![t] = 0]
  /\ sched' = sched \ {t}
  /\ retry' = retry \ {t}
  /\ due' = due \ {t}
  /\ UNCHANGED <<lease, ttl>>
Withdraw(t) ==
  /\ prio' = [prio EXCEPT ![t] = 0]
  /\ sched' = sched \ {t}
  /\ retry' = retry \ {t}
  /\ due' = due \ {t}
  /\ lease' = [lease EXCEPT ![t] = NoLease]
  /\ ttl' = [ttl EXCEPT ![t] = 0]

CancelWrite(r) ==
  /\ IsAt(r, "cancel")
  /\ task' = [task EXCEPT ![req[r].task] =
                [req[r].blob EXCEPT !.status = "CANCELLED"]]
  /\ Withdraw(req[r].task)
  /\ Leave(r)
  /\ UNCHANGED <<active, owned, dlq, seq, idem, metrics, tickets>>

-----------------------------------------------------------------------------
(* retry_task.                                                             *)

(* No code path writes FAILED, so a retry always starts from DLQ, and its  *)
(* LREM is always sent.                                                    *)
Retryable(t) == task[t].status \in {"FAILED", "DLQ"}

RetryRead(r, t) == Retryable(t) /\ Admit(r, t, "hset")

RetryHset(r) ==
  /\ IsAt(r, "hset")
  /\ task' = [task EXCEPT ![req[r].task] =
                [req[r].blob EXCEPT !.status = "QUEUED", !.attempt = 0]]
  /\ Goto(r, "lrem")
  /\ UNCHANGED <<prio, sched, retry, due, lease, ttl, active, owned, dlq, seq,
                 idem, metrics, tickets>>

RetryLrem(r) ==
  /\ IsAt(r, "lrem")
  /\ dlq' = [dlq EXCEPT ![req[r].task] = 0]
  /\ Goto(r, "zadd")
  /\ UNCHANGED <<task, prio, sched, retry, due, lease, ttl, active, owned, seq,
                 idem, metrics, tickets>>

(* The score is the bare priority, not the priority times Unit.            *)
RetryZadd(r) ==
  /\ IsAt(r, "zadd")
  /\ prio' = [prio EXCEPT ![req[r].task] = req[r].blob.priority]
  /\ Leave(r)
  /\ UNCHANGED <<task, sched, retry, due, lease, ttl, active, owned, dlq, seq,
                 idem, metrics, tickets>>

(* A command of the request raises (the connection is lost, the API        *)
(* restarts): the writes sent before it stay.                              *)
Abort(r) ==
  /\ req[r] # Idle
  /\ Leave(r)
  /\ UNCHANGED vars

-----------------------------------------------------------------------------
Requests ==
  \E r \in Request :
    \/ \E t \in Task : CancelRead(r, t) \/ RetryRead(r, t)
    \/ CancelWrite(r)
    \/ RetryHset(r) \/ RetryLrem(r) \/ RetryZadd(r)
    \/ Abort(r)

ApiNext == Requests \/ (Next /\ UNCHANGED req)

ApiSpec == ApiInit /\ [][ApiNext]_apiVars

-----------------------------------------------------------------------------
(* Properties.                                                             *)

(* The types of TaskQueue, and a request's copy is a blob of its task.     *)
ApiTypeOK == TypeOK /\ req \in [Request -> RequestData]

(* No task has two requests in flight.  Two that overlap on one task break *)
(* SinglePlace, LeaseFencing and CancelledFinal: each writes back a blob   *)
(* it read before the other's writes.                                      *)
OnePerTask ==
  \A r, s \in Request :
    req[r].pc # "idle" /\ req[s].pc # "idle" /\ req[r].task = req[s].task => r = s

(* Whatever requests race with the scripts, recovery can see the task of   *)
(* every live lease and every task marked RUNNING: it is in the active     *)
(* set, and a leased one also in the set of the worker that holds it.      *)
RecoverySees ==
  \A t \in Task :
    /\ task[t].status = "RUNNING" => t \in active
    /\ lease[t] # NoLease =>
         /\ t \in active
         /\ \E c \in tickets :
              c.task = t /\ c.lease = lease[t] /\ t \in owned[c.worker]

(* A cancelled task is never claimed, completed, failed, recovered or      *)
(* promoted again, even when the cancellation was decided on a copy that   *)
(* had become stale.  (Under OnePerTask.)                                  *)
CancelledFinal ==
  [][\A t \in Task : task[t].status = "CANCELLED" =>
       task'[t].status = "CANCELLED" /\ prio'[t] = 0 /\ lease'[t] = NoLease]_apiVars

-----------------------------------------------------------------------------
(* What the documentation states and the requests do not keep.             *)

(* COMPLETED is terminal (tests/unit/test_models.py:84-91): a cancellation *)
(* decided while the task ran overwrites the completion that came first.   *)
CompletedFinal ==
  [][\A t \in Task : task[t].status = "COMPLETED" =>
       task'[t].status = "COMPLETED"]_apiVars
=============================================================================

----------------------------- MODULE ApiProofs -----------------------------
(***************************************************************************)
(* What survives any number of cancellations and retries that interleave   *)
(* with each other and with the scripts: the types, and what recovery      *)
(* depends on.  A stale copy that is written back breaks most of QueueInv, *)
(* so the invariant here is a weaker one of its own.                       *)
(***************************************************************************)
EXTENDS TaskApi, TaskQueueProofs

(* A claim was answered for an accepted task.                              *)
TicketsAccepted == \A c \in tickets : task[c.task].status # "NONE"

(* A request under way is about an accepted task, and its copy has the     *)
(* priority of one.                                                        *)
CopyAccepted(q) ==
  q.pc # "idle" => /\ q.task \in Task
                   /\ task[q.task].status # "NONE"
                   /\ q.blob.priority \in 1..10

CopiesAccepted == \A r \in Request : CopyAccepted(req[r])

ApiInv ==
  /\ ApiTypeOK
  /\ Accepted
  /\ TicketsAccepted
  /\ CopiesAccepted
  /\ RecoverySees

-----------------------------------------------------------------------------
(* A script that accepts a task gives it a priority; none forgets a task   *)
(* or changes its priority.                                                *)
LEMMA BlobsKept ==
  ASSUME TypeOK, Accepted, TicketsAccepted, [Next]_vars, NEW t \in Task
  PROVE  /\ task[t].status # "NONE" =>
              task'[t].status # "NONE" /\ task'[t].priority = task[t].priority
         /\ task'[t].status # "NONE" => task'[t].priority \in 1..10
<1> USE DEF TypeOK
<1> DEFINE Kept == task'[t].status # "NONE" /\ task'[t].priority = task[t].priority
<1>1. task[t] \in TaskData
  OBVIOUS
<1>2. task[t].status # "NONE" => task[t].priority \in 1..10
  BY DEF Accepted
<1>3. SUFFICES \/ task'[t] = task[t]
               \/ task[t].status # "NONE" /\ Kept
               \/ task[t].status = "NONE" /\ task'[t].priority \in 1..10
  BY <1>2
<1>4. CASE Clients
  <2>1. PICK u \in Task, p \in Priority, m \in RetryLimit, k \in Key \cup {NoKey},
             s \in {"QUEUED", "PENDING"} : Record(u, p, m, k, s)
    BY <1>4 DEF Clients, EnqueueNow, EnqueueLater
  <2>2. task[u].status = "NONE" /\ task'[u].priority = p
    BY <2>1 DEF Record, Submitted, Blank
  <2>3. \A v \in Task \ {u} : task'[v] = task[v]
    BY <2>1 DEF Record
  <2>4. p \in 1..10
    BY QueueAssumption
  <2>5. QED  BY <2>2, <2>3, <2>4
<1>5. ASSUME NEW w \in Worker, NEW l \in Lease, Claim(w, l)
      PROVE  task'[t] = task[t] \/ (task[t].status # "NONE" /\ Kept)
  <2>1. PICK u \in Heads : task' = [task EXCEPT ![u] = Started(u, w, l)]
    BY <1>5 DEF Claim
  <2>2. u \in Task /\ task[u].status # "NONE" /\ task[u] \in TaskData
    BY DEF Heads, Queued, Accepted
  <2>3. /\ Started(u, w, l).priority = task[u].priority
        /\ Started(u, w, l).status = "RUNNING"
    BY <2>2 DEF Started, TaskData
  <2>4. QED  BY <2>1, <2>2, <2>3
<1>6. ASSUME NEW c \in tickets, Complete(c) \/ FailRetry(c) \/ FailDead(c)
      PROVE  task'[t] = task[t] \/ (task[t].status # "NONE" /\ Kept)
  <2>1. c.task \in Task /\ task[c.task].status # "NONE" /\ task[c.task] \in TaskData
    BY DEF Ticket, TicketsAccepted
  <2>2. \E s \in Status : /\ s # "NONE"
                          /\ \/ task' = [task EXCEPT ![c.task].status = s]
                             \/ task' = [task EXCEPT ![c.task] = Failed(c.task, s)]
    BY <1>6 DEF Complete, FailRetry, FailDead, Status
  <2>3. \A u \in Task \ {c.task} : task'[u] = task[u]
    BY <2>2
  <2>4. /\ task'[c.task].status # "NONE"
        /\ task'[c.task].priority = task[c.task].priority
    <3>1. \E s \in Status :
            /\ s # "NONE"
            /\ \/ task'[c.task] = [task[c.task] EXCEPT !.status = s]
               \/ task'[c.task] = Failed(c.task, s)
      BY <2>1, <2>2
    <3>2. QED  BY <2>1, <3>1 DEF Failed, TaskData
  <2>5. QED  BY <2>1, <2>3, <2>4
<1>7. ASSUME NEW u \in Task, Recover(u)
      PROVE  task'[t] = task[t] \/ (task[t].status # "NONE" /\ Kept)
  BY <1>1, <1>7 DEF Recover, Recoverable, TaskData
<1>8. ASSUME NEW batch, batch \subseteq sched \cup retry,
             Promote(batch) \/ PromoteBroken(batch)
      PROVE  task'[t] = task[t] \/ (task[t].status # "NONE" /\ Kept)
  <2>1. \/ task'[t] = task[t]
        \/ t \in batch /\ task'[t] = [task[t] EXCEPT !.status = "QUEUED"]
    BY <1>8 DEF Promote, PromoteBroken
  <2>2. t \in batch => task[t].status # "NONE"
    BY <1>8 DEF Accepted
  <2>3. QED  BY <1>1, <2>1, <2>2 DEF TaskData
<1>9. CASE PromoteScheduled \/ PromoteRetries
  BY <1>8, <1>9 DEF PromoteScheduled, PromoteRetries
<1>10. CASE UNCHANGED task
  BY <1>10
<1>11. QED
  BY <1>4, <1>5, <1>6, <1>7, <1>9, <1>10
  DEF Next, Workers, Services, Time, Renew, PriorityAging, LeaseTick, BecomeDue,
      KeyExpires, vars

(* Nothing waits but accepted tasks.                                       *)
LEMMA WaitingAccepted ==
  ASSUME TypeOK, Accepted, TicketsAccepted, [Next]_vars, NEW t \in Task,
         t \in sched' \cup retry' \/ prio'[t] # 0
  PROVE  task'[t].status # "NONE"
<1> USE DEF TypeOK
<1>1. task[t].status # "NONE" => task'[t].status # "NONE"
  BY BlobsKept
<1>2. t \in sched \cup retry \/ prio[t] # 0 => task[t].status # "NONE"
  BY DEF Accepted, Queued
<1>3. CASE t \in sched \cup retry \/ prio[t] # 0
  BY <1>1, <1>2, <1>3
<1>4. CASE ~(t \in sched \cup retry \/ prio[t] # 0)
  <2>1. CASE Clients
    <3>1. PICK u \in Task, p \in Priority, m \in RetryLimit, k \in Key \cup {NoKey} :
            EnqueueNow(u, p, m, k) \/ EnqueueLater(u, p, m, k)
      BY <2>1 DEF Clients
    <3>2. t = u
      BY <1>4, <3>1 DEF EnqueueNow, EnqueueLater, Record
    <3>3. task'[u].status \in {"QUEUED", "PENDING"}
      <4>1. PICK s \in {"QUEUED", "PENDING"} : Record(u, p, m, k, s)
        BY <3>1 DEF EnqueueNow, EnqueueLater
      <4>2. QED  BY <4>1 DEF Record, Blank
    <3>4. QED  BY <3>2, <3>3
  <2>2. ASSUME NEW c \in tickets, Complete(c) \/ FailRetry(c) \/ FailDead(c)
        PROVE  task'[t].status # "NONE"
    <3>1. t = c.task
      BY <1>4, <2>2 DEF Complete, FailRetry, FailDead
    <3>2. QED  BY <1>1, <3>1 DEF TicketsAccepted
  <2>3. ASSUME NEW u \in Task, Recover(u)
        PROVE  task'[t].status # "NONE"
    <3>1. t = u
      <4>1. UNCHANGED <<sched, retry>> /\ (t # u => prio'[t] = prio[t])
        BY <2>3 DEF Recover
      <4>2. QED  BY <1>4, <4>1
    <3>2. QED  BY <1>1, <2>3, <3>1 DEF Recover, Recoverable
  <2>4. ASSUME NEW batch, batch \subseteq sched \cup retry, Promote(batch)
        PROVE  prio'[t] = 0
    BY <1>4, <2>4 DEF Promote
  <2>5. CASE PromoteScheduled \/ PromoteRetries
    <3>1. sched' \subseteq sched /\ retry' \subseteq retry
      BY <2>5 DEF PromoteScheduled, PromoteRetries, PromoteBroken, Remaining
    <3>2. prio'[t] = 0
      BY <1>4, <2>4, <2>5 DEF PromoteScheduled, PromoteRetries, PromoteBroken
    <3>3. QED  BY <1>4, <3>1, <3>2
  <2>6. CASE PriorityAging
    <3>1. Level(prio[t]) > 1 => prio[t] # 0
      BY AgedScore, UnitAssumption
    <3>2. prio'[t] = 0 /\ UNCHANGED <<sched, retry>>
      BY <1>4, <2>6, <3>1 DEF PriorityAging
    <3>3. QED  BY <1>4, <3>2
  <2>7. CASE \E w \in Worker, l \in Lease : Claim(w, l)
    <3>1. prio'[t] = 0 /\ UNCHANGED <<sched, retry>>
      BY <1>4, <2>7 DEF Claim, Popped
    <3>2. QED  BY <1>4, <3>1
  <2>8. CASE UNCHANGED <<prio, sched, retry>>
    BY <1>4, <2>8
  <2>9. QED
    BY <2>1, <2>2, <2>3, <2>5, <2>6, <2>7, <2>8
    DEF Next, Workers, Services, Time, Renew, LeaseTick, BecomeDue, KeyExpires, vars
<1>5. QED  BY <1>3, <1>4

-----------------------------------------------------------------------------
(* Every script leaves recovery what it needs.                             *)
Seen(t) ==
  /\ task[t].status = "RUNNING" => t \in active
  /\ lease[t] # NoLease =>
       /\ t \in active
       /\ \E c \in tickets : c.task = t /\ c.lease = lease[t] /\ t \in owned[c.worker]

(* A step that only lets go keeps a task seen.                             *)
LEMMA SeenAgain ==
  ASSUME NEW t \in Task, Seen(t),
         \/ task'[t].status # "RUNNING"
         \/ task'[t].status = task[t].status,
         t \in active' \/ t \notin active,
         lease'[t] \in {lease[t], NoLease},
         tickets \subseteq tickets',
         \A c \in tickets : t \in owned[c.worker] => t \in owned'[c.worker]
  PROVE  Seen(t)'
BY DEF Seen

(* No script hides a task from recovery.                                   *)
LEMMA SeenStep ==
  ASSUME TypeOK, Accepted, TicketsAccepted, RecoverySees, [Next]_vars, NEW t \in Task
  PROVE  Seen(t)'
<1> USE DEF TypeOK
<1>1. task[t] \in TaskData /\ Seen(t)
  BY DEF RecoverySees, Seen
<1>2. CASE Clients
  <2>1. PICK u \in Task, p \in Priority, m \in RetryLimit, k \in Key \cup {NoKey},
             s \in {"QUEUED", "PENDING"} : Record(u, p, m, k, s)
    BY <1>2 DEF Clients, EnqueueNow, EnqueueLater
  <2>2. task'[u].status = s /\ \A v \in Task \ {u} : task'[v] = task[v]
    BY <2>1 DEF Record, Blank
  <2>3. UNCHANGED <<active, owned, lease, tickets>>
    BY <2>1 DEF Record
  <2>4. QED  BY <1>1, <2>2, <2>3, SeenAgain
<1>3. ASSUME NEW w \in Worker, NEW l \in Lease, Claim(w, l)
      PROVE  Seen(t)'
  <2>1. PICK u \in Heads :
          /\ task' = [task EXCEPT ![u] = Started(u, w, l)]
          /\ active' = active \cup {u}
          /\ owned' = [owned EXCEPT ![w] = @ \cup {u}]
          /\ lease' = [lease EXCEPT ![u] = l]
          /\ tickets' = tickets \cup {[task |-> u, worker |-> w, lease |-> l]}
    BY <1>3 DEF Claim
  <2>2. u \in Task
    BY DEF Heads, Queued
  <2>3. CASE t = u
    <3>1. [task |-> u, worker |-> w, lease |-> l] \in tickets' /\ u \in owned'[w]
      BY <2>1
    <3>2. t \in active' /\ lease'[t] = l
      BY <2>1, <2>3
    <3>3. QED  BY <2>3, <3>1, <3>2 DEF Seen
  <2>4. CASE t # u
    <3>1. \A c \in tickets : t \in owned[c.worker] => t \in owned'[c.worker]
      BY <2>1 DEF Ticket
    <3>2. /\ task'[t] = task[t] /\ lease'[t] = lease[t]
          /\ tickets \subseteq tickets' /\ active \subseteq active'
      BY <2>1, <2>4
    <3>3. QED  BY <1>1, <3>1, <3>2, SeenAgain
  <2>5. QED  BY <2>3, <2>4
<1>4. ASSUME NEW u \in Task, NEW w, Release(u, w), task'[u].status # "RUNNING",
             \A v \in Task \ {u} : task'[v] = task[v], UNCHANGED tickets
      PROVE  Seen(t)'
  <2>1. CASE t = u
    <3>1. lease'[t] = NoLease
      BY <1>4, <2>1 DEF Release
    <3>2. QED  BY <1>4, <2>1, <3>1 DEF Seen
  <2>2. CASE t # u
    <3>1. \A c \in tickets : t \in owned[c.worker] => t \in owned'[c.worker]
      BY <1>4, <2>2 DEF Release, Ticket
    <3>2. lease'[t] = lease[t] /\ (t \in active => t \in active')
      BY <1>4, <2>2 DEF Release
    <3>3. QED  BY <1>1, <1>4, <2>2, <3>1, <3>2, SeenAgain
  <2>3. QED  BY <2>1, <2>2
<1>5. ASSUME NEW c \in tickets, Complete(c) \/ FailRetry(c) \/ FailDead(c)
      PROVE  Seen(t)'
  <2>1. c.task \in Task /\ task[c.task] \in TaskData
    BY DEF Ticket
  <2>2. Release(c.task, c.worker) /\ UNCHANGED tickets
    BY <1>5 DEF Complete, FailRetry, FailDead
  <2>3. \A v \in Task \ {c.task} : task'[v] = task[v]
    BY <1>5 DEF Complete, FailRetry, FailDead
  <2>4. task'[c.task].status # "RUNNING"
    <3>1. CASE Complete(c)
      BY <2>1, <3>1 DEF Complete, TaskData
    <3>2. CASE FailRetry(c)
      BY <2>1, <3>2 DEF FailRetry, Failed, TaskData
    <3>3. CASE FailDead(c)
      BY <2>1, <3>3 DEF FailDead, Failed, TaskData
    <3>4. QED  BY <1>5, <3>1, <3>2, <3>3
  <2>5. QED  BY <1>4, <2>1, <2>2, <2>3, <2>4
<1>6. ASSUME NEW u \in Task, Recover(u)
      PROVE  Seen(t)'
  <2>1. task[u] \in TaskData
    OBVIOUS
  <2>2. /\ Release(u, task[u].worker) /\ UNCHANGED tickets
        /\ task'[u].status = "QUEUED" /\ \A v \in Task \ {u} : task'[v] = task[v]
    BY <1>6, <2>1 DEF Recover, TaskData
  <2>3. QED  BY <1>4, <2>2
<1>7. ASSUME NEW batch, Promote(batch) \/ PromoteBroken(batch)
      PROVE  Seen(t)'
  <2>1. \/ task'[t] = task[t]
        \/ task'[t] = [task[t] EXCEPT !.status = "QUEUED"]
    BY <1>7 DEF Promote, PromoteBroken
  <2>2. task'[t].status \in {task[t].status, "QUEUED"}
    BY <1>1, <2>1 DEF TaskData
  <2>3. UNCHANGED <<active, owned, lease, tickets>>
    BY <1>7 DEF Promote, PromoteBroken
  <2>4. QED  BY <1>1, <2>2, <2>3, SeenAgain
<1>8. CASE PromoteScheduled \/ PromoteRetries
  BY <1>7, <1>8 DEF PromoteScheduled, PromoteRetries
<1>9. CASE \E u \in Task : LeaseTick(u)
  <2>1. /\ UNCHANGED <<task, active, owned, tickets>>
        /\ lease'[t] \in {lease[t], NoLease}
    BY <1>9 DEF LeaseTick
  <2>2. QED  BY <1>1, <2>1, SeenAgain
<1>10. CASE UNCHANGED <<task, active, owned, lease, tickets>>
  BY <1>1, <1>10, SeenAgain
<1>11. QED
  BY <1>2, <1>3, <1>5, <1>6, <1>8, <1>9, <1>10
  DEF Next, Workers, Services, Time, Renew, PriorityAging, BecomeDue, KeyExpires, vars

-----------------------------------------------------------------------------
(* A script, while no request moves.                                       *)
LEMMA ScriptStep ==
  ASSUME ApiInv, [Next]_vars, UNCHANGED req
  PROVE  ApiInv'
<1> USE DEF ApiInv, ApiTypeOK
<1>1. TypeOK'
  BY TypeStep
<1>2. \A t \in Task : task[t].status # "NONE" => task'[t].status # "NONE"
  BY BlobsKept
<1>3. Accepted'
  <2>1. \A t \in Task : task'[t].status # "NONE" => task'[t].priority \in 1..10
    BY BlobsKept
  <2>2. QED  BY <2>1, WaitingAccepted DEF Accepted, Queued
<1>4. TicketsAccepted'
  <2>1. \A c \in tickets : c.task \in Task
    BY DEF TypeOK, Ticket
  <2>2. \A c \in tickets' \ tickets : task'[c.task].status # "NONE"
    <3>1. ASSUME NEW w \in Worker, NEW l \in Lease, Claim(w, l)
          PROVE  \A c \in tickets' \ tickets : task'[c.task].status # "NONE"
      <4>1. PICK u \in Heads : tickets' = tickets \cup {[task |-> u, worker |-> w, lease |-> l]}
        BY <3>1 DEF Claim
      <4>2. u \in Task /\ task[u].status # "NONE"
        BY DEF Heads, Queued, Accepted
      <4>3. QED  BY <1>2, <4>1, <4>2
    <3>2. CASE UNCHANGED tickets
      BY <3>2
    <3>3. QED
      BY <3>1, <3>2 DEF Next, Clients, Workers, Services, Time, EnqueueNow,
        EnqueueLater, Record, Complete, FailRetry, FailDead, Renew, Recover,
        PromoteScheduled, PromoteRetries, Promote, PromoteBroken, PriorityAging,
        LeaseTick, BecomeDue, KeyExpires, vars
  <2>3. QED  BY <1>2, <2>1, <2>2 DEF TicketsAccepted
<1>5. CopiesAccepted'
  BY <1>2 DEF CopiesAccepted, CopyAccepted
<1>6. RecoverySees'
  BY SeenStep DEF RecoverySees, Seen
<1>7. QED  BY <1>1, <1>3, <1>4, <1>5, <1>6

(* A step of a request, while no script runs.                              *)
LEMMA RequestStep ==
  ASSUME ApiInv, Requests
  PROVE  ApiInv'
<1> USE DEF ApiInv, ApiTypeOK, TypeOK
<1>1. PICK r \in Request :
        \/ \E t \in Task : CancelRead(r, t) \/ RetryRead(r, t)
        \/ CancelWrite(r)
        \/ RetryHset(r) \/ RetryLrem(r) \/ RetryZadd(r)
        \/ Abort(r)
  BY DEF Requests
<1>2. req[r] \in RequestData /\ CopyAccepted(req[r])
  BY DEF CopiesAccepted
<1>3. ASSUME NEW q \in RequestData, CopyAccepted(q), req' = [req EXCEPT ![r] = q], UNCHANGED vars
      PROVE  ApiInv'
  <2>1. UNCHANGED <<task, prio, sched, retry, due, lease, ttl, active, owned, dlq, seq,
                    idem, metrics, tickets>>
    BY <1>3 DEF vars
  <2>2. TypeOK' /\ Accepted' /\ TicketsAccepted' /\ RecoverySees'
    BY <2>1 DEF Accepted, Queued, TicketsAccepted, RecoverySees
  <2>3. req' \in [Request -> RequestData]
    BY <1>3
  <2>4. CopiesAccepted'
    BY <1>3, <2>1 DEF CopiesAccepted, CopyAccepted
  <2>5. QED  BY <2>2, <2>3, <2>4
<1>4. Idle \in RequestData /\ CopyAccepted(Idle)
  <2>1. Blank \in TaskData
    BY DEF Blank, TaskData
  <2>2. QED  BY <2>1 DEF Idle, RequestData, CopyAccepted
<1>5. CASE Abort(r)
  BY <1>3, <1>4, <1>5 DEF Abort, Leave
<1>6. ASSUME NEW t \in Task, CancelRead(r, t) \/ RetryRead(r, t)
      PROVE  ApiInv'
  <2>1. PICK pc \in {"cancel", "hset"} : Admit(r, t, pc)
    BY <1>6 DEF CancelRead, RetryRead
  <2>2. task[t].status # "NONE"
    BY <1>6 DEF CancelRead, RetryRead, Cancellable, Retryable
  <2> DEFINE q == [pc |-> pc, task |-> t, blob |-> task[t]]
  <2>3. q \in RequestData
    BY DEF RequestData
  <2>4. CopyAccepted(q)
    BY <2>2 DEF CopyAccepted, Accepted
  <2>5. req' = [req EXCEPT ![r] = q] /\ UNCHANGED vars
    BY <2>1 DEF Admit
  <2>6. QED  BY <1>3, <2>3, <2>4, <2>5
<1>7. ASSUME NEW q \in RequestData, CopyAccepted(q), req' = [req EXCEPT ![r] = q],
             \A t \in Task : task[t].status # "NONE" => task'[t].status # "NONE"
      PROVE  req' \in [Request -> RequestData] /\ CopiesAccepted'
  BY <1>7 DEF CopiesAccepted, CopyAccepted
<1>8. ASSUME NEW pc \in {"lrem", "zadd"}, req[r].pc # "idle"
      PROVE  [req[r] EXCEPT !.pc = pc] \in RequestData /\ CopyAccepted([req[r] EXCEPT !.pc = pc])
  BY <1>2, <1>8 DEF RequestData, CopyAccepted
<1> DEFINE t == req[r].task
           blob == req[r].blob
<1>9. ASSUME req[r].pc # "idle"
      PROVE  t \in Task /\ task[t].status # "NONE" /\ blob \in TaskData /\ blob.priority \in 1..10
  BY <1>2, <1>9 DEF CopyAccepted, RequestData
<1>10. ASSUME req[r].pc # "idle", NEW b \in TaskData, b.status \in {"CANCELLED", "QUEUED"},
              b.priority = blob.priority, task' = [task EXCEPT ![t] = b]
       PROVE  /\ task' \in [Task -> TaskData]
              /\ \A u \in Task : task[u].status # "NONE" => task'[u].status # "NONE"
              /\ \A u \in Task : task'[u].status # "NONE" => task'[u].priority \in 1..10
              /\ task'[t].status # "RUNNING" /\ \A u \in Task \ {t} : task'[u] = task[u]
  BY <1>9, <1>10 DEF Accepted
<1>11. ASSUME UNCHANGED tickets,
              \A u \in Task : task[u].status # "NONE" => task'[u].status # "NONE"
       PROVE  TicketsAccepted'
  BY <1>11 DEF TicketsAccepted, Ticket
<1>12. CASE CancelWrite(r)
  <2> DEFINE b == [blob EXCEPT !.status = "CANCELLED"]
  <2>1. /\ req[r].pc # "idle" /\ task' = [task EXCEPT ![t] = b]
        /\ Withdraw(t) /\ req' = [req EXCEPT ![r] = Idle]
        /\ UNCHANGED <<active, owned, dlq, seq, idem, metrics, tickets>>
    BY <1>12 DEF CancelWrite, IsAt, Leave
  <2>2. b \in TaskData /\ b.status = "CANCELLED" /\ b.priority = blob.priority
    BY <1>9, <2>1 DEF TaskData, Status
  <2>3. /\ task' \in [Task -> TaskData]
        /\ \A u \in Task : task[u].status # "NONE" => task'[u].status # "NONE"
        /\ \A u \in Task : task'[u].status # "NONE" => task'[u].priority \in 1..10
        /\ task'[t].status # "RUNNING" /\ \A u \in Task \ {t} : task'[u] = task[u]
    BY <1>10, <2>1, <2>2
  <2>4. req' \in [Request -> RequestData] /\ CopiesAccepted'
    BY <1>4, <1>7, <2>1, <2>3
  <2>5. TypeOK'
    BY <2>1, <2>3, QueueAssumption DEF Withdraw
  <2>6. Accepted'
    <3>1. \A u \in Task : u \in sched' \cup retry' \cup Queued' => u \in sched \cup retry \cup Queued
      BY <2>1 DEF Withdraw, Queued
    <3>2. QED  BY <2>3, <3>1 DEF Accepted
  <2>7. ASSUME NEW u \in Task
        PROVE  Seen(u)'
    <3>1. Seen(u)
      BY DEF RecoverySees, Seen
    <3>2. lease'[u] \in {lease[u], NoLease}
      BY <2>1 DEF Withdraw
    <3>3. task'[u].status # "RUNNING" \/ task'[u].status = task[u].status
      BY <2>3
    <3>4. QED  BY <2>1, <3>1, <3>2, <3>3, SeenAgain
  <2>8. RecoverySees'
    BY <2>7 DEF RecoverySees, Seen
  <2>9. QED  BY <1>11, <2>1, <2>3, <2>4, <2>5, <2>6, <2>8
<1>13. CASE RetryHset(r)
  <2> DEFINE b == [blob EXCEPT !.status = "QUEUED", !.attempt = 0]
             q == [req[r] EXCEPT !.pc = "lrem"]
  <2>1. /\ req[r].pc # "idle" /\ task' = [task EXCEPT ![t] = b]
        /\ req' = [req EXCEPT ![r].pc = "lrem"]
        /\ UNCHANGED <<prio, sched, retry, due, lease, ttl, active, owned, dlq, seq,
                        idem, metrics, tickets>>
    BY <1>13 DEF RetryHset, IsAt, Goto
  <2>2. b \in TaskData /\ b.status = "QUEUED" /\ b.priority = blob.priority
    BY <1>9, <2>1 DEF TaskData, Status
  <2>3. /\ task' \in [Task -> TaskData]
        /\ \A u \in Task : task[u].status # "NONE" => task'[u].status # "NONE"
        /\ \A u \in Task : task'[u].status # "NONE" => task'[u].priority \in 1..10
        /\ task'[t].status # "RUNNING" /\ \A u \in Task \ {t} : task'[u] = task[u]
    BY <1>10, <2>1, <2>2
  <2>4. req' \in [Request -> RequestData] /\ CopiesAccepted'
    <3>1. q \in RequestData /\ CopyAccepted(q) /\ req' = [req EXCEPT ![r] = q]
      BY <1>8, <2>1
    <3>2. QED  BY <1>7, <2>3, <3>1
  <2>5. TypeOK' /\ Accepted'
    BY <2>1, <2>3 DEF Accepted, Queued
  <2>6. ASSUME NEW u \in Task
        PROVE  Seen(u)'
    <3>1. Seen(u)
      BY DEF RecoverySees, Seen
    <3>2. task'[u].status # "RUNNING" \/ task'[u].status = task[u].status
      BY <2>3
    <3>3. QED  BY <2>1, <3>1, <3>2, SeenAgain
  <2>7. RecoverySees'
    BY <2>6 DEF RecoverySees, Seen
  <2>8. QED  BY <1>11, <2>1, <2>3, <2>4, <2>5, <2>7
<1>14. CASE RetryLrem(r)
  <2> DEFINE q == [req[r] EXCEPT !.pc = "zadd"]
  <2>1. /\ req[r].pc # "idle" /\ dlq' = [dlq EXCEPT ![t] = 0]
        /\ req' = [req EXCEPT ![r].pc = "zadd"]
        /\ UNCHANGED <<task, prio, sched, retry, due, lease, ttl, active, owned, seq,
                        idem, metrics, tickets>>
    BY <1>14 DEF RetryLrem, IsAt, Goto
  <2>2. q \in RequestData /\ CopyAccepted(q) /\ req' = [req EXCEPT ![r] = q]
    BY <1>8, <2>1
  <2>3. req' \in [Request -> RequestData] /\ CopiesAccepted'
    BY <1>7, <2>1, <2>2
  <2>4. TypeOK' /\ Accepted' /\ TicketsAccepted' /\ RecoverySees'
    BY <2>1 DEF Accepted, Queued, TicketsAccepted, RecoverySees
  <2>5. QED  BY <2>3, <2>4
<1>15. CASE RetryZadd(r)
  <2>1. /\ req[r].pc # "idle" /\ prio' = [prio EXCEPT ![t] = blob.priority]
        /\ req' = [req EXCEPT ![r] = Idle]
        /\ UNCHANGED <<task, sched, retry, due, lease, ttl, active, owned, dlq, seq,
                        idem, metrics, tickets>>
    BY <1>15 DEF RetryZadd, IsAt, Leave
  <2>2. req' \in [Request -> RequestData] /\ CopiesAccepted'
    BY <1>4, <1>7, <2>1
  <2>3. TypeOK'
    BY <1>9, <2>1
  <2>4. Accepted'
    BY <1>9, <2>1 DEF Accepted, Queued
  <2>5. TicketsAccepted' /\ RecoverySees'
    BY <2>1 DEF TicketsAccepted, RecoverySees
  <2>6. QED  BY <2>2, <2>3, <2>4, <2>5
<1>16. QED  BY <1>1, <1>5, <1>6, <1>12, <1>13, <1>14, <1>15

-----------------------------------------------------------------------------
(* The theorems.                                                           *)

(* An empty keyspace, and no request.                                      *)
LEMMA ApiInitInv == ApiInit => ApiInv
<1> SUFFICES ASSUME ApiInit PROVE ApiInv  OBVIOUS
<1>1. QueueInv /\ tickets = {} /\ req = [r \in Request |-> Idle]
  BY InitInv DEF ApiInit, Init
<1>2. Idle \in RequestData
  <2>1. Blank \in TaskData
    BY DEF Blank, TaskData
  <2>2. QED  BY <2>1 DEF Idle, RequestData
<1>3. TypeOK /\ Accepted
  BY <1>1, AcceptedInv
<1>4. ApiTypeOK /\ TicketsAccepted /\ CopiesAccepted
  BY <1>1, <1>2, <1>3 DEF ApiTypeOK, TicketsAccepted, CopiesAccepted, CopyAccepted, Idle
<1>5. RecoverySees
  BY DEF ApiInit, Init, Blank, RecoverySees
<1>6. QED  BY <1>3, <1>4, <1>5 DEF ApiInv

(* What the requests leave of the queue's invariant.                       *)
THEOREM ApiInvariant == ApiSpec => []ApiInv
<1>1. ApiInit => ApiInv
  BY ApiInitInv
<1>2. ApiInv /\ [ApiNext]_apiVars => ApiInv'
  <2> SUFFICES ASSUME ApiInv, [ApiNext]_apiVars PROVE ApiInv'  OBVIOUS
  <2>1. CASE Requests
    BY <2>1, RequestStep
  <2>2. CASE [Next]_vars /\ UNCHANGED req
    BY <2>2, ScriptStep
  <2>3. QED  BY <2>1, <2>2 DEF ApiNext, apiVars, vars
<1>3. QED  BY <1>1, <1>2, PTL DEF ApiSpec

(* Types, for any number of requests.                                      *)
THEOREM ApiTypes == ApiSpec => []ApiTypeOK
<1>1. ApiInv => ApiTypeOK
  BY DEF ApiInv
<1>2. QED  BY <1>1, ApiInvariant, PTL

(* Recovery can see every running and every leased task, however many      *)
(* requests write back their stale copies: see RecoverySees.               *)
THEOREM RecoveryStillSees == ApiSpec => []RecoverySees
<1>1. ApiInv => RecoverySees
  BY DEF ApiInv
<1>2. QED  BY <1>1, ApiInvariant, PTL

-----------------------------------------------------------------------------
(* With one request per task, the structures stay consistent too.  What a  *)
(* request writes on a stale copy is then the only thing that can surprise *)
(* the scripts: a CANCELLED task may still be in the active set, and a     *)
(* QUEUED one in the dead-letter list or in no structure at all.           *)
Place(t) ==
  /\ prio[t] # 0   => task[t].status = "QUEUED" /\ t \notin sched \cup retry /\ dlq[t] = 0
  /\ t \in sched   => task[t].status \in {"PENDING", "QUEUED"}
  /\ t \in retry   => task[t].status \in {"RETRYING", "QUEUED"} /\ t \notin sched
  /\ t \in active  => task[t].status \in {"RUNNING", "CANCELLED"}
  /\ dlq[t] \in {0, 1}
  /\ dlq[t] = 1    => /\ task[t].status \in {"DLQ", "QUEUED", "CANCELLED"}
                      /\ t \notin sched \cup retry \cup active

(* No script touches such a task.                                          *)
Resting(t) ==
  \/ task[t].status \in {"FAILED", "DLQ", "CANCELLED"}
  \/ task[t].status = "QUEUED" /\ prio[t] = 0 /\ t \notin sched \cup retry

(* A manual retry finds its task as its last command left it.              *)
RetryPlace(q) ==
  /\ q.pc = "hset" => task[q.task].status \in {"FAILED", "DLQ"}
  /\ q.pc \in {"lrem", "zadd"} =>
       /\ task[q.task].status = "QUEUED" /\ prio[q.task] = 0
       /\ q.task \notin sched \cup retry
  /\ q.pc = "zadd" => dlq[q.task] = 0

SerialInv ==
  /\ ApiInv
  /\ LeaseFencing
  /\ \A t \in Task : Place(t)
  /\ \A r \in Request : RetryPlace(req[r])

(* A step that leaves the task t where and as it is.                       *)
Same(t) ==
  /\ task'[t] = task[t] /\ prio'[t] = prio[t] /\ dlq'[t] = dlq[t]
  /\ t \in sched'  <=> t \in sched
  /\ t \in retry'  <=> t \in retry
  /\ t \in active' <=> t \in active

(* What is left as it is stays in its place.                               *)
LEMMA PlaceSame ==
  ASSUME NEW t \in Task, Place(t), Same(t)
  PROVE  Place(t)'
BY DEF Place, Same

(* The places are those of SinglePlace and of Waits.                       *)
LEMMA PlacesSingle ==
  ASSUME TypeOK, \A t \in Task : Place(t)
  PROVE  SinglePlace /\ Waits
<1> USE DEF TypeOK, Place
<1>1. sched \cap retry = {} /\ active \cap (sched \cup retry) = {}
  OBVIOUS
<1>2. \A t \in Queued : t \notin sched \cup retry \cup active
  BY DEF Queued
<1>3. ASSUME NEW t \in Task, dlq[t] > 0
      PROVE  dlq[t] = 1 /\ t \notin Queued \cup sched \cup retry \cup active
  <2>1. dlq[t] = 1
    BY <1>3
  <2>2. QED  BY <2>1 DEF Queued
<1>4. Waits
  BY DEF Waits, Queued
<1>5. QED  BY <1>1, <1>2, <1>3, <1>4 DEF SinglePlace

(* A report that passes the fence is about a RUNNING task.                 *)
LEMMA LeaseRuns ==
  ASSUME TypeOK, LeaseFencing, NEW c \in tickets, Holds(c)
  PROVE  c.task \in Task /\ task[c.task].status = "RUNNING"
<1>1. c.task \in Task /\ c.lease \in Lease
  BY DEF TypeOK, Ticket
<1>2. lease[c.task] # NoLease
  BY <1>1, QueueAssumption DEF Holds
<1>3. QED  BY <1>1, <1>2 DEF LeaseFencing

(* A script leaves a task alone, or it takes one that does not rest to a   *)
(* place that fits it.                                                     *)
LEMMA ScriptPlaces ==
  ASSUME TypeOK, Accepted, LeaseFencing, \A u \in Task : Place(u), [Next]_vars,
         NEW t \in Task
  PROVE  Same(t) \/ (~Resting(t) /\ Place(t)')
<1> USE DEF TypeOK
<1>1. task[t] \in TaskData /\ Place(t)
  OBVIOUS
<1>2. CASE Clients
  <2>1. PICK u \in Task, p \in Priority, m \in RetryLimit, k \in Key \cup {NoKey} :
          EnqueueNow(u, p, m, k) \/ EnqueueLater(u, p, m, k)
    BY <1>2 DEF Clients
  <2>2. task[u].status = "NONE" /\ UNCHANGED <<retry, active, dlq>>
    BY <2>1 DEF EnqueueNow, EnqueueLater, Record, Submitted
  <2>3. CASE t # u
    <3>1. Same(t)
      BY <2>1, <2>3 DEF EnqueueNow, EnqueueLater, Record, Same
    <3>2. QED  BY <3>1
  <2>4. CASE t = u /\ EnqueueNow(u, p, m, k)
    <3>1. task'[t].status = "QUEUED" /\ UNCHANGED sched
      BY <2>4 DEF EnqueueNow, Record, Blank
    <3>2. QED  BY <1>1, <2>2, <2>4, <3>1 DEF Place, Resting
  <2>5. CASE t = u /\ EnqueueLater(u, p, m, k)
    <3>1. task'[t].status = "PENDING" /\ sched' = sched \cup {t} /\ UNCHANGED prio
      BY <2>5 DEF EnqueueLater, Record, Blank
    <3>2. QED  BY <1>1, <2>2, <2>5, <3>1 DEF Place, Resting
  <2>6. QED  BY <2>1, <2>3, <2>4, <2>5
<1>3. ASSUME NEW w \in Worker, NEW l \in Lease, Claim(w, l)
      PROVE  Same(t) \/ (~Resting(t) /\ Place(t)')
  <2>1. PICK u \in Heads : /\ prio' = Popped(u)
                           /\ task' = [task EXCEPT ![u] = Started(u, w, l)]
                           /\ active' = active \cup {u}
    BY <1>3 DEF Claim
  <2>2. u \in Task /\ prio[u] # 0
    BY DEF Heads, Queued
  <2>3. UNCHANGED <<sched, retry, dlq>>
    BY <1>3 DEF Claim
  <2>4. CASE t # u
    BY <2>1, <2>2, <2>3, <2>4 DEF Same, Popped
  <2>5. CASE t = u
    <3>1. task'[t].status = "RUNNING" /\ prio'[t] = 0
      BY <1>1, <2>1, <2>5 DEF Started, TaskData, Popped
    <3>2. QED  BY <1>1, <2>2, <2>3, <2>5, <3>1 DEF Place, Resting
  <2>6. QED  BY <2>4, <2>5
<1>4. ASSUME NEW c \in tickets, Complete(c) \/ FailRetry(c) \/ FailDead(c)
      PROVE  Same(t) \/ (~Resting(t) /\ Place(t)')
  <2>1. c.task \in Task /\ task[c.task].status = "RUNNING"
    BY <1>4, LeaseRuns DEF Complete, FailRetry, FailDead
  <2>2. /\ active' = active \ {c.task} /\ UNCHANGED <<prio, sched>>
        /\ \A u \in Task \ {c.task} : task'[u] = task[u]
    BY <1>4 DEF Complete, FailRetry, FailDead, Release
  <2>3. CASE Complete(c)
    <3>1. task'[c.task].status = "COMPLETED" /\ UNCHANGED <<retry, dlq>>
      BY <2>1, <2>3 DEF Complete, TaskData
    <3>2. QED  BY <1>1, <2>1, <2>2, <3>1 DEF Same, Place, Resting
  <2>4. CASE FailRetry(c)
    <3>1. /\ task'[c.task].status = "RETRYING" /\ retry' = retry \cup {c.task}
          /\ UNCHANGED dlq
      BY <2>1, <2>4 DEF FailRetry, Failed, TaskData
    <3>2. QED  BY <1>1, <2>1, <2>2, <3>1 DEF Same, Place, Resting
  <2>5. CASE FailDead(c)
    <3>1. task'[c.task].status = "DLQ" /\ UNCHANGED retry
      BY <2>1, <2>5 DEF FailDead, Failed, TaskData
    <3>2. /\ dlq'[c.task] = dlq[c.task] + 1
          /\ \A u \in Task \ {c.task} : dlq'[u] = dlq[u]
      BY <2>1, <2>5 DEF FailDead
    <3>3. QED  BY <1>1, <2>1, <2>2, <3>1, <3>2 DEF Same, Place, Resting
  <2>6. QED  BY <1>4, <2>3, <2>4, <2>5
<1>5. ASSUME NEW u \in Task, Recover(u)
      PROVE  Same(t) \/ (~Resting(t) /\ Place(t)')
  <2>1. /\ task[u].status = "RUNNING" /\ active' = active \ {u}
        /\ UNCHANGED <<sched, retry, dlq>>
        /\ \A v \in Task \ {u} : task'[v] = task[v] /\ prio'[v] = prio[v]
    BY <1>5 DEF Recover, Recoverable, Release
  <2>2. task'[u].status = "QUEUED"
    BY <1>5 DEF Recover, TaskData
  <2>3. QED  BY <1>1, <2>1, <2>2 DEF Same, Place, Resting
<1>6. ASSUME NEW batch, batch \subseteq sched \cup retry, Promote(batch),
             \/ sched' = sched \ batch /\ UNCHANGED retry /\ batch \subseteq sched
             \/ retry' = retry \ batch /\ UNCHANGED sched /\ batch \subseteq retry
      PROVE  Same(t) \/ (~Resting(t) /\ Place(t)')
  <2>1. /\ t \in batch => task'[t] = [task[t] EXCEPT !.status = "QUEUED"]
        /\ t \notin batch => task'[t] = task[t] /\ prio'[t] = prio[t]
        /\ UNCHANGED <<active, dlq>>
    BY <1>6 DEF Promote
  <2>2. CASE t \notin batch
    BY <1>6, <2>1, <2>2 DEF Same
  <2>3. CASE t \in batch
    <3>1. task'[t].status = "QUEUED"
      BY <1>1, <2>1, <2>3 DEF TaskData
    <3>2. task[t].status \in {"PENDING", "RETRYING", "QUEUED"} /\ dlq[t] = 0 /\ t \notin active
      BY <1>1, <1>6, <2>3 DEF Place
    <3>3. t \notin sched' \cup retry'
      BY <1>1, <1>6, <2>3 DEF Place
    <3>4. ~Resting(t)
      BY <1>6, <2>3, <3>2 DEF Resting
    <3>5. QED  BY <2>1, <3>1, <3>2, <3>3, <3>4 DEF Place
  <2>4. QED  BY <2>2, <2>3
<1>7. ASSUME NEW batch, batch \subseteq sched \cup retry, PromoteBroken(batch)
      PROVE  Same(t) \/ (~Resting(t) /\ Place(t)')
  <2>1. UNCHANGED <<prio, sched, retry, active, dlq>>
    BY <1>7 DEF PromoteBroken
  <2>2. \/ task'[t] = task[t]
        \/ t \in batch /\ task'[t] = [task[t] EXCEPT !.status = "QUEUED"]
    BY <1>7 DEF PromoteBroken
  <2>3. CASE t \in batch /\ task'[t] = [task[t] EXCEPT !.status = "QUEUED"]
    <3>1. task'[t].status = "QUEUED"
      BY <1>1, <2>3 DEF TaskData
    <3>2. task[t].status \in {"PENDING", "RETRYING", "QUEUED"}
      BY <1>1, <1>7, <2>3 DEF Place
    <3>3. QED  BY <1>1, <1>7, <2>1, <2>3, <3>1, <3>2 DEF Place, Resting
  <2>4. QED  BY <2>1, <2>2, <2>3 DEF Same
<1>8. CASE PromoteScheduled
  <2>1. CASE SeqKey
    BY <1>6, <1>8, <2>1 DEF PromoteScheduled, Remaining
  <2>2. CASE ~SeqKey
    BY <1>7, <1>8, <2>2 DEF PromoteScheduled
  <2>3. QED  BY <2>1, <2>2
<1>9. CASE PromoteRetries
  <2>1. CASE SeqKey
    BY <1>6, <1>9, <2>1 DEF PromoteRetries, Remaining
  <2>2. CASE ~SeqKey
    BY <1>7, <1>9, <2>2 DEF PromoteRetries
  <2>3. QED  BY <2>1, <2>2
<1>10. CASE PriorityAging
  <2>1. UNCHANGED <<task, sched, retry, active, dlq>>
    BY <1>10 DEF PriorityAging
  <2>2. prio'[t] = prio[t] \/ prio[t] # 0
    BY <1>10 DEF PriorityAging, Slice, Queued
  <2>3. QED  BY <1>1, <2>1, <2>2 DEF Same, Place, Resting
<1>11. CASE UNCHANGED <<task, prio, sched, retry, active, dlq>>
  BY <1>11 DEF Same
<1>12. QED
  BY <1>2, <1>3, <1>4, <1>5, <1>8, <1>9, <1>10, <1>11
  DEF Next, Workers, Services, Time, Renew, LeaseTick, BecomeDue, KeyExpires, vars

(* What a script lost, no script finds: a task marked QUEUED that is in no *)
(* structure, which is what recovery leaves when it calls its script with  *)
(* six keys, stays so until somebody cancels it (the retry of such a task  *)
(* is refused).  Neither does a script wake a task that ended in DLQ.      *)
THEOREM LostForGood == Spec => [][\A t \in Task : Resting(t) => Same(t)]_vars
<1>1. ASSUME QueueInv, [Next]_vars, NEW t \in Task, Resting(t)
      PROVE  Same(t)
  <2>1. TypeOK /\ Accepted /\ LeaseFencing
    BY <1>1, AcceptedInv DEF QueueInv
  <2>2. \A u \in Task : Place(u)
    BY <1>1 DEF QueueInv, TypeOK, Places, OwnershipIndex, Queued, Place
  <2>3. QED  BY <1>1, <2>1, <2>2, ScriptPlaces
<1>2. QueueInv /\ [Next]_vars => [\A t \in Task : Resting(t) => Same(t)]_vars
  BY <1>1
<1>3. QED  BY <1>2, QueueInvariant, PTL DEF Spec

(* A script keeps the places, and the tasks of the requests rest.          *)
LEMMA SerialScript ==
  ASSUME SerialInv, [Next]_vars, UNCHANGED req
  PROVE  SerialInv'
<1> USE DEF SerialInv
<1>1. ApiInv'
  BY ScriptStep
<1>2. TypeOK /\ Accepted /\ Waits
  BY PlacesSingle DEF ApiInv, ApiTypeOK
<1>3. LeaseFencing'
  BY <1>2, LeaseStep
<1>4. \A t \in Task : Same(t) \/ (~Resting(t) /\ Place(t)')
  BY <1>2, ScriptPlaces
<1>5. \A t \in Task : Place(t)'
  BY <1>4, PlaceSame
<1>6. ASSUME NEW r \in Request
      PROVE  RetryPlace(req[r])'
  <2>1. CASE req[r].pc \in {"hset", "lrem", "zadd"}
    <3>1. req[r].task \in Task /\ RetryPlace(req[r])
      BY <2>1 DEF ApiInv, CopiesAccepted, CopyAccepted
    <3>2. Resting(req[r].task)
      BY <2>1, <3>1 DEF RetryPlace, Resting
    <3>3. Same(req[r].task)
      BY <1>4, <3>1, <3>2
    <3>4. QED  BY <3>1, <3>3 DEF RetryPlace, Same
  <2>2. CASE req[r].pc \notin {"hset", "lrem", "zadd"}
    BY <2>2 DEF RetryPlace
  <2>3. QED  BY <2>1, <2>2
<1>7. QED  BY <1>1, <1>3, <1>5, <1>6

(* A request that writes to its task leaves the tasks of the others alone. *)
LEMMA OthersRetry ==
  ASSUME ApiInv, OnePerTask, NEW r \in Request, req[r].pc # "idle",
         \A u \in Task \ {req[r].task} : Same(u),
         NEW q, req' = [req EXCEPT ![r] = q],
         NEW s \in Request, s # r, RetryPlace(req[s])
  PROVE  RetryPlace(req[s])'
<1>1. req'[s] = req[s]
  BY DEF ApiInv, ApiTypeOK
<1>2. CASE req[s].pc # "idle"
  <2>1. req[s].task \in Task /\ req[s].task # req[r].task
    BY <1>2 DEF ApiInv, CopiesAccepted, CopyAccepted, OnePerTask
  <2>2. Same(req[s].task)
    BY <2>1
  <2>3. QED  BY <1>1, <2>2 DEF RetryPlace, Same
<1>3. CASE req[s].pc = "idle"
  BY <1>1, <1>3 DEF RetryPlace
<1>4. QED  BY <1>2, <1>3

(* A request that begins or ends changes nothing of its task.              *)
LEMMA SerialWait ==
  ASSUME SerialInv, NEW r \in Request, NEW q, RetryPlace(q),
         req' = [req EXCEPT ![r] = q], UNCHANGED vars
  PROVE  /\ LeaseFencing' /\ \A t \in Task : Place(t)'
         /\ \A s \in Request : RetryPlace(req[s])'
<1> USE DEF SerialInv
<1>1. UNCHANGED <<task, prio, sched, retry, lease, ttl, active, dlq, tickets>>
  BY DEF vars
<1>2. LeaseFencing' /\ \A t \in Task : Place(t)'
  BY <1>1 DEF LeaseFencing, Place
<1>3. \A s \in Request : req'[s] = IF s = r THEN q ELSE req[s]
  BY DEF ApiInv, ApiTypeOK
<1>4. \A s \in Request : RetryPlace(req[s])'
  BY <1>1, <1>3 DEF RetryPlace
<1>5. QED  BY <1>2, <1>4

(* A step of a request, no other request being about the same task.        *)
LEMMA SerialRequest ==
  ASSUME SerialInv, OnePerTask, Requests
  PROVE  SerialInv'
<1> USE DEF SerialInv
<1>1. ApiInv'
  BY RequestStep
<1> SUFFICES /\ LeaseFencing' /\ \A t \in Task : Place(t)'
             /\ \A s \in Request : RetryPlace(req[s])'
  BY <1>1
<1>2. PICK r \in Request :
        \/ \E t \in Task : CancelRead(r, t) \/ RetryRead(r, t)
        \/ CancelWrite(r)
        \/ RetryHset(r) \/ RetryLrem(r) \/ RetryZadd(r)
        \/ Abort(r)
  BY DEF Requests
<1>3. PICK t, blob : t = req[r].task /\ blob = req[r].blob
  OBVIOUS
<1>4. TypeOK /\ req \in [Request -> RequestData]
  BY DEF ApiInv, ApiTypeOK
<1>5. RetryPlace(req[r]) /\ RetryPlace(Idle)
  BY DEF RetryPlace, Idle
<1>6. ASSUME req[r].pc # "idle"
      PROVE  t \in Task /\ Place(t) /\ blob \in TaskData /\ blob.priority \in 1..10
  BY <1>3, <1>4, <1>6 DEF ApiInv, CopiesAccepted, CopyAccepted, RequestData
<1>7. CASE Abort(r)
  BY <1>5, <1>7, SerialWait DEF Abort, Leave
<1>8. ASSUME NEW u \in Task, CancelRead(r, u) \/ RetryRead(r, u)
      PROVE  /\ LeaseFencing' /\ \A v \in Task : Place(v)'
             /\ \A s \in Request : RetryPlace(req[s])'
  <2>1. CASE CancelRead(r, u)
    <3> DEFINE q == [pc |-> "cancel", task |-> u, blob |-> task[u]]
    <3>1. req' = [req EXCEPT ![r] = q] /\ UNCHANGED vars
      BY <2>1 DEF CancelRead, Admit
    <3>2. RetryPlace(q)
      BY DEF RetryPlace
    <3> HIDE DEF q
    <3>3. QED  BY <3>1, <3>2, SerialWait
  <2>2. CASE RetryRead(r, u)
    <3> DEFINE q == [pc |-> "hset", task |-> u, blob |-> task[u]]
    <3>1. req' = [req EXCEPT ![r] = q] /\ UNCHANGED vars
      BY <2>2 DEF RetryRead, Admit
    <3>2. task[u].status \in {"FAILED", "DLQ"}
      BY <2>2 DEF RetryRead, Retryable
    <3>3. RetryPlace(q)
      BY <3>2 DEF RetryPlace
    <3> HIDE DEF q
    <3>4. QED  BY <3>1, <3>3, SerialWait
  <2>3. QED  BY <1>8, <2>1, <2>2
<1>9. ASSUME NEW q, req[r].pc # "idle", req' = [req EXCEPT ![r] = q],
             \A u \in Task \ {t} : Same(u),
             Place(t)', RetryPlace(q)'
      PROVE  /\ \A u \in Task : Place(u)'
             /\ \A s \in Request : RetryPlace(req[s])'
  <2>1. \A u \in Task : Place(u)'
    BY <1>9, PlaceSame
  <2>2. ASSUME NEW s \in Request
        PROVE  RetryPlace(req[s])'
    <3>1. CASE s # r
      BY <1>3, <1>9, <3>1, OthersRetry
    <3>2. CASE s = r
      <4>1. req'[s] = q
        BY <1>4, <1>9, <3>2
      <4>2. QED  BY <1>9, <4>1 DEF RetryPlace
    <3>3. QED  BY <3>1, <3>2
  <2>3. QED  BY <2>1, <2>2
<1>10. CASE CancelWrite(r)
  <2>1. /\ req[r].pc # "idle"
        /\ task' = [task EXCEPT ![t] = [blob EXCEPT !.status = "CANCELLED"]]
        /\ Withdraw(t) /\ req' = [req EXCEPT ![r] = Idle]
        /\ UNCHANGED <<active, dlq, tickets>>
    BY <1>3, <1>10 DEF CancelWrite, IsAt, Leave
  <2>2. \A u \in Task \ {t} : Same(u) /\ lease'[u] = lease[u] /\ ttl'[u] = ttl[u]
    BY <1>4, <2>1 DEF Withdraw, Same, TypeOK
  <2>3. /\ task'[t].status = "CANCELLED" /\ lease'[t] = NoLease
        /\ prio'[t] = 0 /\ t \notin sched' \cup retry'
    BY <1>4, <1>6, <2>1 DEF Withdraw, TypeOK, TaskData
  <2>4. Place(t)'
    BY <1>6, <2>1, <2>3 DEF Place
  <2>5. LeaseFencing'
    BY <2>1, <2>2, <2>3 DEF LeaseFencing, Same
  <2>6. RetryPlace(Idle)'
    BY DEF RetryPlace, Idle
  <2>7. QED  BY <1>9, <2>1, <2>2, <2>4, <2>5, <2>6
<1>11. CASE RetryHset(r)
  <2>1. /\ req[r].pc = "hset"
        /\ task' = [task EXCEPT ![t] = [blob EXCEPT !.status = "QUEUED", !.attempt = 0]]
        /\ req' = [req EXCEPT ![r].pc = "lrem"]
        /\ UNCHANGED <<prio, sched, retry, lease, ttl, active, dlq, tickets>>
    BY <1>3, <1>11 DEF RetryHset, IsAt, Goto
  <2>2. t \in Task /\ Place(t) /\ blob \in TaskData
    BY <1>6, <2>1
  <2>3. \A u \in Task \ {t} : Same(u)
    BY <2>1 DEF Same
  <2>4. task[t].status \in {"FAILED", "DLQ"}
    BY <1>3, <1>5, <2>1 DEF RetryPlace
  <2>5. task'[t].status = "QUEUED"
    BY <1>4, <2>1, <2>2 DEF TypeOK, TaskData
  <2>6. prio[t] = 0 /\ t \notin sched \cup retry \cup active
    BY <2>2, <2>4 DEF Place
  <2>7. Place(t)'
    BY <2>1, <2>2, <2>5, <2>6 DEF Place
  <2>8. LeaseFencing'
    <3>1. lease[t] = NoLease
      BY <2>2, <2>4 DEF LeaseFencing
    <3>2. QED  BY <2>1, <2>3, <3>1 DEF LeaseFencing, Same
  <2>9. PICK q : q = [req[r] EXCEPT !.pc = "lrem"]
    OBVIOUS
  <2>10. q.pc = "lrem" /\ q.task = t /\ req' = [req EXCEPT ![r] = q]
    BY <1>3, <1>4, <2>1, <2>9 DEF RequestData
  <2>11. RetryPlace(q)'
    BY <2>1, <2>5, <2>6, <2>10 DEF RetryPlace
  <2>12. QED  BY <1>9, <2>1, <2>3, <2>7, <2>8, <2>10, <2>11
<1>12. CASE RetryLrem(r)
  <2>1. /\ req[r].pc = "lrem"
        /\ dlq' = [dlq EXCEPT ![t] = 0]
        /\ req' = [req EXCEPT ![r].pc = "zadd"]
        /\ UNCHANGED <<task, prio, sched, retry, lease, ttl, active, tickets>>
    BY <1>3, <1>12 DEF RetryLrem, IsAt, Goto
  <2>2. t \in Task /\ Place(t) /\ dlq'[t] = 0
    BY <1>4, <1>6, <2>1 DEF TypeOK
  <2>3. \A u \in Task \ {t} : Same(u)
    BY <2>1 DEF Same
  <2>4. Place(t)' /\ LeaseFencing'
    BY <2>1, <2>2 DEF Place, LeaseFencing
  <2>5. PICK q : q = [req[r] EXCEPT !.pc = "zadd"]
    OBVIOUS
  <2>6. q.pc = "zadd" /\ q.task = t /\ req' = [req EXCEPT ![r] = q]
    BY <1>3, <1>4, <2>1, <2>5 DEF RequestData
  <2>7. RetryPlace(q)'
    BY <1>3, <1>5, <2>1, <2>2, <2>6 DEF RetryPlace
  <2>8. QED  BY <1>9, <2>1, <2>3, <2>4, <2>6, <2>7
<1>13. CASE RetryZadd(r)
  <2>1. /\ req[r].pc = "zadd"
        /\ prio' = [prio EXCEPT ![t] = blob.priority]
        /\ req' = [req EXCEPT ![r] = Idle]
        /\ UNCHANGED <<task, sched, retry, lease, ttl, active, dlq, tickets>>
    BY <1>3, <1>13 DEF RetryZadd, IsAt, Leave
  <2>2. t \in Task /\ Place(t)
    BY <1>6, <2>1
  <2>3. \A u \in Task \ {t} : Same(u)
    BY <1>4, <2>1 DEF Same, TypeOK
  <2>4. task[t].status = "QUEUED" /\ t \notin sched \cup retry /\ dlq[t] = 0
    BY <1>3, <1>5, <2>1 DEF RetryPlace
  <2>5. Place(t)' /\ LeaseFencing'
    BY <2>1, <2>2, <2>4 DEF Place, LeaseFencing
  <2>6. RetryPlace(Idle)'
    BY DEF RetryPlace, Idle
  <2>7. QED  BY <1>9, <2>1, <2>3, <2>5, <2>6
<1>14. QED  BY <1>2, <1>7, <1>8, <1>10, <1>11, <1>12, <1>13

(* With one request per task at a time, every step keeps the places.       *)
THEOREM SerialRequests == ApiSpec /\ []OnePerTask => []SerialInv
<1>1. ApiInit => SerialInv
  <2> SUFFICES ASSUME ApiInit PROVE SerialInv  OBVIOUS
  <2>1. ApiInv
    BY ApiInitInv
  <2>2. LeaseFencing /\ \A t \in Task : Place(t)
    BY DEF ApiInit, Init, LeaseFencing, Place
  <2>3. \A r \in Request : RetryPlace(req[r])
    BY DEF ApiInit, Idle, RetryPlace
  <2>4. QED  BY <2>1, <2>2, <2>3 DEF SerialInv
<1>2. SerialInv /\ OnePerTask /\ [ApiNext]_apiVars => SerialInv'
  <2> SUFFICES ASSUME SerialInv, OnePerTask, [ApiNext]_apiVars PROVE SerialInv'
    OBVIOUS
  <2>1. CASE Requests
    BY <2>1, SerialRequest
  <2>2. CASE [Next]_vars /\ UNCHANGED req
    BY <2>2, SerialScript
  <2>3. QED  BY <2>1, <2>2 DEF ApiNext, apiVars, vars
<1>3. QED  BY <1>1, <1>2, PTL DEF ApiSpec

(* Cancellations and manual retries leave no task in two structures: see   *)
(* SinglePlace.                                                            *)
THEOREM SerialOnePlace == ApiSpec /\ []OnePerTask => []SinglePlace
<1>1. SerialInv => SinglePlace
  BY PlacesSingle DEF SerialInv, ApiInv, ApiTypeOK
<1>2. QED  BY <1>1, SerialRequests, PTL

(* A lease proves ownership also while requests write: see LeaseFencing.   *)
THEOREM SerialLeases == ApiSpec /\ []OnePerTask => []LeaseFencing
<1>1. SerialInv => LeaseFencing
  BY DEF SerialInv
<1>2. QED  BY <1>1, SerialRequests, PTL

(* A cancelled task stays cancelled, whatever was decided on a stale copy: *)
(* see CancelledFinal.                                                     *)
THEOREM CancelledStays == ApiSpec /\ []OnePerTask => CancelledFinal
<1>1. ASSUME SerialInv, SerialInv', [ApiNext]_apiVars, NEW t \in Task,
             task[t].status = "CANCELLED"
      PROVE  task'[t].status = "CANCELLED" /\ prio'[t] = 0 /\ lease'[t] = NoLease
  <2>1. SUFFICES task'[t].status = "CANCELLED"
    BY <1>1, <2>1 DEF SerialInv, Place, LeaseFencing
  <2>2. CASE [Next]_vars
    <3>1. TypeOK /\ Accepted
      BY <1>1 DEF SerialInv, ApiInv, ApiTypeOK
    <3>2. Same(t)
      BY <1>1, <2>2, <3>1, ScriptPlaces DEF SerialInv, Resting
    <3>3. QED  BY <1>1, <3>2 DEF Same
  <2>3. ASSUME NEW r \in Request, CancelWrite(r)
        PROVE  task'[t].status = "CANCELLED"
    <3>1. req[r].blob \in TaskData
      BY <1>1 DEF SerialInv, ApiInv, ApiTypeOK, RequestData
    <3>2. [req[r].blob EXCEPT !.status = "CANCELLED"].status = "CANCELLED"
      BY <3>1 DEF TaskData
    <3>3. task' = [task EXCEPT ![req[r].task] = [req[r].blob EXCEPT !.status = "CANCELLED"]]
      BY <2>3 DEF CancelWrite
    <3>4. task \in [Task -> TaskData]
      BY <1>1 DEF SerialInv, ApiInv, ApiTypeOK, TypeOK
    <3>5. QED  BY <1>1, <3>2, <3>3, <3>4
  <2>4. ASSUME NEW r \in Request, RetryHset(r)
        PROVE  task'[t] = task[t]
    <3>1. req[r].task # t
      BY <1>1, <2>4 DEF RetryHset, IsAt, SerialInv, RetryPlace
    <3>2. QED  BY <2>4, <3>1 DEF RetryHset
  <2>5. CASE UNCHANGED task
    BY <1>1, <2>5
  <2>6. QED
    BY <1>1, <2>2, <2>3, <2>4, <2>5
    DEF ApiNext, Requests, CancelRead, RetryRead, Admit, RetryLrem, RetryZadd, Abort,
        apiVars, vars
<1>2. SerialInv /\ SerialInv' /\ [ApiNext]_apiVars =>
        [\A t \in Task : task[t].status = "CANCELLED" =>
           task'[t].status = "CANCELLED" /\ prio'[t] = 0 /\ lease'[t] = NoLease]_apiVars
  BY <1>1
<1>3. QED  BY <1>2, SerialRequests, PTL DEF CancelledFinal, ApiSpec

-----------------------------------------------------------------------------
(* What no overlap of requests breaks: the tokens of FencedTask.           *)

(* Leases are kept or dropped, and no claim is answered.                   *)
Dropped ==
  /\ UNCHANGED tickets
  /\ lease' \in [Task -> Lease \cup {NoLease}]
  /\ \A t \in Task : lease'[t] \in {lease[t], NoLease}

(* A claim is answered with a lease that was never handed out.             *)
Granted(t, w, l) ==
  /\ \A c \in tickets : c.lease # l
  /\ lease' = [lease EXCEPT ![t] = l]
  /\ tickets' = tickets \cup {[task |-> t, worker |-> w, lease |-> l]}

(* The scripts write no lease but a new one, in a claim.                   *)
LEMMA ScriptLeases ==
  ASSUME TypeOK, [Next]_vars
  PROVE  Dropped \/ \E t \in Task, w \in Worker, l \in Lease : Granted(t, w, l)
<1>1. lease \in [Task -> Lease \cup {NoLease}] /\ tickets \subseteq Ticket
  BY DEF TypeOK
<1>2. CASE UNCHANGED <<lease, tickets>>
  BY <1>1, <1>2 DEF Dropped
<1>3. ASSUME NEW w \in Worker, NEW l \in Lease, Claim(w, l)
      PROVE  \E t \in Task : Granted(t, w, l)
  BY <1>3 DEF Claim, Granted, Heads, Queued
<1>4. ASSUME NEW t, NEW w, Release(t, w), UNCHANGED tickets
      PROVE  Dropped
  BY <1>1, <1>4 DEF Release, Dropped
<1>5. ASSUME NEW c \in tickets, Complete(c) \/ FailRetry(c) \/ FailDead(c)
      PROVE  Dropped
  BY <1>4, <1>5 DEF Complete, FailRetry, FailDead
<1>6. ASSUME NEW t \in Task, Recover(t)
      PROVE  Dropped
  BY <1>4, <1>6 DEF Recover
<1>7. ASSUME NEW t \in Task, LeaseTick(t)
      PROVE  Dropped
  BY <1>1, <1>7 DEF LeaseTick, Dropped
<1>8. CASE PromoteScheduled \/ PromoteRetries
  BY <1>2, <1>8 DEF PromoteScheduled, PromoteRetries, Promote, PromoteBroken
<1>9. CASE Clients
  BY <1>2, <1>9 DEF Clients, EnqueueNow, EnqueueLater, Record
<1>10. QED
  BY <1>2, <1>3, <1>5, <1>6, <1>7, <1>8, <1>9
  DEF Next, Workers, Services, Time, Renew, PriorityAging, BecomeDue, KeyExpires, vars

(* The requests write none.                                                *)
LEMMA RequestLeases ==
  ASSUME TypeOK, Requests
  PROVE  Dropped
<1>1. lease \in [Task -> Lease \cup {NoLease}]
  BY DEF TypeOK
<1>2. CASE UNCHANGED <<lease, tickets>>
  BY <1>1, <1>2 DEF Dropped
<1>3. ASSUME NEW r \in Request, CancelWrite(r)
      PROVE  Dropped
  BY <1>1, <1>3 DEF CancelWrite, Withdraw, Dropped
<1>4. QED
  BY <1>2, <1>3
  DEF Requests, CancelRead, RetryRead, Admit, RetryHset, RetryLrem, RetryZadd, Abort, vars

(* So the leases stay apart and none comes back.                           *)
LEMMA LeasesApart ==
  ASSUME Fenced!OneTask,
         Dropped \/ \E t \in Task, w \in Worker, l \in Lease : Granted(t, w, l)
  PROVE  /\ Fenced!OneTask'
         /\ \A t \in Task, k \in {c.lease : c \in tickets} :
              lease[t] # k => lease'[t] # k
<1>1. PICK spent : spent = {c.lease : c \in tickets}
  OBVIOUS
<1>2. /\ spent \subseteq Lease /\ NoLease \notin Lease
      /\ lease \in [Task -> spent \cup {NoLease}]
      /\ \A t, u \in Task : lease[t] = lease[u] /\ lease[t] # NoLease => t = u
  BY <1>1, QueueAssumption DEF Fenced!OneTask
<1>3. CASE Dropped
  <2>1. /\ {c.lease : c \in tickets}' = spent
        /\ \A t \in Task : lease'[t] \in {lease[t], NoLease}
    BY <1>1, <1>3 DEF Dropped
  <2>2. lease' \in [Task -> spent \cup {NoLease}]
    BY <1>2, <1>3, <2>1 DEF Dropped
  <2>3. \A t, u \in Task : lease'[t] = lease'[u] /\ lease'[t] # NoLease => t = u
    BY <1>2, <2>1
  <2>4. Fenced!OneTask'
    BY <1>2, <2>1, <2>2, <2>3 DEF Fenced!OneTask
  <2>5. QED  BY <1>1, <1>2, <2>1, <2>4
<1>4. ASSUME NEW t \in Task, NEW w \in Worker, NEW l \in Lease, Granted(t, w, l)
      PROVE  /\ Fenced!OneTask'
             /\ \A u \in Task, k \in spent : lease[u] # k => lease'[u] # k
  <2>1. /\ {c.lease : c \in tickets}' = spent \cup {l} /\ l \notin spent
        /\ lease' = [lease EXCEPT ![t] = l]
    <3>1. [task |-> t, worker |-> w, lease |-> l].lease = l
      OBVIOUS
    <3>2. PICK k : k = [task |-> t, worker |-> w, lease |-> l]
      OBVIOUS
    <3>3. tickets' = tickets \cup {k} /\ k.lease = l
      BY <1>4, <3>1, <3>2 DEF Granted
    <3>4. {c.lease : c \in tickets'} = {c.lease : c \in tickets} \cup {k.lease}
      BY <3>3
    <3>5. l \notin spent
      BY <1>1, <1>4 DEF Granted
    <3>6. QED  BY <1>1, <1>4, <3>3, <3>4, <3>5 DEF Granted
  <2>2. lease' \in [Task -> spent \cup {l} \cup {NoLease}]
    BY <1>2, <2>1
  <2>3. \A u, v \in Task : lease'[u] = lease'[v] /\ lease'[u] # NoLease => u = v
    BY <1>2, <2>1
  <2>4. Fenced!OneTask'
    BY <1>2, <2>1, <2>2, <2>3 DEF Fenced!OneTask
  <2>5. QED  BY <1>2, <2>1, <2>4
<1>5. QED  BY <1>1, <1>3, <1>4

(* Cancel a running task, retry it, let another worker claim it, with any  *)
(* number of requests about it: the first worker never gets its lease back *)
(* and what it reports late is refused.  See FencedTask.                   *)
THEOREM ReplacedReportsRefused == ApiSpec => []Fenced!OneTask /\ Fenced!NeverAgain
<1>1. ApiInit => Fenced!OneTask
  BY DEF ApiInit, Init, Fenced!OneTask
<1>2. ApiInv /\ Fenced!OneTask /\ [ApiNext]_apiVars =>
        /\ Fenced!OneTask'
        /\ [\A t \in Task, k \in {c.lease : c \in tickets} :
              lease[t] # k => lease'[t] # k]_(Fenced!vars)
  <2> SUFFICES ASSUME ApiInv, Fenced!OneTask, [ApiNext]_apiVars
               PROVE  /\ Fenced!OneTask'
                      /\ \A t \in Task, k \in {c.lease : c \in tickets} :
                           lease[t] # k => lease'[t] # k
    OBVIOUS
  <2>1. TypeOK
    BY DEF ApiInv, ApiTypeOK
  <2>2. Requests \/ [Next]_vars
    BY DEF ApiNext, apiVars, vars
  <2>3. QED  BY <2>1, <2>2, ScriptLeases, RequestLeases, LeasesApart
<1>3. QED  BY <1>1, <1>2, ApiInvariant, PTL DEF ApiSpec, Fenced!NeverAgain
=============================================================================

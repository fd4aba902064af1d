----------------------------- MODULE TaskQueue -----------------------------
(***************************************************************************)
(* The Redis keyspace of TaskStorm and the Lua scripts that change it      *)
(* (backend/app/queue/scripts), called through class TaskQueue             *)
(* (backend/app/queue/task_queue.py) and the scheduler.                    *)
(*                                                                         *)
(* Redis runs a script to its end before any other command, so one script  *)
(* call is one action.  The callers are left open: any worker may claim,   *)
(* a worker may report an outcome with any lease it was ever given, and a  *)
(* recovery or a promotion may be requested at any time.                   *)
(***************************************************************************)
EXTENDS PriorityScore, Lifecycle, FiniteSets

CONSTANTS
  Task,         \* task ids (uuid4); one is drawn per accepted submission
  Worker,       \* worker ids
  Lease,        \* lease ids (uuid4); one is drawn per claim
  Key,          \* idempotency keys clients use
  Priority,     \* priorities clients submit (1 is served first)
  RetryLimit,   \* values of max_retries clients submit
  LeaseTicks,   \* lifetime of a lease, in ticks of its TTL
  AgingAmount,  \* PRIORITY_AGING_AMOUNT, passed to the script as max_tasks
  SeqStart,     \* ts:queue:sequence at the start: earlier tasks drew from it
  SeqKey,       \* do the callers pass the sequence key the scripts name?
  NoLease, NoWorker, NoKey, NoTask

ASSUME QueueAssumption ==
  /\ IsFiniteSet(Task)
  /\ Priority \subseteq 1..10
  /\ RetryLimit \subseteq Nat
  /\ LeaseTicks \in Nat \ {0}
  /\ AgingAmount \in Nat
  /\ SeqStart \subseteq Nat
  /\ SeqKey \in BOOLEAN
  /\ NoLease \notin Lease
  /\ NoWorker \notin Worker
  /\ NoKey \notin Key
  /\ NoTask \notin Task

VARIABLES
  task,     \* ts:task:{id}: the JSON blob of each task
  prio,     \* ts:queue:priority: the score of each member, 0 if not a member
  sched,    \* ts:queue:scheduled
  retry,    \* ts:queue:retry
  due,      \* members of sched and retry whose score lies in the past
  lease,    \* ts:lease:{id}
  ttl,      \* remaining lifetime of the lease keys
  active,   \* ts:tasks:active
  owned,    \* ts:worker:{id}:tasks
  dlq,      \* ts:dlq: how many times each task is in the list
  seq,      \* ts:queue:sequence
  idem,     \* ts:idempotency:{key}
  metrics,  \* ts:metrics:*
  tickets   \* what claim() has answered: who was given which task and lease

vars == <<task, prio, sched, retry, due, lease, ttl, active, owned, dlq, seq,
          idem, metrics, tickets>>

-----------------------------------------------------------------------------
(* The value space.                                                        *)

Status == {"PENDING", "QUEUED", "RUNNING", "RETRYING", "COMPLETED", "FAILED",
           "DLQ", "CANCELLED"}

(* A task id nobody has submitted yet has status "NONE": no hash exists.   *)
TaskData ==
  [status: Status \cup {"NONE"}, attempt: Nat, max_retries: Nat,
   priority: Nat, worker: Worker \cup {NoWorker},
   lease_id: Lease \cup {NoLease}, failures: Nat, key: Key \cup {NoKey}]

Blank ==
  [status |-> "NONE", attempt |-> 0, max_retries |-> 0, priority |-> 0,
   worker |-> NoWorker, lease_id |-> NoLease, failures |-> 0, key |-> NoKey]

Ticket == [task: Task, worker: Worker, lease: Lease]

Counters == [submitted: Nat, completed: Nat, failed: Nat, retried: Nat,
             recovered: Nat]

Submitted == {t \in Task : task[t].status # "NONE"}
Having(s) == {t \in Task : task[t].status = s}

(* The entries of all the retry_history lists, by task and position.       *)
RetryHistory == UNION {{t} \X (1..task[t].failures) : t \in Task}

Queued    == {t \in Task : prio[t] # 0}

(* The members of ts:queue:priority that ZPOPMIN may return.  Equal scores *)
(* are ordered by member, a random uuid.                                   *)
Heads == {t \in Queued : \A u \in Queued : prio[t] <= prio[u]}

Init ==
  /\ task = [t \in Task |-> Blank]
  /\ prio = [t \in Task |-> 0]
  /\ sched = {}
  /\ retry = {}
  /\ due = {}
  /\ lease = [t \in Task |-> NoLease]
  /\ ttl = [t \in Task |-> 0]
  /\ active = {}
  /\ owned = [w \in Worker |-> {}]
  /\ dlq = [t \in Task |-> 0]
  /\ seq \in SeqStart
  /\ idem = [k \in Key |-> NoTask]
  /\ metrics = [submitted |-> 0, completed |-> 0, failed |-> 0,
                retried |-> 0, recovered |-> 0]
  /\ tickets = {}

-----------------------------------------------------------------------------
(* enqueue_task.lua, called by TaskQueue.enqueue.                          *)

(* SET NX: a submission under a live key creates nothing; its caller gets  *)
(* the id of the task that owns the key.                                   *)
KeyFree(k) == k # NoKey => idem[k] = NoTask

(* The hash, the index and the counter written for a task with the key k.  *)
Record(t, p, m, k, status) ==
  /\ t \notin Submitted
  /\ KeyFree(k)
  /\ task' = [task EXCEPT ![t] = [Blank EXCEPT !.status = status,
                                    !.max_retries = m, !.priority = p, !.key = k]]
  /\ idem' = [x \in Key |-> IF x = k THEN t ELSE idem[x]]
  /\ metrics' = [metrics EXCEPT !.submitted = @ + 1]
  /\ UNCHANGED <<retry, due, lease, ttl, active, owned, dlq, tickets>>

(* A task to run as soon as possible draws a sequence number.              *)
EnqueueNow(t, p, m, k) ==
  /\ Record(t, p, m, k, "QUEUED")
  /\ seq' = seq + 1
  /\ prio' = [prio EXCEPT ![t] = Score(p, seq + 1)]
  /\ UNCHANGED sched

(* A task with scheduled_at waits in the scheduled set.                    *)
EnqueueLater(t, p, m, k) ==
  /\ Record(t, p, m, k, "PENDING")
  /\ sched' = sched \cup {t}
  /\ UNCHANGED <<prio, seq>>

-----------------------------------------------------------------------------
(* claim_task.lua, called by TaskQueue.claim with a fresh lease id.        *)

(* ZPOPMIN takes the member out of the queue.                              *)
Popped_Peeked(t) == prio
Popped(t) == [prio EXCEPT ![t] = 0]

(* The new blob.                                                           *)
Started(t, w, l) ==
  [task[t] EXCEPT !.status = "RUNNING", !.worker = w, !.lease_id = l,
                  !.attempt = @ + 1]

Claim(w, l) ==
  /\ \A c \in tickets : c.lease # l
  /\ \E t \in Heads :
       /\ prio' = Popped(t)
       /\ task' = [task EXCEPT ![t] = Started(t, w, l)]
       /\ active' = active \cup {t}
       /\ owned' = [owned EXCEPT ![w] = @ \cup {t}]
       /\ lease' = [lease EXCEPT ![t] = l]
       /\ ttl' = [ttl EXCEPT ![t] = LeaseTicks]
       /\ tickets' = tickets \cup {[task |-> t, worker |-> w, lease |-> l]}
  /\ UNCHANGED <<sched, retry, due, dlq, seq, idem, metrics>>

-----------------------------------------------------------------------------
(* The scripts that end an execution.                                      *)

(* The fence: the lease presented is the one the lease key holds now.      *)
Holds_Unfenced(c) == TRUE
Holds(c) == lease[c.task] = c.lease

(* The task leaves the active set and the set of the worker w, and its     *)
(* lease key is deleted.                                                   *)
Release_KeepsLease(t, w) ==
  /\ active' = active \ {t}
  /\ owned' = [owned EXCEPT ![w] = @ \ {t}]
  /\ UNCHANGED <<lease, ttl>>
Release_KeepsOwner(t, w) ==
  /\ active' = active \ {t}
  /\ lease' = [lease EXCEPT ![t] = NoLease]
  /\ ttl' = [ttl EXCEPT ![t] = 0]
  /\ UNCHANGED owned
Release(t, w) ==
  /\ active' = active \ {t}
  /\ owned' = [owned EXCEPT ![w] = @ \ {t}]
  /\ lease' = [lease EXCEPT ![t] = NoLease]
  /\ ttl' = [ttl EXCEPT ![t] = 0]

(* complete_task.lua, called by TaskQueue.complete.                        *)
Complete(c) ==
  /\ Holds(c)
  /\ Release(c.task, c.worker)
  /\ task' = [task EXCEPT ![c.task].status = "COMPLETED"]
  /\ metrics' = [metrics EXCEPT !.completed = @ + 1]
  /\ UNCHANGED <<prio, sched, retry, due, dlq, seq, idem, tickets>>

RetriesLeft_OneMore(t) == task[t].attempt <= task[t].max_retries + 1
RetriesLeft(t) == task[t].attempt <= task[t].max_retries

(* The blob of a failed execution, its entry in retry_history included.    *)
Failed(t, status) == [task[t] EXCEPT !.status = status, !.failures = @ + 1]

(* fail_task.lua while retries remain: back off in the retry set.          *)
FailRetry(c) ==
  /\ Holds(c)
  /\ RetriesLeft(c.task)
  /\ Release(c.task, c.worker)
  /\ task' = [task EXCEPT ![c.task] = Failed(c.task, "RETRYING")]
  /\ retry' = retry \cup {c.task}
  /\ metrics' = [metrics EXCEPT !.retried = @ + 1]
  /\ UNCHANGED <<prio, sched, due, dlq, seq, idem, tickets>>

(* fail_task.lua with the retries used up: to the dead-letter list.        *)
FailDead(c) ==
  /\ Holds(c)
  /\ ~RetriesLeft(c.task)
  /\ Release(c.task, c.worker)
  /\ task' = [task EXCEPT ![c.task] = Failed(c.task, "DLQ")]
  /\ dlq' = [dlq EXCEPT ![c.task] = @ + 1]
  /\ metrics' = [metrics EXCEPT !.failed = @ + 1]
  /\ UNCHANGED <<prio, sched, retry, due, seq, idem, tickets>>

(* renew_lease.lua: only the lease on record is extended.                  *)
Renew(c) ==
  /\ Holds(c)
  /\ ttl' = [ttl EXCEPT ![c.task] = LeaseTicks]
  /\ UNCHANGED <<task, prio, sched, retry, due, lease, active, owned, dlq, seq,
                 idem, metrics, tickets>>

(* recover_task.lua.  TaskQueue.recover, which only the tests call, passes *)
(* seven keys.  RecoveryService._recover_task passes six: KEYS[7] is nil,  *)
(* so INCR of the sequence key raises and the script ends there, with the  *)
(* writes before it kept and ZADD never reached.                           *)
Recoverable_Unchecked(t) == task[t].worker # NoWorker
Recoverable(t) == task[t].status = "RUNNING"

Recover(t) ==
  /\ Recoverable(t)
  /\ task' = [task EXCEPT ![t].status = "QUEUED"]
  /\ Release(t, task[t].worker)
  /\ metrics' = [metrics EXCEPT !.recovered = @ + 1]
  /\ IF SeqKey
     THEN /\ seq' = seq + 1
          /\ prio' = [prio EXCEPT ![t] = Score(task[t].priority, seq + 1)]
     ELSE UNCHANGED <<seq, prio>>
  /\ UNCHANGED <<sched, retry, due, dlq, idem, tickets>>

-----------------------------------------------------------------------------
(* promote_scheduled.lua and promote_retries.lua.                          *)

(* The body of both, given the three keys it names, for the due members of *)
(* one set in some order of their scores: each is marked QUEUED and queued *)
(* under a sequence number of its own.  SchedulerService passes two keys   *)
(* (see PromoteBroken): this is what the scripts are written to do.        *)
Promote(batch) ==
  /\ batch # {}
  /\ task' = [t \in Task |-> IF t \in batch
                             THEN [task[t] EXCEPT !.status = "QUEUED"]
                             ELSE task[t]]
  /\ \E rank \in [batch -> 1..Cardinality(batch)] :
       /\ \A t, u \in batch : rank[t] = rank[u] => t = u
       /\ prio' = [t \in Task |-> IF t \in batch
                                  THEN Score(task[t].priority, seq + rank[t])
                                  ELSE prio[t]]
  /\ seq' = seq + Cardinality(batch)
  /\ due' = due \ batch
  /\ UNCHANGED <<lease, ttl, active, owned, dlq, idem, metrics, tickets>>

(* Called as SchedulerService calls it, without the sequence key, the      *)
(* script raises at the INCR for the first member: that member is marked   *)
(* QUEUED and stays where it is.                                           *)
PromoteBroken_Removed(batch) ==
  /\ \E t \in batch :
       /\ task' = [task EXCEPT ![t].status = "QUEUED"]
       /\ sched' = sched \ {t}
       /\ retry' = retry \ {t}
       /\ due' = due \ {t}
  /\ UNCHANGED <<prio, lease, ttl, active, owned, dlq, seq, idem, metrics, tickets>>
PromoteBroken(batch) ==
  /\ \E t \in batch : task' = [task EXCEPT ![t].status = "QUEUED"]
  /\ UNCHANGED <<prio, sched, retry, due, lease, ttl, active, owned, dlq, seq,
                 idem, metrics, tickets>>

(* What ZREMRANGEBYSCORE leaves of the set.                                *)
Remaining_Cleared(S) == {}
Remaining(S) == S \ due

PromoteScheduled ==
  IF SeqKey
  THEN /\ Promote(sched \cap due)
       /\ sched' = Remaining(sched)
       /\ UNCHANGED retry
  ELSE PromoteBroken(sched \cap due)

PromoteRetries ==
  IF SeqKey
  THEN /\ Promote(retry \cap due)
       /\ retry' = Remaining(retry)
       /\ UNCHANGED sched
  ELSE PromoteBroken(retry \cap due)

(* The members ZRANGE p_queue 0 (max_tasks - 1) returns; with max_tasks 0  *)
(* the range ends at -1, the last member.                                  *)
Slice_Whole(S) == S = Queued
Slice(S) ==
  /\ S \subseteq Queued
  /\ \A t \in S, u \in Queued \ S : prio[t] <= prio[u]
  /\ S = Queued \/ (AgingAmount > 0 /\ Cardinality(S) = AgingAmount)
  /\ AgingAmount > 0 => Cardinality(S) <= AgingAmount

(* priority_aging.lua: the first members of the queue move up one level,   *)
(* unless they are on the first already.  The new score is handed to ZADD  *)
(* as a number, which Redis writes with 17 digits: nothing is lost.        *)
PriorityAging ==
  /\ \E S \in SUBSET Task :
       /\ Slice(S)
       /\ \E t \in S : Level(prio[t]) > 1
       /\ prio' = [t \in Task |-> IF t \in S /\ Level(prio[t]) > 1
                                  THEN prio[t] - Unit ELSE prio[t]]
  /\ UNCHANGED <<task, sched, retry, due, lease, ttl, active, owned, dlq, seq,
                 idem, metrics, tickets>>

-----------------------------------------------------------------------------
(* The passing of time in Redis.                                           *)

(* A tick of the TTL of a lease key; at zero the key is gone.              *)
LeaseTick(t) ==
  /\ ttl[t] > 0
  /\ ttl' = [ttl EXCEPT ![t] = @ - 1]
  /\ lease' = [lease EXCEPT ![t] = IF ttl[t] = 1 THEN NoLease ELSE @]
  /\ UNCHANGED <<task, prio, sched, retry, due, active, owned, dlq, seq, idem,
                 metrics, tickets>>

(* The clock passes the score of a member of the scheduled or retry set.   *)
BecomeDue(t) ==
  /\ t \in (sched \cup retry) \ due
  /\ due' = due \cup {t}
  /\ UNCHANGED <<task, prio, sched, retry, lease, ttl, active, owned, dlq, seq,
                 idem, metrics, tickets>>

(* The TTL of an idempotency key (a day) runs out.                         *)
KeyExpires(k) ==
  /\ idem[k] # NoTask
  /\ idem' = [idem EXCEPT ![k] = NoTask]
  /\ UNCHANGED <<task, prio, sched, retry, due, lease, ttl, active, owned, dlq,
                 seq, metrics, tickets>>

-----------------------------------------------------------------------------
Clients ==
  \E t \in Task, p \in Priority, m \in RetryLimit, k \in Key \cup {NoKey} :
    EnqueueNow(t, p, m, k) \/ EnqueueLater(t, p, m, k)

Workers ==
  \/ \E w \in Worker, l \in Lease : Claim(w, l)
  \/ \E c \in tickets : Complete(c) \/ FailRetry(c) \/ FailDead(c) \/ Renew(c)

Services ==
  \/ \E t \in Task : Recover(t)
  \/ PromoteScheduled
  \/ PromoteRetries
  \/ PriorityAging

Time ==
  \/ \E t \in Task : LeaseTick(t) \/ BecomeDue(t)
  \/ \E k \in Key : KeyExpires(k)

Next == Clients \/ Workers \/ Services \/ Time

Spec == Init /\ [][Next]_vars

(* Time passes, and the loops of SchedulerService run forever: each round  *)
(* catches what its script raises and sleeps before the next.  Their calls *)
(* are those of SeqKey = FALSE.                                            *)
SchedulerFairness ==
  /\ \A t \in Task : WF_vars(BecomeDue(t))
  /\ WF_vars(PromoteScheduled)
  /\ WF_vars(PromoteRetries)
  /\ WF_vars(PriorityAging)

FairSpec == Spec /\ SchedulerFairness

-----------------------------------------------------------------------------
(* Properties.                                                             *)

(* Every variable holds a value of its type.                               *)
TypeOK ==
  /\ task \in [Task -> TaskData]
  /\ prio \in [Task -> Nat]
  /\ sched \in SUBSET Task
  /\ retry \in SUBSET Task
  /\ due \in SUBSET Task
  /\ lease \in [Task -> Lease \cup {NoLease}]
  /\ ttl \in [Task -> 0..LeaseTicks]
  /\ active \in SUBSET Task
  /\ owned \in [Worker -> SUBSET Task]
  /\ dlq \in [Task -> Nat]
  /\ seq \in Nat
  /\ idem \in [Key -> Task \cup {NoTask}]
  /\ metrics \in Counters
  /\ tickets \in SUBSET Ticket

(* No task sits in two of the structures that hand tasks on: the priority  *)
(* queue, the scheduled and retry sets, the active set and the dead-letter *)
(* list (each there at most once).  The scripts move a task by separate    *)
(* writes to two of them, so this is about every script at once.           *)
SinglePlace ==
  /\ sched \cap retry = {}
  /\ active \cap (sched \cup retry) = {}
  /\ \A t \in Queued : t \notin sched \cup retry \cup active
  /\ \A t \in Task :
       dlq[t] > 0 => dlq[t] = 1 /\ t \notin Queued \cup sched \cup retry \cup active

(* No accepted task is lost: one that has not ended is where its status    *)
(* says, so that a claim, a promotion or a recovery can still find it.     *)
NothingLost ==
  \A t \in Task :
    /\ task[t].status = "PENDING"  => t \in sched
    /\ task[t].status = "QUEUED"   => t \in Queued
    /\ task[t].status = "RETRYING" => t \in retry
    /\ task[t].status = "RUNNING"  => t \in active
    /\ task[t].status = "DLQ"      => dlq[t] = 1

(* A live lease proves ownership: its task is RUNNING on the one worker    *)
(* that was answered with it, and no later claim has replaced it.          *)
LeaseFencing ==
  \A t \in Task : lease[t] # NoLease =>
    /\ ttl[t] > 0
    /\ task[t].status = "RUNNING"
    /\ task[t].lease_id = lease[t]
    /\ [task |-> t, worker |-> task[t].worker, lease |-> lease[t]] \in tickets

(* The two indexes recovery and the API read, ts:tasks:active and          *)
(* ts:worker:{id}:tasks, agree with the blobs after every script.          *)
OwnershipIndex ==
  /\ active = {t \in Task : task[t].status = "RUNNING"}
  /\ \A w \in Worker : owned[w] = {t \in active : task[t].worker = w}

(* max_retries bounds the failed executions, however claims, failures and  *)
(* recoveries alternate; no task is given up on or retried out of turn.    *)
RetryBudget ==
  \A t \in Task :
    /\ task[t].failures <= task[t].max_retries + 1
    /\ task[t].failures <= task[t].attempt
    /\ task[t].status = "RETRYING" => task[t].attempt <= task[t].max_retries
    /\ task[t].status = "DLQ" => task[t].attempt > task[t].max_retries

(* The counters of ts:metrics:* count what the blobs say: one submission   *)
(* per task, one completion per COMPLETED task, one failure per DLQ task,  *)
(* and every entry of a retry_history was counted as retried or failed.    *)
MetricsAgree ==
  /\ metrics.submitted = Cardinality(Submitted)
  /\ metrics.completed = Cardinality(Having("COMPLETED"))
  /\ metrics.failed = Cardinality(Having("DLQ"))
  /\ metrics.retried + metrics.failed = Cardinality(RetryHistory)

(* COMPLETED and DLQ are final for the scripts: no late complete, fail,    *)
(* recovery or promotion, in any order, moves such a task again.           *)
TerminalFinal ==
  [][\A t \in Task : task[t].status \in {"COMPLETED", "DLQ"} =>
       task'[t] = task[t] /\ ~(t \in active' \/ prio'[t] # 0)]_vars

(* A task can get lost in one way only: a recovery of it that lacks the    *)
(* sequence key breaks off.  No other script, broken off or not, takes a   *)
(* task out of one structure without a place in the next.                  *)
Lost(t) == task[t].status = "QUEUED" /\ t \notin Queued \cup sched \cup retry

OnlyRecoveryLoses ==
  [][\A t \in Task : Lost(t)' /\ ~Lost(t) => ~SeqKey /\ Recover(t)]_vars

(* The scripts move statuses along ScriptMoves only, which is what         *)
(* Dashboard, where tasks move along Lifecycle, takes for granted.  (It is *)
(* more than the task model allows: see TransitionsValid.)                 *)
AlongScriptMoves ==
  [][\A t \in Task : task'[t].status # task[t].status =>
       \E m \in ScriptMoves : m[1] = task[t].status /\ m[2] = task'[t].status]_vars

(* A task that enters the queue never gets a lower score than a task of    *)
(* its priority already in it, nor a score that beats a better priority,   *)
(* although scores are rounded and aging moves them.                       *)
NoOvertaking ==
  [][\A t, u \in Task : prio[t] = 0 /\ prio'[t] # 0 /\ prio[u] # 0 =>
       (task[u].priority <= task'[t].priority => prio[u] <= prio'[t])]_vars

(* Nothing reorders tasks that stay queued; with AgingAmount = 1 not even  *)
(* aging does.                                                             *)
OrderKept ==
  [][\A t, u \in Queued : prio[t] < prio[u] /\ prio'[t] # 0 /\ prio'[u] # 0 =>
       prio'[t] < prio'[u]]_vars

(* The queue implements FencedTask: whatever a script, a tick or a late     *)
(* report does to a task is one of its steps or changes nothing it sees.   *)
Phase(t) ==
  CASE task[t].status = "NONE" -> "absent"
    [] task[t].status = "RUNNING" -> "held"
    [] task[t].status \in {"COMPLETED", "DLQ"} -> "done"
    [] OTHER -> "waiting"

Fenced == INSTANCE FencedTask WITH
  Token <- Lease, NoToken <- NoLease, phase <- [t \in Task |-> Phase(t)],
  token <- lease, spent <- {c.lease : c \in tickets}

ImplementsFencedTask == Fenced!Spec

-----------------------------------------------------------------------------
(* The inductive invariant behind the safety properties.                   *)

(* Each structure holds tasks of the status that belongs there.  Without   *)
(* the sequence key a task marked QUEUED can stay behind in its set.       *)
Places ==
  \A t \in Task :
    /\ t \in Queued => task[t].status = "QUEUED" /\ t \notin sched \cup retry
    /\ t \in sched  => task[t].status \in {"PENDING", "QUEUED"}
    /\ t \in retry  => task[t].status \in {"RETRYING", "QUEUED"} /\ t \notin sched
    /\ dlq[t] = IF task[t].status = "DLQ" THEN 1 ELSE 0

(* A lease id is handed out once.                                          *)
TicketsDiffer == \A c, d \in tickets : c.lease = d.lease => c = d

(* The score of a queued task was drawn from the counter, or aged since.   *)
ScoresDrawn ==
  \A t \in Task :
    /\ task[t].status # "NONE" => task[t].priority \in 1..10
    /\ t \in Queued => prio[t] <= Score(task[t].priority, seq)

(* A task id that was never accepted has no hash to write to.              *)
NoHashYet == \A t \in Task : task[t].status = "NONE" => task[t] = Blank

(* An idempotency key names the task that was accepted under it.           *)
KeysName ==
  \A k \in Key : idem[k] # NoTask => idem[k] \in Submitted /\ task[idem[k]].key = k

QueueInv ==
  /\ TypeOK
  /\ Places
  /\ LeaseFencing
  /\ OwnershipIndex
  /\ TicketsDiffer
  /\ ScoresDrawn
  /\ NoHashYet
  /\ KeysName

(* What makes RetryBudget inductive: every failure used up one attempt,    *)
(* the attempt of a running task is still open, and only DLQ exceeds the   *)
(* limit.                                                                  *)
WithinBudget(b) ==
  /\ b.failures <= b.attempt
  /\ b.status = "RUNNING"  => b.failures < b.attempt
  /\ b.status = "RETRYING" => b.attempt <= b.max_retries
  /\ b.status = "DLQ"  => b.attempt > b.max_retries /\ b.failures <= b.max_retries + 1
  /\ b.status # "DLQ" => b.failures <= b.max_retries

BudgetInv == \A t \in Task : WithinBudget(task[t])

-----------------------------------------------------------------------------
(* What the documentation states and the scripts do not keep.              *)

(* A QUEUED task is in one of the sets something takes tasks from          *)
(* (docs/architecture.md:25, :73).  recover_task.lua, called as the        *)
(* recovery service calls it, leaves the task in none.                     *)
QueuedIsFindable == \A t \in Task : ~Lost(t)

(* "Matching tasks are moved to ts:queue:priority"                         *)
(* (docs/redis-data-model.md:61): a task that waits for its time or its    *)
(* next attempt is queued in the end.  Every promotion the scheduler asks  *)
(* for breaks off, the next one at the same member.                        *)
WaitingIsQueued ==
  \A t \in Task : task[t].status \in {"PENDING", "RETRYING"} ~> t \in Queued

(* "Every state transition is enforced by a validator. Illegal transitions *)
(* are rejected." (README.md:49)  No script asks validate_transition: a    *)
(* running task goes straight to DLQ, or back to QUEUED.                   *)
TransitionsValid ==
  [][\A t \in Task : task'[t].status # task[t].status =>
       <<task[t].status, task'[t].status>> \in ValidTransitions]_vars
=============================================================================

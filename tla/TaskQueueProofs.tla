-------------------------- MODULE TaskQueueProofs --------------------------
(***************************************************************************)
(* Proofs about TaskQueue for every set of tasks, workers, leases and      *)
(* keys, every lease time, every aging amount, and for both ways of        *)
(* calling the scripts (SeqKey).                                           *)
(*                                                                         *)
(* QueueInv is inductive: one lemma per conjunct, one step per action.     *)
(***************************************************************************)
EXTENDS TaskQueue, PriorityScoreProofs, FiniteSetTheorems

(* What the scripts write is a blob again.                                 *)
LEMMA StatusBlob ==
  ASSUME NEW r \in TaskData, NEW s \in Status
  PROVE  [r EXCEPT !.status = s] \in TaskData
BY DEF TaskData

(* The blob of a new task.                                                 *)
LEMMA AcceptedBlob ==
  ASSUME NEW p \in Priority, NEW m \in RetryLimit, NEW k \in Key \cup {NoKey},
         NEW s \in Status
  PROVE  [Blank EXCEPT !.status = s, !.max_retries = m, !.priority = p, !.key = k]
           \in TaskData
<1>1. p \in Nat /\ m \in Nat
  BY QueueAssumption
<1>2. Blank \in TaskData
  BY DEF Blank, TaskData
<1>3. ASSUME NEW b \in TaskData
      PROVE  [b EXCEPT !.status = s, !.max_retries = m, !.priority = p, !.key = k]
               \in TaskData
  BY <1>1 DEF TaskData
<1>4. QED  BY <1>2, <1>3

(* The blob of a claimed task.                                             *)
LEMMA StartedBlob ==
  ASSUME TypeOK, NEW t \in Task, NEW w \in Worker, NEW l \in Lease
  PROVE  Started(t, w, l) \in TaskData
<1>1. ASSUME NEW r \in TaskData
      PROVE  [r EXCEPT !.status = "RUNNING", !.worker = w, !.lease_id = l,
                       !.attempt = @ + 1] \in TaskData
  <2>1. r.attempt + 1 \in Nat  BY DEF TaskData
  <2>2. QED  BY <2>1 DEF TaskData, Status
<1>2. QED  BY <1>1 DEF TypeOK, Started

(* The blob of a failed execution.                                         *)
LEMMA FailedBlob ==
  ASSUME TypeOK, NEW t \in Task, NEW s \in Status
  PROVE  Failed(t, s) \in TaskData
<1>1. ASSUME NEW r \in TaskData
      PROVE  [r EXCEPT !.status = s, !.failures = @ + 1] \in TaskData
  <2>1. r.failures + 1 \in Nat  BY DEF TaskData
  <2>2. QED  BY <2>1 DEF TaskData
<1>2. QED  BY <1>1 DEF TypeOK, Failed

(* A counter that is incremented is a counter.                             *)
LEMMA CountersType ==
  ASSUME TypeOK
  PROVE  /\ [metrics EXCEPT !.submitted = @ + 1] \in Counters
         /\ [metrics EXCEPT !.completed = @ + 1] \in Counters
         /\ [metrics EXCEPT !.failed = @ + 1] \in Counters
         /\ [metrics EXCEPT !.retried = @ + 1] \in Counters
         /\ [metrics EXCEPT !.recovered = @ + 1] \in Counters
<1>1. ASSUME NEW m \in Counters
      PROVE  /\ [m EXCEPT !.submitted = @ + 1] \in Counters
             /\ [m EXCEPT !.completed = @ + 1] \in Counters
             /\ [m EXCEPT !.failed = @ + 1] \in Counters
             /\ [m EXCEPT !.retried = @ + 1] \in Counters
             /\ [m EXCEPT !.recovered = @ + 1] \in Counters
  BY DEF Counters
<1>2. QED  BY <1>1 DEF TypeOK

(* Leaving the indexes and dropping the lease keeps their types.           *)
LEMMA ReleaseType ==
  ASSUME TypeOK, NEW t \in Task, NEW w, Release(t, w)
  PROVE  /\ active' \in SUBSET Task
         /\ owned' \in [Worker -> SUBSET Task]
         /\ lease' \in [Task -> Lease \cup {NoLease}]
         /\ ttl' \in [Task -> 0..LeaseTicks]
<1>1. owned' \in [Worker -> SUBSET Task]
  <2>1. owned' = [x \in Worker |-> IF x = w THEN owned[x] \ {t} ELSE owned[x]]
    BY DEF TypeOK, Release
  <2>2. QED  BY <2>1 DEF TypeOK
<1>2. ttl' \in [Task -> 0..LeaseTicks]
  BY QueueAssumption DEF TypeOK, Release
<1>3. QED  BY <1>1, <1>2 DEF TypeOK, Release

(* What type correctness rests on: what waits has been accepted, and what  *)
(* has been accepted has a priority.                                       *)
Accepted ==
  \A t \in Task :
    /\ t \in sched \cup retry \cup Queued => task[t].status # "NONE"
    /\ task[t].status # "NONE" => task[t].priority \in 1..10

(* What the fence rests on: no task that waits to be taken is RUNNING.     *)
Waits ==
  \A t \in Task :
    /\ t \in Queued => task[t].status = "QUEUED"
    /\ t \in sched \cup retry => task[t].status \in {"PENDING", "RETRYING", "QUEUED"}

(* The invariant of the queue includes all of this.                        *)
LEMMA AcceptedInv == QueueInv => TypeOK /\ Accepted /\ Waits
BY DEF QueueInv, Accepted, Places, ScoresDrawn, Waits

(* The score of an accepted task, whatever the counter.                    *)
LEMMA AcceptedScore ==
  ASSUME Accepted, NEW t \in Task, task[t].status # "NONE", NEW s \in Nat
  PROVE  Score(task[t].priority, s) \in Nat \ {0}
BY ScoreType DEF Accepted

(* The same from the invariant of the queue.                               *)
LEMMA TaskScore ==
  ASSUME QueueInv, NEW t \in Task, task[t].status # "NONE", NEW s \in Nat
  PROVE  Score(task[t].priority, s) \in Nat \ {0}
BY AcceptedInv, AcceptedScore

(* The batches of a promotion are finite, so their size is a number.       *)
LEMMA BatchSize ==
  ASSUME NEW S, S \subseteq Task
  PROVE  IsFiniteSet(S) /\ Cardinality(S) \in Nat
BY QueueAssumption, FS_Subset, FS_CardinalityType

(* A task whose lease a report presents is RUNNING on the reporting        *)
(* worker: the fence does all the checking.                                *)
LEMMA HolderRuns ==
  ASSUME QueueInv, NEW c \in tickets, Holds(c)
  PROVE  /\ c \in Ticket
         /\ task[c.task].status = "RUNNING"
         /\ task[c.task].worker = c.worker
         /\ task[c.task].lease_id = c.lease
<1> USE DEF QueueInv
<1>1. c \in Ticket /\ c.task \in Task /\ c.lease \in Lease
  BY DEF TypeOK, Ticket
<1>2. lease[c.task] # NoLease
  BY <1>1, QueueAssumption DEF Holds
<1> DEFINE d == [task |-> c.task, worker |-> task[c.task].worker,
                 lease |-> lease[c.task]]
<1>3. /\ task[c.task].status = "RUNNING"
      /\ task[c.task].lease_id = lease[c.task]
      /\ d \in tickets
  BY <1>1, <1>2 DEF LeaseFencing
<1>4. d.lease = c.lease
  BY DEF Holds
<1>5. d = c
  BY <1>3, <1>4 DEF TicketsDiffer
<1>6. d.worker = c.worker
  BY <1>5
<1>7. QED  BY <1>1, <1>3, <1>6 DEF Holds

-----------------------------------------------------------------------------
(* An empty keyspace.                                                      *)
LEMMA InitInv == Init => QueueInv
<1> SUFFICES ASSUME Init PROVE QueueInv  OBVIOUS
<1> USE DEF Init
<1>1. TypeOK
  BY QueueAssumption DEF TypeOK, Blank, TaskData, Status, Counters
<1>2. Places
  BY DEF Places, Queued, Blank
<1>3. LeaseFencing
  BY DEF LeaseFencing
<1>4. OwnershipIndex
  BY DEF OwnershipIndex, Blank
<1>5. TicketsDiffer
  BY DEF TicketsDiffer
<1>6. ScoresDrawn
  BY DEF ScoresDrawn, Queued, Blank
<1>7. NoHashYet /\ KeysName
  BY DEF NoHashYet, KeysName
<1>8. QED  BY <1>1, <1>2, <1>3, <1>4, <1>5, <1>6, <1>7 DEF QueueInv

-----------------------------------------------------------------------------
(* The scripts keep the types.                                             *)
LEMMA TypeStep == TypeOK /\ Accepted /\ [Next]_vars => TypeOK'
<1> SUFFICES ASSUME TypeOK, Accepted, [Next]_vars PROVE TypeOK'  OBVIOUS
<1> USE DEF TypeOK
<1>1. ASSUME NEW t \in Task, NEW p \in Priority, NEW m \in RetryLimit,
             NEW k \in Key \cup {NoKey}, NEW s \in {"QUEUED", "PENDING"},
             Record(t, p, m, k, s)
      PROVE  /\ task' \in [Task -> TaskData] /\ idem' \in [Key -> Task \cup {NoTask}]
             /\ metrics' \in Counters
             /\ UNCHANGED <<retry, due, lease, ttl, active, owned, dlq, tickets>>
  <2>1. [Blank EXCEPT !.status = s, !.max_retries = m, !.priority = p, !.key = k]
          \in TaskData
    BY AcceptedBlob DEF Status
  <2>2. QED  BY <1>1, <2>1, CountersType DEF Record
<1>2. ASSUME NEW t \in Task, NEW p \in Priority, NEW m \in RetryLimit,
             NEW k \in Key \cup {NoKey}, EnqueueNow(t, p, m, k)
      PROVE  TypeOK'
  <2>1. Score(p, seq + 1) \in Nat
    <3>1. p \in 1..10 /\ seq + 1 \in Nat
      BY QueueAssumption
    <3>2. QED  BY <3>1, ScoreType
  <2>2. QED  BY <1>1, <1>2, <2>1 DEF EnqueueNow
<1>3. ASSUME NEW t \in Task, NEW p \in Priority, NEW m \in RetryLimit,
             NEW k \in Key \cup {NoKey}, EnqueueLater(t, p, m, k)
      PROVE  TypeOK'
  BY <1>1, <1>3 DEF EnqueueLater
<1>4. ASSUME NEW w \in Worker, NEW l \in Lease, Claim(w, l)
      PROVE  TypeOK'
  <2> PICK t \in Heads :
         /\ prio' = Popped(t)
         /\ task' = [task EXCEPT ![t] = Started(t, w, l)]
         /\ active' = active \cup {t}
         /\ owned' = [owned EXCEPT ![w] = @ \cup {t}]
         /\ lease' = [lease EXCEPT ![t] = l]
         /\ ttl' = [ttl EXCEPT ![t] = LeaseTicks]
         /\ tickets' = tickets \cup {[task |-> t, worker |-> w, lease |-> l]}
    BY <1>4 DEF Claim
  <2>1. t \in Task
    BY DEF Heads, Queued
  <2>2. Started(t, w, l) \in TaskData
    BY <2>1, StartedBlob
  <2>3. QED
    BY <1>4, <2>1, <2>2, QueueAssumption DEF Claim, Popped, Ticket
<1>5. ASSUME NEW c \in tickets, Complete(c)
      PROVE  TypeOK'
  <2>1. c.task \in Task /\ c.worker \in Worker  BY DEF Ticket
  <2>2. [task[c.task] EXCEPT !.status = "COMPLETED"] \in TaskData
    BY <2>1, StatusBlob DEF Status
  <2>3. QED  BY <1>5, <2>1, <2>2, CountersType, QueueAssumption
       DEF Complete, Release
<1>6. ASSUME NEW c \in tickets, FailRetry(c)
      PROVE  TypeOK'
  <2>1. c.task \in Task /\ c.worker \in Worker  BY DEF Ticket
  <2>2. Failed(c.task, "RETRYING") \in TaskData
    BY <2>1, FailedBlob DEF Status
  <2>3. QED  BY <1>6, <2>1, <2>2, CountersType, QueueAssumption
       DEF FailRetry, Release
<1>7. ASSUME NEW c \in tickets, FailDead(c)
      PROVE  TypeOK'
  <2>1. c.task \in Task /\ c.worker \in Worker  BY DEF Ticket
  <2>2. Failed(c.task, "DLQ") \in TaskData
    BY <2>1, FailedBlob DEF Status
  <2>3. QED  BY <1>7, <2>1, <2>2, CountersType, QueueAssumption
       DEF FailDead, Release
<1>8. ASSUME NEW c \in tickets, Renew(c)
      PROVE  TypeOK'
  BY <1>8, QueueAssumption DEF Renew, Ticket
<1>9. ASSUME NEW t \in Task, Recover(t)
      PROVE  TypeOK'
  <2>1. [task[t] EXCEPT !.status = "QUEUED"] \in TaskData
    BY StatusBlob DEF Status
  <2>2. Score(task[t].priority, seq + 1) \in Nat
    <3>1. seq + 1 \in Nat /\ task[t].status # "NONE"
      BY <1>9 DEF Recover, Recoverable
    <3>2. QED  BY <3>1, AcceptedScore
  <2>3. task' \in [Task -> TaskData]
    BY <1>9, <2>1 DEF Recover
  <2>4. prio' \in [Task -> Nat] /\ seq' \in Nat
    BY <1>9, <2>2 DEF Recover
  <2>5. /\ active' \in SUBSET Task /\ owned' \in [Worker -> SUBSET Task]
        /\ lease' \in [Task -> Lease \cup {NoLease}]
        /\ ttl' \in [Task -> 0..LeaseTicks]
    BY <1>9, ReleaseType DEF Recover
  <2>6. QED  BY <1>9, <2>3, <2>4, <2>5, CountersType DEF Recover
<1>10. ASSUME NEW batch, batch \subseteq sched \cup retry, Promote(batch)
       PROVE  /\ task' \in [Task -> TaskData] /\ prio' \in [Task -> Nat]
              /\ seq' \in Nat /\ due' \in SUBSET Task
              /\ UNCHANGED <<lease, ttl, active, owned, dlq, idem, metrics, tickets>>
  <2>1. batch \subseteq Task
    BY <1>10
  <2>2. Cardinality(batch) \in Nat  BY <2>1, BatchSize
  <2>3. \A t \in batch : [task[t] EXCEPT !.status = "QUEUED"] \in TaskData
    BY <2>1, StatusBlob DEF Status
  <2>4. \A t \in batch : task[t].status # "NONE"
    BY <1>10, <2>1 DEF Accepted
  <2>5. PICK rank \in [batch -> 1..Cardinality(batch)] :
          prio' = [t \in Task |-> IF t \in batch
                                  THEN Score(task[t].priority, seq + rank[t])
                                  ELSE prio[t]]
    BY <1>10 DEF Promote
  <2>6. \A t \in batch : Score(task[t].priority, seq + rank[t]) \in Nat
    BY <2>1, <2>2, <2>4, AcceptedScore
  <2>7. prio' \in [Task -> Nat]
    BY <2>5, <2>6
  <2>8. QED  BY <1>10, <2>2, <2>3, <2>7 DEF Promote
<1>11. ASSUME NEW batch, batch \subseteq Task, PromoteBroken(batch)
       PROVE  TypeOK'
  <2>1. \A t \in batch : [task[t] EXCEPT !.status = "QUEUED"] \in TaskData
    BY <1>11, StatusBlob DEF Status
  <2>2. QED  BY <1>11, <2>1 DEF PromoteBroken
<1>12. ASSUME PromoteScheduled
       PROVE  TypeOK'
  <2>1. CASE ~SeqKey
    BY <1>11, <1>12, <2>1 DEF PromoteScheduled
  <2>2. CASE SeqKey
    BY <1>10, <1>12, <2>2 DEF PromoteScheduled, Remaining
  <2>3. QED  BY <2>1, <2>2
<1>13. ASSUME PromoteRetries
       PROVE  TypeOK'
  <2>1. CASE ~SeqKey
    BY <1>11, <1>13, <2>1 DEF PromoteRetries
  <2>2. CASE SeqKey
    BY <1>10, <1>13, <2>2 DEF PromoteRetries, Remaining
  <2>3. QED  BY <2>1, <2>2
<1>14. ASSUME PriorityAging
       PROVE  TypeOK'
  <2>1. PICK S \in SUBSET Task :
          prio' = [t \in Task |-> IF t \in S /\ Level(prio[t]) > 1
                                  THEN prio[t] - Unit ELSE prio[t]]
    BY <1>14 DEF PriorityAging
  <2>2. \A t \in Task : Level(prio[t]) > 1 => prio[t] - Unit \in Nat
    BY AgedScore
  <2>3. prio' \in [Task -> Nat]
    BY <2>1, <2>2
  <2>4. QED  BY <1>14, <2>3 DEF PriorityAging
<1>15. ASSUME NEW t \in Task, LeaseTick(t)
       PROVE  TypeOK'
  BY <1>15, QueueAssumption DEF LeaseTick
<1>16. ASSUME NEW t \in Task, BecomeDue(t)
       PROVE  TypeOK'
  BY <1>16 DEF BecomeDue
<1>17. ASSUME NEW k \in Key, KeyExpires(k)
       PROVE  TypeOK'
  BY <1>17 DEF KeyExpires
<1>18. CASE UNCHANGED vars
  BY <1>18 DEF vars
<1>19. QED
  BY <1>2, <1>3, <1>4, <1>5, <1>6, <1>7, <1>8, <1>9, <1>12, <1>13, <1>14,
     <1>15, <1>16, <1>17, <1>18
  DEF Next, Clients, Workers, Services, Time

-----------------------------------------------------------------------------
(* Each structure keeps holding the tasks that belong there.               *)
LEMMA PlacesStep == QueueInv /\ [Next]_vars => Places'
<1> SUFFICES ASSUME QueueInv, [Next]_vars PROVE Places'  OBVIOUS
<1> TypeOK /\ Places  BY DEF QueueInv
<1> USE DEF TypeOK, Places, Queued
<1>1. ASSUME NEW t \in Task, NEW p \in Priority, NEW m \in RetryLimit,
             NEW k \in Key \cup {NoKey}, EnqueueNow(t, p, m, k)
      PROVE  Places'
  <2>1. Score(p, seq + 1) # 0
    <3>1. p \in 1..10 /\ seq + 1 \in Nat
      BY QueueAssumption
    <3>2. QED  BY <3>1, ScoreType
  <2>2. task[t].status = "NONE" /\ task'[t].status = "QUEUED"
    BY <1>1 DEF EnqueueNow, Record, Submitted, Blank
  <2>3. \A u \in Task \ {t} : task'[u] = task[u] /\ prio'[u] = prio[u]
    BY <1>1 DEF EnqueueNow, Record
  <2>4. UNCHANGED <<sched, retry, dlq>>
    BY <1>1 DEF EnqueueNow, Record
  <2>5. QED  BY <2>1, <2>2, <2>3, <2>4
<1>2. ASSUME NEW t \in Task, NEW p \in Priority, NEW m \in RetryLimit,
             NEW k \in Key \cup {NoKey}, EnqueueLater(t, p, m, k)
      PROVE  Places'
  <2>1. task[t].status = "NONE" /\ task'[t].status = "PENDING"
    BY <1>2 DEF EnqueueLater, Record, Submitted, Blank
  <2>2. \A u \in Task \ {t} : task'[u] = task[u]
    BY <1>2 DEF EnqueueLater, Record
  <2>3. sched' = sched \cup {t} /\ UNCHANGED <<prio, retry, dlq>>
    BY <1>2 DEF EnqueueLater, Record
  <2>4. QED  BY <2>1, <2>2, <2>3
<1>3. ASSUME NEW w \in Worker, NEW l \in Lease, Claim(w, l)
      PROVE  Places'
  <2>1. PICK t \in Heads : /\ prio' = Popped(t)
                           /\ task' = [task EXCEPT ![t] = Started(t, w, l)]
    BY <1>3 DEF Claim
  <2>2. t \in Task /\ t \in Queued
    BY DEF Heads
  <2>3. task'[t].status = "RUNNING" /\ prio'[t] = 0
    BY <2>1, <2>2 DEF Started, Popped
  <2>4. \A u \in Task \ {t} : task'[u] = task[u] /\ prio'[u] = prio[u]
    BY <2>1 DEF Popped
  <2>5. UNCHANGED <<sched, retry, dlq>>
    BY <1>3 DEF Claim
  <2>6. QED  BY <2>2, <2>3, <2>4, <2>5
<1>4. ASSUME NEW c \in tickets, Complete(c)
      PROVE  Places'
  <2>1. c.task \in Task /\ task[c.task].status = "RUNNING"
    BY <1>4, HolderRuns DEF Complete, Ticket
  <2>2. task'[c.task].status = "COMPLETED"
    BY <1>4, <2>1 DEF Complete
  <2>3. \A u \in Task \ {c.task} : task'[u] = task[u]
    BY <1>4 DEF Complete
  <2>4. UNCHANGED <<prio, sched, retry, dlq>>
    BY <1>4 DEF Complete
  <2>5. QED  BY <2>1, <2>2, <2>3, <2>4
<1>5. ASSUME NEW c \in tickets, FailRetry(c)
      PROVE  Places'
  <2>1. c.task \in Task /\ task[c.task].status = "RUNNING"
    BY <1>5, HolderRuns DEF FailRetry, Ticket
  <2>2. task'[c.task].status = "RETRYING"
    BY <1>5, <2>1 DEF FailRetry, Failed
  <2>3. \A u \in Task \ {c.task} : task'[u] = task[u]
    BY <1>5 DEF FailRetry
  <2>4. retry' = retry \cup {c.task} /\ UNCHANGED <<prio, sched, dlq>>
    BY <1>5 DEF FailRetry
  <2>5. QED  BY <2>1, <2>2, <2>3, <2>4
<1>6. ASSUME NEW c \in tickets, FailDead(c)
      PROVE  Places'
  <2>1. c.task \in Task /\ task[c.task].status = "RUNNING"
    BY <1>6, HolderRuns DEF FailDead, Ticket
  <2>2. task'[c.task].status = "DLQ" /\ dlq'[c.task] = dlq[c.task] + 1
    BY <1>6, <2>1 DEF FailDead, Failed
  <2>3. \A u \in Task \ {c.task} : task'[u] = task[u] /\ dlq'[u] = dlq[u]
    BY <1>6 DEF FailDead
  <2>4. UNCHANGED <<prio, sched, retry>>
    BY <1>6 DEF FailDead
  <2>5. QED  BY <2>1, <2>2, <2>3, <2>4
<1>7. ASSUME NEW t \in Task, Recover(t)
      PROVE  Places'
  <2>1. task[t].status = "RUNNING" /\ task'[t].status = "QUEUED"
    BY <1>7 DEF Recover, Recoverable
  <2>2. \A u \in Task \ {t} : task'[u] = task[u] /\ prio'[u] = prio[u]
    BY <1>7, QueueAssumption DEF Recover
  <2>3. UNCHANGED <<sched, retry, dlq>>
    BY <1>7 DEF Recover
  <2>4. QED  BY <2>1, <2>2, <2>3
<1>8. ASSUME NEW batch, batch \subseteq Task, Promote(batch)
      PROVE  /\ \A t \in batch : task'[t].status = "QUEUED"
             /\ \A t \in Task \ batch : task'[t] = task[t] /\ prio'[t] = prio[t]
             /\ UNCHANGED dlq
  <2>1. \A t \in batch : task[t] \in TaskData /\ task'[t] = [task[t] EXCEPT !.status = "QUEUED"]
    BY <1>8 DEF Promote
  <2>2. \A t \in batch : task'[t].status = "QUEUED"
    BY <2>1 DEF TaskData
  <2>3. QED  BY <1>8, <2>2 DEF Promote
<1>9. ASSUME NEW batch, batch \subseteq sched \cup retry, PromoteBroken(batch),
             UNCHANGED <<sched, retry>>
      PROVE  Places'
  <2>1. PICK t \in batch : task' = [task EXCEPT ![t].status = "QUEUED"]
    BY <1>9 DEF PromoteBroken
  <2>2. t \in Task /\ task'[t].status = "QUEUED"
    BY <1>9, <2>1
  <2>3. \A u \in Task \ {t} : task'[u] = task[u]
    BY <2>1
  <2>4. UNCHANGED <<prio, dlq>>
    BY <1>9 DEF PromoteBroken
  <2>5. QED  BY <1>9, <2>2, <2>3, <2>4
<1>10. ASSUME PromoteScheduled
       PROVE  Places'
  <2>1. CASE ~SeqKey
    BY <1>9, <1>10, <2>1 DEF PromoteScheduled, PromoteBroken
  <2>2. CASE SeqKey
    <3>1. /\ Promote(sched \cap due)
          /\ sched' = sched \ due /\ UNCHANGED retry
      BY <1>10, <2>2 DEF PromoteScheduled, Remaining
    <3>2. QED  BY <1>8, <3>1
  <2>3. QED  BY <2>1, <2>2
<1>11. ASSUME PromoteRetries
       PROVE  Places'
  <2>1. CASE ~SeqKey
    BY <1>9, <1>11, <2>1 DEF PromoteRetries, PromoteBroken
  <2>2. CASE SeqKey
    <3>1. /\ Promote(retry \cap due)
          /\ retry' = retry \ due /\ UNCHANGED sched
      BY <1>11, <2>2 DEF PromoteRetries, Remaining
    <3>2. QED  BY <1>8, <3>1
  <2>3. QED  BY <2>1, <2>2
<1>12. ASSUME PriorityAging
       PROVE  Places'
  <2>1. \A t \in Task : prio'[t] # 0 => prio[t] # 0
    BY <1>12, AgedScore DEF PriorityAging
  <2>2. UNCHANGED <<task, sched, retry, dlq>>
    BY <1>12 DEF PriorityAging
  <2>3. QED  BY <2>1, <2>2
<1>13. CASE UNCHANGED <<task, prio, sched, retry, dlq>>
  BY <1>13
<1>14. QED
  BY <1>1, <1>2, <1>3, <1>4, <1>5, <1>6, <1>7, <1>10, <1>11, <1>12, <1>13
  DEF Next, Clients, Workers, Services, Time, Renew, LeaseTick, BecomeDue,
      KeyExpires, vars

-----------------------------------------------------------------------------
(* Lease ids are not reused.                                               *)
LEMMA TicketsStep == QueueInv /\ [Next]_vars => TicketsDiffer'
<1> SUFFICES ASSUME QueueInv, [Next]_vars PROVE TicketsDiffer'  OBVIOUS
<1> TicketsDiffer  BY DEF QueueInv
<1>1. ASSUME NEW w \in Worker, NEW l \in Lease, Claim(w, l)
      PROVE  TicketsDiffer'
  <2>1. PICK t \in Heads :
          tickets' = tickets \cup {[task |-> t, worker |-> w, lease |-> l]}
    BY <1>1 DEF Claim
  <2>2. \A c \in tickets : c.lease # l
    BY <1>1 DEF Claim
  <2>3. QED  BY <2>1, <2>2 DEF TicketsDiffer
<1>2. CASE UNCHANGED tickets
  BY <1>2 DEF TicketsDiffer
<1>3. CASE Clients
  BY <1>2, <1>3 DEF Clients, EnqueueNow, EnqueueLater, Record
<1>4. CASE \E c \in tickets : Complete(c) \/ FailRetry(c) \/ FailDead(c) \/ Renew(c)
  BY <1>2, <1>4 DEF Complete, FailRetry, FailDead, Renew
<1>5. CASE Services
  BY <1>2, <1>5 DEF Services, Recover, PromoteScheduled, PromoteRetries, Promote,
     PromoteBroken, PriorityAging
<1>6. CASE Time
  BY <1>2, <1>6 DEF Time, LeaseTick, BecomeDue, KeyExpires
<1>7. QED
  BY <1>1, <1>2, <1>3, <1>4, <1>5, <1>6 DEF Next, Workers, vars

-----------------------------------------------------------------------------
(* The steps of clients, of the scheduler and of time touch no RUNNING     *)
(* task: the blobs they write are of waiting tasks, before and after.      *)
LEMMA WaitingStep ==
  ASSUME TypeOK, Waits, Clients \/ PromoteScheduled \/ PromoteRetries \/ PriorityAging
  PROVE  /\ \A t \in Task : \/ task'[t] = task[t]
                            \/ /\ task[t].status # "RUNNING"
                               /\ task'[t].status # "RUNNING"
         /\ UNCHANGED <<lease, ttl, active, owned, tickets>>
<1> USE DEF TypeOK
<1>1. CASE Clients
  <2>1. PICK t \in Task, p \in Priority, m \in RetryLimit, k \in Key \cup {NoKey},
             s \in {"QUEUED", "PENDING"} : Record(t, p, m, k, s)
    BY <1>1 DEF Clients, EnqueueNow, EnqueueLater
  <2>2. task[t].status = "NONE" /\ task'[t].status = s
    BY <2>1 DEF Record, Submitted, Blank
  <2>3. \A u \in Task \ {t} : task'[u] = task[u]
    BY <2>1 DEF Record
  <2>4. QED  BY <2>1, <2>2, <2>3 DEF Record
<1>2. ASSUME NEW batch, batch \subseteq sched \cup retry,
             Promote(batch) \/ PromoteBroken(batch)
      PROVE  /\ \A t \in Task : \/ task'[t] = task[t]
                                \/ /\ task[t].status # "RUNNING"
                                   /\ task'[t].status # "RUNNING"
             /\ UNCHANGED <<lease, ttl, active, owned, tickets>>
  <2>1. \A t \in batch : t \in Task /\ task[t] \in TaskData /\ task[t].status # "RUNNING"
    BY <1>2 DEF Waits
  <2>2. \A t \in Task : \/ task'[t] = task[t]
                        \/ t \in batch /\ task'[t] = [task[t] EXCEPT !.status = "QUEUED"]
    BY <1>2 DEF Promote, PromoteBroken
  <2>3. \A t \in batch : [task[t] EXCEPT !.status = "QUEUED"].status = "QUEUED"
    BY <2>1 DEF TaskData
  <2>4. QED  BY <1>2, <2>1, <2>2, <2>3 DEF Promote, PromoteBroken
<1>3. CASE PromoteScheduled
  BY <1>2, <1>3 DEF PromoteScheduled
<1>4. CASE PromoteRetries
  BY <1>2, <1>4 DEF PromoteRetries
<1>5. CASE PriorityAging
  BY <1>5 DEF PriorityAging
<1>6. QED  BY <1>1, <1>3, <1>4, <1>5

(* A settled task stops RUNNING; nothing else moves.                       *)
LEMMA SettledStep ==
  ASSUME TypeOK, NEW c \in tickets, Complete(c) \/ FailRetry(c) \/ FailDead(c)
  PROVE  /\ Holds(c)
         /\ Release(c.task, c.worker)
         /\ task'[c.task].status # "RUNNING"
         /\ \A u \in Task \ {c.task} : task'[u] = task[u]
         /\ UNCHANGED tickets
<1> USE DEF TypeOK
<1>1. c.task \in Task
  BY DEF Ticket
<1>2. CASE Complete(c)
  BY <1>1, <1>2 DEF Complete
<1>3. CASE FailRetry(c)
  BY <1>1, <1>3 DEF FailRetry, Failed
<1>4. CASE FailDead(c)
  BY <1>1, <1>4 DEF FailDead, Failed
<1>5. QED  BY <1>2, <1>3, <1>4

(* What a claim does to the blob, the indexes and the lease.               *)
LEMMA ClaimedStep ==
  ASSUME TypeOK, Waits, NEW w \in Worker, NEW l \in Lease, Claim(w, l)
  PROVE  \E t \in Task :
           /\ task[t].status = "QUEUED"
           /\ /\ task'[t].status = "RUNNING" /\ task'[t].worker = w
              /\ task'[t].lease_id = l
           /\ \A u \in Task \ {t} : task'[u] = task[u]
           /\ active' = active \cup {t}
           /\ owned' = [owned EXCEPT ![w] = @ \cup {t}]
           /\ lease' = [lease EXCEPT ![t] = l]
           /\ ttl' = [ttl EXCEPT ![t] = LeaseTicks]
           /\ tickets' = tickets \cup {[task |-> t, worker |-> w, lease |-> l]}
<1> USE DEF TypeOK
<1>1. PICK t \in Heads :
         /\ task' = [task EXCEPT ![t] = Started(t, w, l)]
         /\ active' = active \cup {t}
         /\ owned' = [owned EXCEPT ![w] = @ \cup {t}]
         /\ lease' = [lease EXCEPT ![t] = l]
         /\ ttl' = [ttl EXCEPT ![t] = LeaseTicks]
         /\ tickets' = tickets \cup {[task |-> t, worker |-> w, lease |-> l]}
  BY DEF Claim
<1>2. t \in Task /\ task[t].status = "QUEUED"
  BY DEF Heads, Queued, Waits
<1>3. task'[t] = Started(t, w, l)
  BY <1>1, <1>2
<1>4. task[t] \in TaskData
  BY <1>2
<1>5. /\ Started(t, w, l).status = "RUNNING" /\ Started(t, w, l).worker = w
      /\ Started(t, w, l).lease_id = l
  BY <1>4 DEF Started, TaskData
<1>6. QED  BY <1>1, <1>2, <1>3, <1>5

-----------------------------------------------------------------------------
(* The indexes follow the blobs.                                           *)
LEMMA OwnershipStep == QueueInv /\ [Next]_vars => OwnershipIndex'
<1> SUFFICES ASSUME QueueInv, [Next]_vars PROVE OwnershipIndex'  OBVIOUS
<1> TypeOK /\ OwnershipIndex  BY DEF QueueInv
<1> USE DEF TypeOK
<1>1. ASSUME \A t \in Task : \/ task'[t] = task[t]
                             \/ task[t].status # "RUNNING" /\ task'[t].status # "RUNNING",
             UNCHANGED <<active, owned>>
      PROVE  OwnershipIndex'
  BY <1>1 DEF OwnershipIndex
<1>2. ASSUME NEW w \in Worker, NEW l \in Lease, Claim(w, l)
      PROVE  OwnershipIndex'
  <2>1. PICK t \in Task :
          /\ task[t].status = "QUEUED"
          /\ task'[t].status = "RUNNING" /\ task'[t].worker = w
          /\ \A u \in Task \ {t} : task'[u] = task[u]
          /\ active' = active \cup {t}
          /\ owned' = [owned EXCEPT ![w] = @ \cup {t}]
    BY <1>2, ClaimedStep, AcceptedInv
  <2>2. active' = {u \in Task : task'[u].status = "RUNNING"}
    BY <2>1 DEF OwnershipIndex
  <2>3. t \notin active
    BY <2>1 DEF OwnershipIndex
  <2>4. ASSUME NEW v \in Worker
        PROVE  owned'[v] = {u \in active' : task'[u].worker = v}
    <3>1. owned[v] = {u \in active : task[u].worker = v}
      BY DEF OwnershipIndex
    <3>2. CASE v = w
      BY <2>1, <2>3, <3>1, <3>2
    <3>3. CASE v # w
      BY <2>1, <2>3, <3>1, <3>3
    <3>4. QED  BY <3>2, <3>3
  <2>5. QED  BY <2>2, <2>4 DEF OwnershipIndex
<1>3. ASSUME NEW t \in Task, Release(t, task[t].worker), task'[t].status # "RUNNING",
             \A u \in Task \ {t} : task'[u] = task[u]
      PROVE  OwnershipIndex'
  <2>1. active' = {u \in Task : task'[u].status = "RUNNING"}
    BY <1>3 DEF OwnershipIndex, Release
  <2>2. ASSUME NEW v \in Worker
        PROVE  owned'[v] = {u \in active' : task'[u].worker = v}
    <3>1. owned[v] = {u \in active : task[u].worker = v}
      BY DEF OwnershipIndex
    <3>2. owned'[v] = owned[v] \ {t}
      <4>1. CASE v = task[t].worker
        BY <1>3, <4>1 DEF Release
      <4>2. CASE v # task[t].worker
        BY <1>3, <3>1, <4>2 DEF Release
      <4>3. QED  BY <4>1, <4>2
    <3>3. active' = active \ {t}
      BY <1>3 DEF Release
    <3>4. QED  BY <1>3, <3>1, <3>2, <3>3 DEF OwnershipIndex
  <2>3. QED  BY <2>1, <2>2 DEF OwnershipIndex
<1>4. ASSUME NEW c \in tickets, Complete(c) \/ FailRetry(c) \/ FailDead(c)
      PROVE  OwnershipIndex'
  <2>1. c.task \in Task /\ task[c.task].worker = c.worker
    BY <1>4, SettledStep, HolderRuns DEF Ticket
  <2>2. QED  BY <1>3, <1>4, <2>1, SettledStep
<1>5. ASSUME NEW t \in Task, Recover(t)
      PROVE  OwnershipIndex'
  <2>1. task[t] \in TaskData
    OBVIOUS
  <2>2. task'[t].status = "QUEUED"
    BY <1>5, <2>1 DEF Recover, TaskData
  <2>3. \A u \in Task \ {t} : task'[u] = task[u]
    BY <1>5 DEF Recover
  <2>4. QED  BY <1>3, <1>5, <2>2, <2>3 DEF Recover
<1>6. CASE Clients \/ PromoteScheduled \/ PromoteRetries \/ PriorityAging
  BY <1>1, <1>6, WaitingStep, AcceptedInv
<1>7. CASE UNCHANGED <<task, active, owned>>
  BY <1>1, <1>7
<1>8. QED
  BY <1>2, <1>4, <1>5, <1>6, <1>7
  DEF Next, Workers, Services, Time, Renew, LeaseTick, BecomeDue, KeyExpires, vars

-----------------------------------------------------------------------------
(* A live lease keeps proving ownership.                                   *)
LEMMA LeaseStep == TypeOK /\ Waits /\ LeaseFencing /\ [Next]_vars => LeaseFencing'
<1> SUFFICES ASSUME TypeOK, Waits, LeaseFencing, [Next]_vars PROVE LeaseFencing'
  OBVIOUS
<1> USE DEF TypeOK
<1>1. ASSUME \A t \in Task : \/ task'[t] = task[t]
                             \/ task[t].status # "RUNNING" /\ task'[t].status # "RUNNING",
             UNCHANGED <<lease, ttl, tickets>>
      PROVE  LeaseFencing'
  BY <1>1 DEF LeaseFencing
<1>2. ASSUME NEW w \in Worker, NEW l \in Lease, Claim(w, l)
      PROVE  LeaseFencing'
  <2>1. PICK t \in Task :
          /\ task'[t].status = "RUNNING" /\ task'[t].worker = w
          /\ task'[t].lease_id = l
          /\ \A u \in Task \ {t} : task'[u] = task[u]
          /\ lease' = [lease EXCEPT ![t] = l]
          /\ ttl' = [ttl EXCEPT ![t] = LeaseTicks]
          /\ tickets' = tickets \cup {[task |-> t, worker |-> w, lease |-> l]}
    BY <1>2, ClaimedStep
  <2>2. lease'[t] = l /\ ttl'[t] = LeaseTicks
    BY <2>1
  <2>3. \A u \in Task \ {t} : lease'[u] = lease[u] /\ ttl'[u] = ttl[u]
    BY <2>1
  <2>4. LeaseTicks > 0
    BY QueueAssumption
  <2>5. QED  BY <2>1, <2>2, <2>3, <2>4 DEF LeaseFencing
<1>3. ASSUME NEW t \in Task, NEW w, Release(t, w), UNCHANGED tickets,
             \A u \in Task \ {t} : task'[u] = task[u]
      PROVE  LeaseFencing'
  <2>1. lease'[t] = NoLease
    BY <1>3 DEF Release
  <2>2. \A u \in Task \ {t} : lease'[u] = lease[u] /\ ttl'[u] = ttl[u]
    BY <1>3 DEF Release
  <2>3. QED  BY <1>3, <2>1, <2>2 DEF LeaseFencing
<1>4. ASSUME NEW c \in tickets, Complete(c) \/ FailRetry(c) \/ FailDead(c)
      PROVE  LeaseFencing'
  <2>1. c.task \in Task
    BY DEF Ticket
  <2>2. QED  BY <1>3, <1>4, <2>1, SettledStep
<1>5. ASSUME NEW t \in Task, Recover(t)
      PROVE  LeaseFencing'
  BY <1>3, <1>5 DEF Recover
<1>6. ASSUME NEW c \in tickets, Renew(c)
      PROVE  LeaseFencing'
  <2>1. \A t \in Task : ttl'[t] = ttl[t] \/ ttl'[t] > 0
    BY <1>6, QueueAssumption DEF Renew
  <2>2. UNCHANGED <<task, lease, tickets>>
    BY <1>6 DEF Renew
  <2>3. QED  BY <2>1, <2>2 DEF LeaseFencing
<1>7. ASSUME NEW t \in Task, LeaseTick(t)
      PROVE  LeaseFencing'
  <2>1. lease'[t] # NoLease => lease'[t] = lease[t] /\ ttl'[t] > 0
    BY <1>7 DEF LeaseTick
  <2>2. \A u \in Task \ {t} : lease'[u] = lease[u] /\ ttl'[u] = ttl[u]
    BY <1>7 DEF LeaseTick
  <2>3. UNCHANGED <<task, tickets>>
    BY <1>7 DEF LeaseTick
  <2>4. QED  BY <2>1, <2>2, <2>3 DEF LeaseFencing
<1>8. CASE Clients \/ PromoteScheduled \/ PromoteRetries \/ PriorityAging
  BY <1>1, <1>8, WaitingStep
<1>9. CASE UNCHANGED <<task, lease, ttl, tickets>>
  BY <1>1, <1>9
<1>10. QED
  BY <1>2, <1>4, <1>5, <1>6, <1>7, <1>8, <1>9
  DEF Next, Workers, Services, Time, BecomeDue, KeyExpires, vars

-----------------------------------------------------------------------------
(* Scores stay below what the counter could draw now.                      *)

(* Waiting longer can only improve a score against the counter.            *)
LEMMA ScoreKept ==
  ASSUME QueueInv, NEW t \in Task, t \in Queued, seq' \in Nat, seq <= seq'
  PROVE  prio[t] <= Score(task[t].priority, seq')
<1>1. task[t].priority \in 1..10 /\ prio[t] <= Score(task[t].priority, seq)
  BY DEF QueueInv, Places, ScoresDrawn
<1>2. seq \in Nat /\ prio[t] \in Nat
  BY DEF QueueInv, TypeOK
<1>3. Score(task[t].priority, seq) <= Score(task[t].priority, seq')
  BY <1>1, <1>2, ScoreMonotone
<1>4. Score(task[t].priority, seq) \in Nat /\ Score(task[t].priority, seq') \in Nat
  BY <1>1, <1>2, ScoreType
<1>5. QED  BY <1>1, <1>2, <1>3, <1>4

(* Every step leaves the score of a queued task, ages it, takes the task   *)
(* out, or queues it under a score the counter draws in that step.         *)
LEMMA ScoreMoves ==
  ASSUME QueueInv, [Next]_vars, NEW t \in Task
  PROVE  /\ seq' \in Nat /\ seq <= seq'
         /\ \/ prio'[t] = prio[t]
            \/ prio'[t] = 0
            \/ prio[t] # 0 /\ prio'[t] # 0 /\ prio'[t] <= prio[t]
            \/ \E s \in Nat :
                 /\ prio'[t] = Score(task'[t].priority, s)
                 /\ seq <= s /\ s <= seq'
<1> TypeOK /\ Places  BY DEF QueueInv
<1> TypeOK'  BY TypeStep, AcceptedInv
<1> USE DEF TypeOK
<1>1. ASSUME NEW u \in Task, NEW p \in Priority, NEW m \in RetryLimit,
             NEW k \in Key \cup {NoKey}, EnqueueNow(u, p, m, k)
      PROVE  /\ seq' = seq + 1
             /\ prio'[t] = IF t = u THEN Score(task'[t].priority, seq + 1) ELSE prio[t]
  <2>1. task'[u].priority = p
    BY <1>1 DEF EnqueueNow, Record, Blank
  <2>2. QED  BY <1>1, <2>1 DEF EnqueueNow
<1>2. ASSUME NEW u \in Task, Recover(u), SeqKey
      PROVE  /\ seq' = seq + 1
             /\ prio'[t] = IF t = u THEN Score(task'[t].priority, seq + 1) ELSE prio[t]
  <2>1. task[u] \in TaskData
    OBVIOUS
  <2>2. task'[u].priority = task[u].priority
    BY <1>2, <2>1 DEF Recover, TaskData
  <2>3. QED  BY <1>2, <2>2 DEF Recover
<1>3. ASSUME NEW batch, batch \subseteq Task, Promote(batch)
      PROVE  /\ seq <= seq'
             /\ \/ prio'[t] = prio[t]
                \/ \E s \in Nat :
                     /\ prio'[t] = Score(task'[t].priority, s)
                     /\ seq <= s /\ s <= seq'
  <2>1. Cardinality(batch) \in Nat
    BY <1>3, BatchSize
  <2>2. PICK rank \in [batch -> 1..Cardinality(batch)] :
          prio' = [u \in Task |-> IF u \in batch
                                  THEN Score(task[u].priority, seq + rank[u])
                                  ELSE prio[u]]
    BY <1>3 DEF Promote
  <2>3. seq' = seq + Cardinality(batch)
    BY <1>3 DEF Promote
  <2>4. CASE t \in batch
    <3>1. task[t] \in TaskData /\ task'[t] = [task[t] EXCEPT !.status = "QUEUED"]
      BY <1>3, <2>4 DEF Promote
    <3>2. task'[t].priority = task[t].priority
      BY <3>1 DEF TaskData
    <3>3. rank[t] \in 1..Cardinality(batch)
      BY <2>2, <2>4
    <3>4. /\ seq + rank[t] \in Nat
          /\ seq <= seq + rank[t] /\ seq + rank[t] <= seq'
      BY <2>1, <2>3, <3>3
    <3>5. prio'[t] = Score(task'[t].priority, seq + rank[t])
      BY <2>2, <2>4, <3>2
    <3>6. QED  BY <2>1, <2>3, <3>4, <3>5
  <2>5. CASE t \notin batch
    BY <2>1, <2>2, <2>3, <2>5
  <2>6. QED  BY <2>4, <2>5
<1>4. CASE PriorityAging
  <2>1. prio'[t] = prio[t] \/ (Level(prio[t]) > 1 /\ prio'[t] = prio[t] - Unit)
    BY <1>4 DEF PriorityAging
  <2>2. prio'[t] = prio[t] \/ (prio'[t] # 0 /\ prio'[t] <= prio[t])
    BY <2>1, AgedScore
  <2>3. seq' = seq
    BY <1>4 DEF PriorityAging
  <2>4. QED  BY <2>2, <2>3
<1>5. ASSUME NEW w \in Worker, NEW l \in Lease, Claim(w, l)
      PROVE  seq' = seq /\ (prio'[t] = prio[t] \/ prio'[t] = 0)
  BY <1>5 DEF Claim, Popped
<1>6. CASE UNCHANGED <<prio, seq>>
  BY <1>6
<1>7. CASE Clients
  <2>1. PICK u \in Task, p \in Priority, m \in RetryLimit, k \in Key \cup {NoKey} :
          EnqueueNow(u, p, m, k) \/ EnqueueLater(u, p, m, k)
    BY <1>7 DEF Clients
  <2>2. CASE EnqueueNow(u, p, m, k)
    BY <1>1, <2>2
  <2>3. CASE EnqueueLater(u, p, m, k)
    BY <1>6, <2>3 DEF EnqueueLater
  <2>4. QED  BY <2>1, <2>2, <2>3
<1>8. CASE Workers
  <2>1. CASE \E w \in Worker, l \in Lease : Claim(w, l)
    BY <1>5, <2>1
  <2>2. CASE \E c \in tickets : Complete(c) \/ FailRetry(c) \/ FailDead(c) \/ Renew(c)
    <3>1. UNCHANGED <<prio, seq>>
      BY <2>2 DEF Complete, FailRetry, FailDead, Renew
    <3>2. QED  BY <1>6, <3>1
  <2>3. QED  BY <1>8, <2>1, <2>2 DEF Workers
<1>9. ASSUME NEW u \in Task, Recover(u), ~SeqKey
      PROVE  UNCHANGED <<prio, seq>>
  BY <1>9 DEF Recover
<1>10. CASE PromoteScheduled \/ PromoteRetries
  <2>1. CASE SeqKey
    BY <1>3, <1>10, <2>1 DEF PromoteScheduled, PromoteRetries
  <2>2. CASE ~SeqKey
    BY <1>6, <1>10, <2>2 DEF PromoteScheduled, PromoteRetries, PromoteBroken
  <2>3. QED  BY <2>1, <2>2
<1>11. CASE Services
  <2>1. ASSUME NEW u \in Task, Recover(u)
        PROVE  /\ seq' \in Nat /\ seq <= seq'
               /\ \/ prio'[t] = prio[t]
                  \/ \E s \in Nat :
                       /\ prio'[t] = Score(task'[t].priority, s)
                       /\ seq <= s /\ s <= seq'
    BY <1>2, <1>9, <2>1
  <2>2. QED  BY <1>4, <1>10, <1>11, <2>1 DEF Services
<1>12. CASE Time
  BY <1>6, <1>12 DEF Time, LeaseTick, BecomeDue, KeyExpires
<1>13. CASE UNCHANGED vars
  BY <1>6, <1>13 DEF vars
<1>14. QED
  BY <1>7, <1>8, <1>11, <1>12, <1>13 DEF Next

(* The statuses of a task that is accepted and has not ended.              *)
Live == {"PENDING", "QUEUED", "RETRYING", "RUNNING"}

(* A blob that is written again stays a task, of the same priority and     *)
(* the same key.                                                           *)
Rewritten(t) ==
  /\ task'[t].status # "NONE"
  /\ task'[t].priority = task[t].priority
  /\ task'[t].key = task[t].key

(* Only tasks that have not ended are written to, and the priority of a    *)
(* task is fixed when it is accepted.                                      *)
LEMMA BlobMoves ==
  ASSUME QueueInv, [Next]_vars, NEW t \in Task
  PROVE  \/ task'[t] = task[t]
         \/ task[t].status \in Live /\ Rewritten(t)
         \/ /\ task[t].status = "NONE" /\ task'[t].status # "NONE"
            /\ task'[t].priority \in 1..10
<1> TypeOK /\ Places  BY DEF QueueInv
<1> USE DEF TypeOK
<1>1. task[t] \in TaskData
  OBVIOUS
<1>2. CASE Clients
  <2>1. PICK u \in Task, p \in Priority, m \in RetryLimit, k \in Key \cup {NoKey},
             s \in {"QUEUED", "PENDING"} : Record(u, p, m, k, s)
    BY <1>2 DEF Clients, EnqueueNow, EnqueueLater
  <2>2. /\ task[u].status = "NONE" /\ task'[u].status # "NONE"
        /\ task'[u].priority = p
    BY <2>1 DEF Record, Submitted, Blank
  <2>3. \A v \in Task \ {u} : task'[v] = task[v]
    BY <2>1 DEF Record
  <2>4. p \in 1..10
    BY QueueAssumption
  <2>5. QED  BY <2>2, <2>3, <2>4
<1>3. ASSUME NEW w \in Worker, NEW l \in Lease, Claim(w, l)
      PROVE  task'[t] = task[t] \/
             (task[t].status \in Live /\ Rewritten(t))
  <2>1. PICK u \in Heads : task' = [task EXCEPT ![u] = Started(u, w, l)]
    BY <1>3 DEF Claim
  <2>2. u \in Task /\ task[u].status = "QUEUED" /\ task[u] \in TaskData
    BY DEF Heads, Queued, Places
  <2>3. /\ Started(u, w, l).priority = task[u].priority
        /\ Started(u, w, l).key = task[u].key
        /\ Started(u, w, l).status = "RUNNING"
    BY <2>2 DEF Started, TaskData
  <2>4. QED  BY <2>1, <2>2, <2>3 DEF Live, Rewritten
<1>4. ASSUME NEW c \in tickets, Complete(c) \/ FailRetry(c) \/ FailDead(c)
      PROVE  task'[t] = task[t] \/
             (task[t].status \in Live /\ Rewritten(t))
  <2>1. /\ c.task \in Task /\ task[c.task].status = "RUNNING"
        /\ task[c.task] \in TaskData
    BY <1>4, SettledStep, HolderRuns DEF Ticket
  <2>2. \A u \in Task \ {c.task} : task'[u] = task[u]
    BY <1>4, SettledStep
  <2>3. Rewritten(c.task)
    <3>1. \E s \in Status :
            \/ task'[c.task] = [task[c.task] EXCEPT !.status = s]
            \/ task'[c.task] = Failed(c.task, s)
      BY <1>4, <2>1 DEF Complete, FailRetry, FailDead, Status
    <3>2. QED  BY <2>1, <3>1 DEF Failed, TaskData, Status, Rewritten
  <2>4. QED  BY <2>1, <2>2, <2>3 DEF Live
<1>5. ASSUME NEW u \in Task, Recover(u)
      PROVE  task'[t] = task[t] \/
             (task[t].status \in Live /\ Rewritten(t))
  BY <1>1, <1>5 DEF Recover, Recoverable, TaskData, Live, Rewritten
<1>6. ASSUME NEW batch, batch \subseteq sched \cup retry,
             Promote(batch) \/ PromoteBroken(batch)
      PROVE  task'[t] = task[t] \/
             (task[t].status \in Live /\ Rewritten(t))
  <2>1. \/ task'[t] = task[t]
        \/ t \in batch /\ task'[t] = [task[t] EXCEPT !.status = "QUEUED"]
    BY <1>6 DEF Promote, PromoteBroken
  <2>2. t \in batch => task[t].status \in Live
    BY <1>6 DEF Places, Live
  <2>3. /\ [task[t] EXCEPT !.status = "QUEUED"].priority = task[t].priority
        /\ [task[t] EXCEPT !.status = "QUEUED"].key = task[t].key
        /\ [task[t] EXCEPT !.status = "QUEUED"].status = "QUEUED"
    BY <1>1 DEF TaskData
  <2>4. QED  BY <2>1, <2>2, <2>3 DEF Rewritten
<1>7. CASE PromoteScheduled \/ PromoteRetries
  BY <1>6, <1>7 DEF PromoteScheduled, PromoteRetries
<1>8. CASE UNCHANGED task
  BY <1>8
<1>9. QED
  BY <1>2, <1>3, <1>4, <1>5, <1>7, <1>8
  DEF Next, Workers, Services, Time, Renew, PriorityAging, LeaseTick, BecomeDue,
      KeyExpires, vars

(* Scores stay drawn from the counter.                                     *)
LEMMA ScoresStep == QueueInv /\ [Next]_vars => ScoresDrawn'
<1> SUFFICES ASSUME QueueInv, [Next]_vars PROVE ScoresDrawn'  OBVIOUS
<1> TypeOK /\ Places /\ ScoresDrawn  BY DEF QueueInv
<1> TypeOK' /\ Places'  BY TypeStep, AcceptedInv, PlacesStep
<1> SUFFICES ASSUME NEW t \in Task
             PROVE  /\ task'[t].status # "NONE" => task'[t].priority \in 1..10
                    /\ prio'[t] # 0 => prio'[t] <= Score(task'[t].priority, seq')
  BY DEF ScoresDrawn, Queued
<1>1. task'[t].status # "NONE" => task'[t].priority \in 1..10
  BY BlobMoves DEF ScoresDrawn, Live, Rewritten
<1>2. ASSUME prio'[t] # 0
      PROVE  prio'[t] <= Score(task'[t].priority, seq')
  <2>1. task'[t].status = "QUEUED" /\ task'[t].priority \in 1..10
    BY <1>1, <1>2 DEF Places, Queued
  <2>2. /\ seq \in Nat /\ seq' \in Nat /\ seq <= seq'
        /\ prio[t] \in Nat /\ prio'[t] \in Nat
    BY ScoreMoves DEF TypeOK
  <2>3. CASE prio[t] # 0 /\ prio'[t] <= prio[t]
    <3>1. t \in Queued /\ task[t].status = "QUEUED"
      BY <2>3 DEF Queued, Places
    <3>2. prio[t] <= Score(task[t].priority, seq')
      BY <2>2, <3>1, ScoreKept
    <3>3. task'[t].priority = task[t].priority
      BY <3>1, BlobMoves DEF Rewritten
    <3>4. Score(task'[t].priority, seq') \in Nat
      BY <2>1, <2>2, ScoreType
    <3>5. QED  BY <2>2, <2>3, <3>2, <3>3, <3>4
  <2>4. ASSUME NEW s \in Nat, prio'[t] = Score(task'[t].priority, s), s <= seq'
        PROVE  prio'[t] <= Score(task'[t].priority, seq')
    BY <2>1, <2>2, <2>4, ScoreMonotone
  <2>5. \/ prio[t] # 0 /\ prio'[t] <= prio[t]
        \/ \E s \in Nat : prio'[t] = Score(task'[t].priority, s) /\ s <= seq'
    BY <1>2, <2>2, ScoreMoves
  <2>6. QED  BY <2>3, <2>4, <2>5
<1>3. QED  BY <1>1, <1>2

-----------------------------------------------------------------------------
(* The theorems.                                                           *)

(* No script writes to a task that was never accepted, and none unmakes a  *)
(* task.                                                                   *)
LEMMA NoHashStep == QueueInv /\ [Next]_vars => NoHashYet'
<1> SUFFICES ASSUME QueueInv, [Next]_vars, NEW t \in Task, task'[t].status = "NONE"
             PROVE  task'[t] = Blank
  BY DEF NoHashYet
<1>1. CASE task'[t] = task[t]
  BY <1>1 DEF QueueInv, NoHashYet
<1>2. QED  BY <1>1, BlobMoves DEF Rewritten

(* A key comes to name a task when the task is accepted under it, and to   *)
(* name none when it expires.                                              *)
LEMMA KeyMoves ==
  ASSUME TypeOK, [Next]_vars, NEW k \in Key
  PROVE  \/ idem'[k] \in {idem[k], NoTask}
         \/ /\ idem'[k] \in Task
            /\ task'[idem'[k]].status # "NONE" /\ task'[idem'[k]].key = k
<1> USE DEF TypeOK
<1>1. CASE Clients
  <2>1. PICK t \in Task, p \in Priority, m \in RetryLimit, x \in Key \cup {NoKey},
             s \in {"QUEUED", "PENDING"} : Record(t, p, m, x, s)
    BY <1>1 DEF Clients, EnqueueNow, EnqueueLater
  <2>2. task'[t].status = s /\ task'[t].key = x
    BY <2>1 DEF Record, Blank
  <2>3. idem'[k] = IF k = x THEN t ELSE idem[k]
    BY <2>1 DEF Record
  <2>4. QED  BY <2>2, <2>3
<1>2. ASSUME NEW x \in Key, KeyExpires(x)
      PROVE  idem'[k] \in {idem[k], NoTask}
  BY <1>2 DEF KeyExpires
<1>3. CASE UNCHANGED idem
  BY <1>3
<1>4. QED
  BY <1>1, <1>2, <1>3
  DEF Next, Workers, Services, Time, Claim, Complete, FailRetry, FailDead, Renew,
      Recover, PromoteScheduled, PromoteRetries, Promote, PromoteBroken,
      PriorityAging, LeaseTick, BecomeDue, vars

(* Keys keep naming their tasks.                                           *)
LEMMA KeysStep == QueueInv /\ [Next]_vars => KeysName'
<1> SUFFICES ASSUME QueueInv, [Next]_vars, NEW k \in Key, idem'[k] # NoTask
             PROVE  /\ idem'[k] \in Task /\ task'[idem'[k]].status # "NONE"
                    /\ task'[idem'[k]].key = k
  BY DEF KeysName, Submitted
<1>1. CASE idem'[k] = idem[k]
  <2>1. /\ idem[k] \in Task /\ task[idem[k]].status # "NONE"
        /\ task[idem[k]].key = k
    BY <1>1 DEF QueueInv, KeysName, Submitted
  <2>2. QED  BY <1>1, <2>1, BlobMoves DEF Rewritten
<1>2. QED  BY <1>1, KeyMoves DEF QueueInv

(* Every script keeps the invariant.                                       *)
LEMMA InvStep == QueueInv /\ [Next]_vars => QueueInv'
BY TypeStep, AcceptedInv, PlacesStep, LeaseStep, OwnershipStep, TicketsStep, ScoresStep,
   NoHashStep, KeysStep
   DEF QueueInv

(* QueueInv is an invariant of every queue: the whole state of the         *)
(* keyspace after any sequence of script calls.                            *)
THEOREM QueueInvariant == Spec => []QueueInv
<1>1. Init => QueueInv
  BY InitInv
<1>2. QueueInv /\ [Next]_vars => QueueInv'
  BY InvStep
<1>3. QED  BY <1>1, <1>2, PTL DEF Spec

(* Every script leaves every key with a value of its type.                 *)
THEOREM TypeCorrect == Spec => []TypeOK
<1>1. QueueInv => TypeOK
  BY DEF QueueInv
<1>2. QED  BY <1>1, QueueInvariant, PTL

(* A live lease proves ownership: see LeaseFencing.                        *)
THEOREM LeasesFence == Spec => []LeaseFencing
<1>1. QueueInv => LeaseFencing
  BY DEF QueueInv
<1>2. QED  BY <1>1, QueueInvariant, PTL

(* The indexes agree with the blobs: see OwnershipIndex.                   *)
THEOREM IndexesAgree == Spec => []OwnershipIndex
<1>1. QueueInv => OwnershipIndex
  BY DEF QueueInv
<1>2. QED  BY <1>1, QueueInvariant, PTL

(* The invariant keeps each task in one structure.                         *)
LEMMA InOnePlace == QueueInv => SinglePlace
<1>1. SUFFICES ASSUME QueueInv PROVE SinglePlace
  OBVIOUS
<1>2. TypeOK /\ Places /\ OwnershipIndex
  BY <1>1 DEF QueueInv
<1>3. sched \cap retry = {}
  BY <1>2 DEF TypeOK, Places
<1>4. active \cap (sched \cup retry) = {}
  BY <1>2 DEF TypeOK, Places, OwnershipIndex
<1>5. \A t \in Queued : t \notin sched \cup retry \cup active
  BY <1>2 DEF TypeOK, Places, OwnershipIndex, Queued
<1>6. \A t \in Task :
        dlq[t] > 0 => dlq[t] = 1 /\ t \notin Queued \cup sched \cup retry \cup active
  BY <1>2 DEF TypeOK, Places, OwnershipIndex, Queued
<1>7. QED  BY <1>3, <1>4, <1>5, <1>6 DEF SinglePlace

(* No task sits in two structures that hand tasks on: see SinglePlace.     *)
THEOREM OnePlace == Spec => []SinglePlace
<1>1. QED  BY InOnePlace, QueueInvariant, PTL
=============================================================================

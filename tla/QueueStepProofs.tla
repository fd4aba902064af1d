-------------------------- MODULE QueueStepProofs --------------------------
(***************************************************************************)
(* Proofs about what a step of TaskQueue may do, from the invariant of     *)
(* TaskQueueProofs.                                                        *)
(***************************************************************************)
EXTENDS TaskQueueProofs

(* A step leaves an ended task alone.                                      *)
LEMMA EndedStep ==
  ASSUME QueueInv, QueueInv', [Next]_vars, NEW t \in Task,
         task[t].status \in {"COMPLETED", "DLQ"}
  PROVE  task'[t] = task[t] /\ ~(t \in active' \/ prio'[t] # 0)
<1>1. task'[t] = task[t]
  BY BlobMoves DEF Live
<1>2. t \notin active'
  BY <1>1 DEF QueueInv, OwnershipIndex
<1>3. prio'[t] = 0
  BY <1>1 DEF QueueInv, Places, Queued
<1>4. QED  BY <1>1, <1>2, <1>3

(* COMPLETED and DLQ are final: see TerminalFinal.                         *)
THEOREM EndedStaysEnded == Spec => TerminalFinal
<1>1. QueueInv /\ QueueInv' /\ [Next]_vars =>
        [\A t \in Task : task[t].status \in {"COMPLETED", "DLQ"} =>
           task'[t] = task[t] /\ ~(t \in active' \/ prio'[t] # 0)]_vars
  BY EndedStep
<1>2. QED  BY <1>1, QueueInvariant, PTL DEF TerminalFinal, Spec

(* The moves of a status a script makes are those of Lifecycle.            *)
LEMMA StatusStep ==
  ASSUME QueueInv, [Next]_vars, NEW t \in Task, task'[t].status # task[t].status
  PROVE  \E m \in ScriptMoves : m[1] = task[t].status /\ m[2] = task'[t].status
<1> TypeOK /\ Places  BY DEF QueueInv
<1> USE DEF TypeOK
<1> DEFINE Goes(from, to) == task[t].status = from /\ task'[t].status = to
<1>1. SUFFICES \/ Goes("NONE", "QUEUED") \/ Goes("NONE", "PENDING")
               \/ Goes("QUEUED", "RUNNING")
               \/ Goes("RUNNING", "COMPLETED") \/ Goes("RUNNING", "RETRYING")
               \/ Goes("RUNNING", "DLQ") \/ Goes("RUNNING", "QUEUED")
               \/ Goes("PENDING", "QUEUED") \/ Goes("RETRYING", "QUEUED")
  BY DEF ScriptMoves
<1>2. task[t] \in TaskData
  OBVIOUS
<1>3. CASE Clients
  <2>1. PICK u \in Task, p \in Priority, m \in RetryLimit, k \in Key \cup {NoKey},
             s \in {"QUEUED", "PENDING"} : Record(u, p, m, k, s)
    BY <1>3 DEF Clients, EnqueueNow, EnqueueLater
  <2>2. task[u].status = "NONE" /\ task'[u].status = s
    BY <2>1 DEF Record, Submitted, Blank
  <2>3. \A v \in Task \ {u} : task'[v] = task[v]
    BY <2>1 DEF Record
  <2>4. QED  BY <2>2, <2>3
<1>4. ASSUME NEW w \in Worker, NEW l \in Lease, Claim(w, l)
      PROVE  Goes("QUEUED", "RUNNING")
  <2>1. PICK u \in Heads : task' = [task EXCEPT ![u] = Started(u, w, l)]
    BY <1>4 DEF Claim
  <2>2. u \in Task /\ task[u].status = "QUEUED" /\ task[u] \in TaskData
    BY DEF Heads, Queued, Places
  <2>3. Started(u, w, l).status = "RUNNING"
    BY <2>2 DEF Started, TaskData
  <2>4. QED  BY <2>1, <2>2, <2>3
<1>5. ASSUME NEW c \in tickets, Complete(c) \/ FailRetry(c) \/ FailDead(c)
      PROVE  \/ Goes("RUNNING", "COMPLETED") \/ Goes("RUNNING", "RETRYING")
             \/ Goes("RUNNING", "DLQ")
  <2>1. /\ c.task \in Task /\ task[c.task].status = "RUNNING"
        /\ task[c.task] \in TaskData
    BY <1>5, SettledStep, HolderRuns DEF Ticket
  <2>2. \A u \in Task \ {c.task} : task'[u] = task[u]
    BY <1>5, SettledStep
  <2>3. task'[c.task].status \in {"COMPLETED", "RETRYING", "DLQ"}
    <3>1. CASE Complete(c)
      BY <2>1, <3>1 DEF Complete, TaskData
    <3>2. CASE FailRetry(c)
      BY <2>1, <3>2 DEF FailRetry, Failed, TaskData
    <3>3. CASE FailDead(c)
      BY <2>1, <3>3 DEF FailDead, Failed, TaskData
    <3>4. QED  BY <1>5, <3>1, <3>2, <3>3
  <2>4. QED  BY <2>1, <2>2, <2>3
<1>6. ASSUME NEW u \in Task, Recover(u)
      PROVE  Goes("RUNNING", "QUEUED")
  BY <1>2, <1>6 DEF Recover, Recoverable, TaskData
<1>7. ASSUME NEW batch, batch \subseteq sched \cup retry,
             Promote(batch) \/ PromoteBroken(batch)
      PROVE  Goes("PENDING", "QUEUED") \/ Goes("RETRYING", "QUEUED")
  <2>1. t \in batch /\ task'[t] = [task[t] EXCEPT !.status = "QUEUED"]
    BY <1>7 DEF Promote, PromoteBroken
  <2>2. task[t].status \in {"PENDING", "RETRYING", "QUEUED"}
    BY <1>7, <2>1 DEF Places
  <2>3. task'[t].status = "QUEUED"
    BY <1>2, <2>1 DEF TaskData
  <2>4. QED  BY <2>2, <2>3
<1>8. CASE PromoteScheduled \/ PromoteRetries
  BY <1>7, <1>8 DEF PromoteScheduled, PromoteRetries
<1>9. task' # task
  OBVIOUS
<1>10. QED
  BY <1>3, <1>4, <1>5, <1>6, <1>8, <1>9
  DEF Next, Workers, Services, Time, Renew, PriorityAging, LeaseTick, BecomeDue,
      KeyExpires, vars

(* No script moves a status but as Lifecycle has it: see AlongScriptMoves. *)
THEOREM FollowsLifecycle == Spec => AlongScriptMoves
<1> DEFINE Follows == \A t \in Task : task'[t].status # task[t].status =>
             \E m \in ScriptMoves : m[1] = task[t].status /\ m[2] = task'[t].status
<1>1. QueueInv /\ [Next]_vars => [Follows]_vars
  BY StatusStep
<1>2. QED  BY <1>1, QueueInvariant, PTL DEF AlongScriptMoves, Spec

(* First come, first served up to ties, within a priority and across       *)
(* priorities: see NoOvertaking.                                           *)
THEOREM NobodyOvertakes == Spec => NoOvertaking
<1>1. ASSUME QueueInv, QueueInv', [Next]_vars, NEW t \in Task, NEW u \in Task,
             prio[t] = 0, prio'[t] # 0, prio[u] # 0,
             task[u].priority <= task'[t].priority
      PROVE  prio[u] <= prio'[t]
  <2>1. /\ seq \in Nat /\ prio[u] \in Nat
        /\ task[u].priority \in 1..10 /\ task'[t].priority \in 1..10
        /\ prio[u] <= Score(task[u].priority, seq)
    BY <1>1 DEF QueueInv, TypeOK, Places, ScoresDrawn, Queued
  <2>2. PICK s \in Nat : seq <= s /\ prio'[t] = Score(task'[t].priority, s)
    BY <1>1, ScoreMoves
  <2>3. Score(task[u].priority, seq) <= Score(task'[t].priority, s)
    BY <1>1, <2>1, <2>2, ScoreMonotone
  <2>4. Score(task[u].priority, seq) \in Nat /\ Score(task'[t].priority, s) \in Nat
    BY <2>1, ScoreType
  <2>5. QED  BY <2>1, <2>2, <2>3, <2>4
<1>2. QueueInv /\ QueueInv' /\ [Next]_vars =>
        [\A t, u \in Task : prio[t] = 0 /\ prio'[t] # 0 /\ prio[u] # 0 =>
           (task[u].priority <= task'[t].priority => prio[u] <= prio'[t])]_vars
  BY <1>1
<1>3. QED  BY <1>2, QueueInvariant, PTL DEF NoOvertaking, Spec

(* Only aging changes the score of a task that stays in the queue.         *)
LEMMA QueuedScores ==
  ASSUME QueueInv, [Next]_vars, ~PriorityAging, NEW t \in Queued, prio'[t] # 0
  PROVE  prio'[t] = prio[t]
<1> TypeOK /\ Places  BY DEF QueueInv
<1> USE DEF TypeOK
<1>1. t \in Task /\ task[t].status = "QUEUED" /\ t \notin sched \cup retry
  BY DEF Queued, Places
<1>2. CASE Clients
  BY <1>1, <1>2 DEF Clients, EnqueueNow, EnqueueLater, Record, Submitted
<1>3. ASSUME NEW w \in Worker, NEW l \in Lease, Claim(w, l)
      PROVE  prio'[t] = prio[t]
  BY <1>1, <1>3 DEF Claim, Popped
<1>4. CASE \E u \in Task : Recover(u)
  BY <1>1, <1>4 DEF Recover, Recoverable
<1>5. ASSUME NEW batch, batch \subseteq sched \cup retry,
             Promote(batch) \/ PromoteBroken(batch)
      PROVE  prio'[t] = prio[t]
  BY <1>1, <1>5 DEF Promote, PromoteBroken
<1>6. CASE PromoteScheduled \/ PromoteRetries
  BY <1>5, <1>6 DEF PromoteScheduled, PromoteRetries
<1>7. CASE UNCHANGED prio
  BY <1>7
<1>8. QED
  BY <1>2, <1>3, <1>4, <1>6, <1>7
  DEF Next, Workers, Services, Time, Complete, FailRetry, FailDead, Renew,
      LeaseTick, BecomeDue, KeyExpires, vars

(* One round of aging with max_tasks 1 moves the head of the queue, if     *)
(* anything, and moves it forward.                                         *)
LEMMA AgedHead ==
  ASSUME QueueInv, AgingAmount = 1, PriorityAging
  PROVE  \E h \in Heads : /\ \A t \in Queued \ {h} : prio'[t] = prio[t]
                          /\ prio'[h] <= prio[h]
<1> TypeOK  BY DEF QueueInv
<1> USE DEF TypeOK
<1>1. PICK S \in SUBSET Task :
         /\ Slice(S)
         /\ \E t \in S : Level(prio[t]) > 1
         /\ prio' = [t \in Task |-> IF t \in S /\ Level(prio[t]) > 1
                                    THEN prio[t] - Unit ELSE prio[t]]
  BY DEF PriorityAging
<1>2. IsFiniteSet(S) /\ Cardinality(S) \in Nat /\ S # {}
  BY <1>1, BatchSize
<1>3. Cardinality(S) = 1
  BY <1>1, <1>2, FS_EmptySet DEF Slice
<1>4. PICK h : S = {h}
  BY <1>2, <1>3, FS_Singleton
<1>5. h \in Heads
  BY <1>1, <1>4 DEF Slice, Heads, Queued
<1>6. prio'[h] <= prio[h]
  BY <1>1, <1>4, UnitAssumption
<1>7. \A t \in Queued \ {h} : prio'[t] = prio[t]
  BY <1>1, <1>4 DEF Queued
<1>8. QED  BY <1>5, <1>6, <1>7

(* Nothing reorders tasks that stay queued, with the aging amount the      *)
(* configuration sets: see OrderKept.                                      *)
THEOREM NothingReorders == ASSUME AgingAmount = 1 PROVE Spec => OrderKept
<1>1. ASSUME QueueInv, [Next]_vars, NEW t \in Queued, NEW u \in Queued,
             prio[t] < prio[u], prio'[t] # 0, prio'[u] # 0
      PROVE  prio'[t] < prio'[u]
  <2>1. prio[t] \in Nat /\ prio[u] \in Nat
    BY <1>1 DEF QueueInv, TypeOK, Queued
  <2>2. CASE PriorityAging
    <3>1. PICK h \in Heads : /\ \A v \in Queued \ {h} : prio'[v] = prio[v]
                             /\ prio'[h] <= prio[h]
      BY <1>1, <2>2, AgedHead
    <3>2. u # h
      BY <1>1, <2>1, <3>1 DEF Heads
    <3>3. prio'[u] = prio[u] /\ prio'[t] <= prio[t]
      BY <2>1, <3>1, <3>2
    <3>4. prio'[t] \in Nat
      BY <1>1, InvStep DEF QueueInv, TypeOK, Queued
    <3>5. QED  BY <1>1, <2>1, <3>3, <3>4
  <2>3. CASE ~PriorityAging
    <3>1. prio'[t] = prio[t] /\ prio'[u] = prio[u]
      BY <1>1, <2>3, QueuedScores
    <3>2. QED  BY <1>1, <3>1
  <2>4. QED  BY <2>2, <2>3
<1>2. QueueInv /\ [Next]_vars =>
        [\A t, u \in Queued : prio[t] < prio[u] /\ prio'[t] # 0 /\ prio'[u] # 0 =>
           prio'[t] < prio'[u]]_vars
  BY <1>1
<1>3. QED  BY <1>2, QueueInvariant, PTL DEF OrderKept, Spec

-----------------------------------------------------------------------------
(* Whoever calls the scripts, with or without the sequence key: a step     *)
(* that leaves a QUEUED task where nothing finds it is a recovery of it.   *)
LEMMA LossStep ==
  ASSUME QueueInv, [Next]_vars, NEW t \in Task, ~Lost(t), Lost(t)'
  PROVE  ~SeqKey /\ Recover(t)
<1> TypeOK /\ Places  BY DEF QueueInv
<1> USE DEF TypeOK
<1> DEFINE Found == prio'[t] # 0 \/ t \in sched' \cup retry'
<1>1. task'[t].status = "QUEUED" /\ ~Found
  BY DEF Lost, Queued
<1>2. task[t].status = "QUEUED" => prio[t] # 0 \/ t \in sched \cup retry
  BY DEF Lost, Queued
<1>3. task[t] \in TaskData
  OBVIOUS
<1>4. CASE Clients
  <2>1. PICK u \in Task, p \in Priority, m \in RetryLimit, k \in Key \cup {NoKey} :
          EnqueueNow(u, p, m, k) \/ EnqueueLater(u, p, m, k)
    BY <1>4 DEF Clients
  <2>2. u # t => task'[t] = task[t]
    BY <2>1 DEF EnqueueNow, EnqueueLater, Record
  <2>3. CASE EnqueueNow(u, p, m, k)
    <3>1. p \in 1..10 /\ seq + 1 \in Nat
      BY QueueAssumption
    <3>2. Score(p, seq + 1) # 0
      BY <3>1, ScoreType
    <3>3. /\ prio' = [prio EXCEPT ![u] = Score(p, seq + 1)]
          /\ UNCHANGED <<sched, retry>>
      BY <2>3 DEF EnqueueNow, Record
    <3>4. QED  BY <1>1, <1>2, <2>2, <3>2, <3>3
  <2>4. CASE EnqueueLater(u, p, m, k)
    <3>1. sched' = sched \cup {u} /\ UNCHANGED <<prio, retry>>
      BY <2>4 DEF EnqueueLater, Record
    <3>2. QED  BY <1>1, <1>2, <2>2, <3>1
  <2>5. QED  BY <2>1, <2>3, <2>4
<1>5. ASSUME NEW w \in Worker, NEW l \in Lease, Claim(w, l)
      PROVE  FALSE
  <2>1. PICK u \in Heads : /\ task' = [task EXCEPT ![u] = Started(u, w, l)]
                           /\ prio' = Popped(u)
    BY <1>5 DEF Claim
  <2>2. u \in Task /\ task[u] \in TaskData
    BY DEF Heads, Queued
  <2>3. task'[u].status = "RUNNING"
    BY <2>1, <2>2 DEF Started, TaskData
  <2>4. t # u /\ task'[t] = task[t] /\ prio'[t] = prio[t]
    BY <1>1, <2>1, <2>3 DEF Popped
  <2>5. UNCHANGED <<sched, retry>>
    BY <1>5 DEF Claim
  <2>6. QED  BY <1>1, <1>2, <2>4, <2>5
<1>6. ASSUME NEW c \in tickets, Complete(c) \/ FailRetry(c) \/ FailDead(c)
      PROVE  FALSE
  <2>1. /\ c.task \in Task /\ task[c.task] \in TaskData
        /\ \A u \in Task \ {c.task} : task'[u] = task[u]
    BY <1>6, SettledStep DEF Ticket
  <2>2. task'[c.task].status \in {"COMPLETED", "RETRYING", "DLQ"}
    <3>1. CASE Complete(c)
      BY <2>1, <3>1 DEF Complete, TaskData
    <3>2. CASE FailRetry(c)
      BY <2>1, <3>2 DEF FailRetry, Failed, TaskData
    <3>3. CASE FailDead(c)
      BY <2>1, <3>3 DEF FailDead, Failed, TaskData
    <3>4. QED  BY <1>6, <3>1, <3>2, <3>3
  <2>3. task'[t] = task[t]
    BY <1>1, <2>1, <2>2
  <2>4. UNCHANGED <<prio, sched>> /\ retry \subseteq retry'
    BY <1>6 DEF Complete, FailRetry, FailDead
  <2>5. QED  BY <1>1, <1>2, <2>3, <2>4
<1>7. ASSUME NEW u \in Task, Recover(u)
      PROVE  ~SeqKey /\ Recover(t)
  <2>1. UNCHANGED <<sched, retry>> /\ \A v \in Task \ {u} : task'[v] = task[v]
    BY <1>7 DEF Recover
  <2>2. \A v \in Task \ {u} : prio'[v] = prio[v]
    BY <1>7 DEF Recover
  <2>3. u = t
    BY <1>1, <1>2, <2>1, <2>2
  <2>4. CASE SeqKey
    <3>1. task[u].status # "NONE" /\ seq + 1 \in Nat
      BY <1>7 DEF Recover, Recoverable
    <3>2. prio'[u] = Score(task[u].priority, seq + 1)
      BY <1>7, <2>4 DEF Recover
    <3>3. QED  BY <1>1, <2>3, <3>1, <3>2, TaskScore
  <2>5. QED  BY <1>7, <2>3, <2>4
<1>8. ASSUME NEW batch, batch \subseteq sched \cup retry, Promote(batch),
             t \in (sched \cup retry) \ batch => t \in sched' \cup retry'
      PROVE  FALSE
  <2>1. Cardinality(batch) \in Nat
    BY <1>8, BatchSize
  <2>2. PICK rank \in [batch -> 1..Cardinality(batch)] :
          prio' = [u \in Task |-> IF u \in batch
                                  THEN Score(task[u].priority, seq + rank[u])
                                  ELSE prio[u]]
    BY <1>8 DEF Promote
  <2>3. CASE t \in batch
    <3>1. task[t].status # "NONE"
      BY <1>8, <2>3 DEF Places
    <3>2. seq + rank[t] \in Nat
      <4>1. rank[t] \in 1..Cardinality(batch)
        BY <2>2, <2>3
      <4>2. QED  BY <2>1, <4>1
    <3>3. prio'[t] # 0
      BY <2>2, <2>3, <3>1, <3>2, TaskScore
    <3>4. QED  BY <1>1, <3>3
  <2>4. CASE t \notin batch
    <3>1. task'[t] = task[t] /\ prio'[t] = prio[t]
      BY <1>8, <2>2, <2>4 DEF Promote
    <3>2. QED  BY <1>1, <1>2, <1>8, <2>4, <3>1
  <2>5. QED  BY <2>3, <2>4
<1>9. ASSUME NEW batch, batch \subseteq sched \cup retry, PromoteBroken(batch)
      PROVE  FALSE
  <2>1. UNCHANGED <<prio, sched, retry>> /\ (t \notin batch => task'[t] = task[t])
    BY <1>9 DEF PromoteBroken
  <2>2. QED  BY <1>1, <1>2, <1>9, <2>1
<1>10. CASE PromoteScheduled \/ PromoteRetries
  <2>1. t \in (sched \cup retry) \ (sched \cap due) => t \in (sched \ due) \cup retry
    OBVIOUS
  <2>2. t \in (sched \cup retry) \ (retry \cap due) => t \in sched \cup (retry \ due)
    OBVIOUS
  <2>3. QED
    BY <1>8, <1>9, <1>10, <2>1, <2>2 DEF PromoteScheduled, PromoteRetries, Remaining
<1>11. CASE PriorityAging
  <2>1. \A u \in Task : prio[u] # 0 => prio'[u] # 0
    BY <1>11, AgedScore DEF PriorityAging
  <2>2. UNCHANGED <<task, sched, retry>>
    BY <1>11 DEF PriorityAging
  <2>3. QED  BY <1>1, <1>2, <2>1, <2>2
<1>12. CASE UNCHANGED <<task, prio, sched, retry>>
  BY <1>1, <1>2, <1>12
<1>13. QED
  BY <1>4, <1>5, <1>6, <1>7, <1>10, <1>11, <1>12
  DEF Next, Workers, Services, Time, Renew, LeaseTick, BecomeDue, KeyExpires, vars

(* The only way to lose a task is a recovery without the sequence key: see *)
(* OnlyRecoveryLoses.  Called with all their keys the scripts lose none.   *)
THEOREM LossesAreRecoveries == Spec => OnlyRecoveryLoses
<1>1. QueueInv /\ [Next]_vars =>
        [\A t \in Task : Lost(t)' /\ ~Lost(t) => ~SeqKey /\ Recover(t)]_vars
  BY LossStep
<1>2. QED  BY <1>1, QueueInvariant, PTL DEF OnlyRecoveryLoses, Spec

-----------------------------------------------------------------------------
(* NothingLost but for the tasks marked QUEUED: what is left of it when    *)
(* recovery and the scheduler call the scripts without the sequence key.   *)
OthersFound ==
  \A t \in Task :
    /\ task[t].status = "PENDING"  => t \in sched
    /\ task[t].status = "RETRYING" => t \in retry
    /\ task[t].status = "RUNNING"  => t \in active
    /\ task[t].status = "DLQ"      => dlq[t] = 1

(* A script that takes a task out of a set has marked it, and one that     *)
(* raises takes none out.                                                  *)
LEMMA OthersFoundStep ==
  ASSUME QueueInv, QueueInv', OthersFound, [Next]_vars
  PROVE  OthersFound'
<1> TypeOK /\ Places  BY DEF QueueInv
<1> USE DEF TypeOK
<1> DEFINE Kept(t) == /\ task'[t].status = "PENDING"  => t \in sched'
                      /\ task'[t].status = "RETRYING" => t \in retry'
<1>1. SUFFICES \A t \in Task : Kept(t)
  <2>1. \A t \in Task : /\ task'[t].status = "RUNNING" => t \in active'
                        /\ task'[t].status = "DLQ" => dlq'[t] = 1
    BY DEF QueueInv, OwnershipIndex, Places
  <2>2. QED  BY <1>1, <2>1 DEF OthersFound
<1>2. \A t \in Task : /\ task[t].status = "PENDING"  => t \in sched
                      /\ task[t].status = "RETRYING" => t \in retry
                      /\ task[t] \in TaskData
  BY DEF OthersFound
<1>3. CASE Clients
  <2>1. PICK t \in Task, p \in Priority, m \in RetryLimit, k \in Key \cup {NoKey} :
          EnqueueNow(t, p, m, k) \/ EnqueueLater(t, p, m, k)
    BY <1>3 DEF Clients
  <2>2. UNCHANGED retry /\ \A u \in Task \ {t} : task'[u] = task[u]
    BY <2>1 DEF EnqueueNow, EnqueueLater, Record
  <2>3. \/ task'[t].status = "QUEUED" /\ UNCHANGED sched
        \/ task'[t].status = "PENDING" /\ sched' = sched \cup {t}
    <3>1. CASE EnqueueNow(t, p, m, k)
      BY <3>1 DEF EnqueueNow, Record, Blank
    <3>2. CASE EnqueueLater(t, p, m, k)
      BY <3>2 DEF EnqueueLater, Record, Blank
    <3>3. QED  BY <2>1, <3>1, <3>2
  <2>4. QED  BY <1>2, <2>2, <2>3
<1>4. ASSUME NEW t \in Task, \A u \in Task \ {t} : task'[u] = task[u],
             sched \subseteq sched', retry \subseteq retry',
             \/ task'[t].status \in {"QUEUED", "RUNNING", "COMPLETED", "DLQ"}
             \/ task'[t].status = "RETRYING" /\ t \in retry'
      PROVE  \A u \in Task : Kept(u)
  BY <1>2, <1>4
<1>5. ASSUME NEW w \in Worker, NEW l \in Lease, Claim(w, l)
      PROVE  \A t \in Task : Kept(t)
  <2>1. PICK t \in Heads : task' = [task EXCEPT ![t] = Started(t, w, l)]
    BY <1>5 DEF Claim
  <2>2. t \in Task /\ task'[t].status = "RUNNING"
    BY <1>2, <2>1 DEF Heads, Queued, Started, TaskData
  <2>3. UNCHANGED <<sched, retry>>
    BY <1>5 DEF Claim
  <2>4. QED  BY <1>4, <2>1, <2>2, <2>3
<1>6. ASSUME NEW c \in tickets, Complete(c) \/ FailRetry(c) \/ FailDead(c)
      PROVE  \A t \in Task : Kept(t)
  <2>1. c.task \in Task /\ \A u \in Task \ {c.task} : task'[u] = task[u]
    BY <1>6, SettledStep DEF Ticket
  <2>2. UNCHANGED sched /\ retry \subseteq retry'
    BY <1>6 DEF Complete, FailRetry, FailDead
  <2>3. CASE Complete(c)
    BY <1>2, <1>4, <2>1, <2>2, <2>3 DEF Complete, TaskData
  <2>4. CASE FailRetry(c)
    <3>1. task'[c.task].status = "RETRYING" /\ c.task \in retry'
      BY <1>2, <2>1, <2>4 DEF FailRetry, Failed, TaskData
    <3>2. QED  BY <1>4, <2>1, <2>2, <3>1
  <2>5. CASE FailDead(c)
    <3>1. task'[c.task].status = "DLQ"
      BY <1>2, <2>1, <2>5 DEF FailDead, Failed, TaskData
    <3>2. QED  BY <1>4, <2>1, <2>2, <3>1
  <2>6. QED  BY <1>6, <2>3, <2>4, <2>5
<1>7. ASSUME NEW t \in Task, Recover(t)
      PROVE  \A u \in Task : Kept(u)
  BY <1>2, <1>4, <1>7 DEF Recover, TaskData
<1>8. ASSUME NEW batch, batch \subseteq sched \cup retry,
             \A t \in Task \ batch : /\ t \in sched => t \in sched'
                                     /\ t \in retry => t \in retry',
             Promote(batch) \/ (PromoteBroken(batch) /\ UNCHANGED <<sched, retry>>)
      PROVE  \A t \in Task : Kept(t)
  <2>1. \A t \in batch : [task[t] EXCEPT !.status = "QUEUED"].status = "QUEUED"
    BY <1>2, <1>8 DEF TaskData
  <2>2. CASE Promote(batch)
    BY <1>2, <1>8, <2>1, <2>2 DEF Promote
  <2>3. CASE PromoteBroken(batch)
    BY <1>2, <1>8, <2>1, <2>3 DEF PromoteBroken
  <2>4. QED  BY <1>8, <2>2, <2>3
<1>9. CASE PromoteScheduled \/ PromoteRetries
  <2>1. ASSUME NEW batch, batch \in {sched \cap due, retry \cap due},
               Promote(batch), \/ sched' = sched \ batch /\ UNCHANGED retry
                               \/ retry' = retry \ batch /\ UNCHANGED sched
        PROVE  \A t \in Task : Kept(t)
    BY <1>8, <2>1 DEF PromoteBroken
  <2>2. ASSUME NEW batch, batch \in {sched \cap due, retry \cap due},
               PromoteBroken(batch)
        PROVE  \A t \in Task : Kept(t)
    BY <1>8, <2>2 DEF PromoteBroken
  <2>3. sched \ (sched \cap due) = sched \ due /\ retry \ (retry \cap due) = retry \ due
    OBVIOUS
  <2>4. QED
    BY <1>9, <2>1, <2>2, <2>3 DEF PromoteScheduled, PromoteRetries, Remaining
<1>10. CASE UNCHANGED <<task, sched, retry>>
  BY <1>2, <1>10
<1>11. QED
  BY <1>3, <1>5, <1>6, <1>7, <1>9, <1>10
  DEF Next, Workers, Services, Time, Renew, PriorityAging, LeaseTick, BecomeDue,
      KeyExpires, vars

(* However the scripts are called, the tasks they lose are tasks marked    *)
(* QUEUED: every other is where its status says.                           *)
THEOREM OnlyQueuedAreLost == Spec => []OthersFound
<1>1. Init => OthersFound
  BY DEF Init, OthersFound, Blank
<1>2. QueueInv /\ QueueInv' /\ OthersFound /\ [Next]_vars => OthersFound'
  BY OthersFoundStep
<1>3. QED  BY <1>1, <1>2, QueueInvariant, PTL DEF Spec

-----------------------------------------------------------------------------
(* The writes of the scripts to a blob keep it within its budget.          *)
LEMMA BudgetBlobs ==
  ASSUME NEW r \in TaskData, WithinBudget(r), NEW w, NEW l
  PROVE  /\ r.status \in Live =>
              /\ WithinBudget([r EXCEPT !.status = "QUEUED"])
              /\ WithinBudget([r EXCEPT !.status = "COMPLETED"])
              /\ WithinBudget([r EXCEPT !.status = "RUNNING", !.worker = w,
                                        !.lease_id = l, !.attempt = @ + 1])
         /\ r.status = "RUNNING" /\ r.attempt <= r.max_retries =>
              WithinBudget([r EXCEPT !.status = "RETRYING", !.failures = @ + 1])
         /\ r.status = "RUNNING" /\ ~(r.attempt <= r.max_retries) =>
              WithinBudget([r EXCEPT !.status = "DLQ", !.failures = @ + 1])
<1>1. r.attempt \in Nat /\ r.failures \in Nat /\ r.max_retries \in Nat
  BY DEF TaskData
<1>2. ASSUME r.status \in Live
      PROVE  /\ WithinBudget([r EXCEPT !.status = "QUEUED"])
             /\ WithinBudget([r EXCEPT !.status = "COMPLETED"])
  BY <1>1, <1>2 DEF WithinBudget, TaskData, Live
<1>3. ASSUME r.status \in Live
      PROVE  WithinBudget([r EXCEPT !.status = "RUNNING", !.worker = w,
                                    !.lease_id = l, !.attempt = @ + 1])
  BY <1>1, <1>3 DEF WithinBudget, TaskData, Live
<1>4. ASSUME r.status = "RUNNING", r.attempt <= r.max_retries
      PROVE  WithinBudget([r EXCEPT !.status = "RETRYING", !.failures = @ + 1])
  BY <1>1, <1>4 DEF WithinBudget, TaskData
<1>5. ASSUME r.status = "RUNNING", ~(r.attempt <= r.max_retries)
      PROVE  WithinBudget([r EXCEPT !.status = "DLQ", !.failures = @ + 1])
  BY <1>1, <1>5 DEF WithinBudget, TaskData
<1>6. QED  BY <1>2, <1>3, <1>4, <1>5

(* Every script keeps the books of attempts and failures.                  *)
LEMMA BudgetStep == QueueInv /\ BudgetInv /\ [Next]_vars => BudgetInv'
<1> SUFFICES ASSUME QueueInv, BudgetInv, [Next]_vars, NEW t \in Task
             PROVE  WithinBudget(task'[t])
  BY DEF BudgetInv
<1> TypeOK /\ Places  BY DEF QueueInv
<1> USE DEF TypeOK
<1>1. task[t] \in TaskData /\ WithinBudget(task[t])
  BY DEF BudgetInv
<1>2. CASE Clients
  <2>1. PICK u \in Task, p \in Priority, m \in RetryLimit, k \in Key \cup {NoKey},
             s \in {"QUEUED", "PENDING"} : Record(u, p, m, k, s)
    BY <1>2 DEF Clients, EnqueueNow, EnqueueLater
  <2>2. t # u => task'[t] = task[t]
    BY <2>1 DEF Record
  <2>3. t = u => WithinBudget(task'[t])
    BY <2>1, QueueAssumption DEF Record, Blank, WithinBudget
  <2>4. QED  BY <1>1, <2>2, <2>3
<1>3. ASSUME NEW w \in Worker, NEW l \in Lease, Claim(w, l)
      PROVE  WithinBudget(task'[t])
  <2>1. PICK u \in Heads : task' = [task EXCEPT ![u] = Started(u, w, l)]
    BY <1>3 DEF Claim
  <2>2. u \in Task /\ task[u].status \in Live
    BY DEF Heads, Queued, Places, Live
  <2>3. t = u => WithinBudget(Started(t, w, l))
    BY <1>1, <2>2, BudgetBlobs DEF Started
  <2>4. QED  BY <1>1, <2>1, <2>2, <2>3
<1>4. ASSUME NEW c \in tickets, Complete(c) \/ FailRetry(c) \/ FailDead(c)
      PROVE  WithinBudget(task'[t])
  <2>1. c.task \in Task /\ task[c.task].status = "RUNNING"
    BY <1>4, SettledStep, HolderRuns DEF Ticket
  <2>2. t # c.task => task'[t] = task[t]
    BY <1>4, SettledStep
  <2>3. ASSUME t = c.task, Complete(c)
        PROVE  WithinBudget(task'[t])
    BY <1>1, <2>1, <2>3, BudgetBlobs DEF Complete, Live
  <2>4. ASSUME t = c.task, FailRetry(c)
        PROVE  WithinBudget(task'[t])
    BY <1>1, <2>1, <2>4, BudgetBlobs DEF FailRetry, RetriesLeft, Failed
  <2>5. ASSUME t = c.task, FailDead(c)
        PROVE  WithinBudget(task'[t])
    BY <1>1, <2>1, <2>5, BudgetBlobs DEF FailDead, RetriesLeft, Failed
  <2>6. QED  BY <1>1, <1>4, <2>2, <2>3, <2>4, <2>5
<1>5. ASSUME NEW u \in Task, Recover(u)
      PROVE  WithinBudget(task'[t])
  <2>1. t # u => task'[t] = task[t]
    BY <1>5 DEF Recover
  <2>2. t = u => WithinBudget(task'[t])
    BY <1>1, <1>5, BudgetBlobs DEF Recover, Recoverable, Live
  <2>3. QED  BY <1>1, <2>1, <2>2
<1>6. ASSUME NEW batch, batch \subseteq sched \cup retry,
             Promote(batch) \/ PromoteBroken(batch)
      PROVE  WithinBudget(task'[t])
  <2>1. \/ task'[t] = task[t]
        \/ t \in batch /\ task'[t] = [task[t] EXCEPT !.status = "QUEUED"]
    BY <1>6 DEF Promote, PromoteBroken
  <2>2. t \in batch => task[t].status \in Live
    BY <1>6 DEF Places, Live
  <2>3. QED  BY <1>1, <2>1, <2>2, BudgetBlobs
<1>7. CASE PromoteScheduled \/ PromoteRetries
  BY <1>6, <1>7 DEF PromoteScheduled, PromoteRetries
<1>8. CASE UNCHANGED task
  BY <1>1, <1>8
<1>9. QED
  BY <1>2, <1>3, <1>4, <1>5, <1>7, <1>8
  DEF Next, Workers, Services, Time, Renew, PriorityAging, LeaseTick, BecomeDue,
      KeyExpires, vars

(* No task has been tried yet.                                             *)
LEMMA BudgetInit == Init => BudgetInv
<1>1. Init => \A t \in Task : task[t] = Blank
  BY DEF Init
<1>2. WithinBudget(Blank)
  BY DEF WithinBudget, Blank
<1>3. QED  BY <1>1, <1>2 DEF BudgetInv

(* Attempts and failures keep their books: see BudgetInv.                  *)
THEOREM BudgetInvariant == Spec => []BudgetInv
<1>1. QueueInv /\ BudgetInv /\ [Next]_vars => BudgetInv'
  BY BudgetStep
<1>2. QED  BY <1>1, BudgetInit, QueueInvariant, PTL DEF Spec

(* What the books of attempts and failures come to.                        *)
LEMMA WithinLimits == QueueInv /\ BudgetInv => RetryBudget
<1>1. SUFFICES ASSUME QueueInv, BudgetInv, NEW t \in Task
               PROVE  /\ task[t].failures <= task[t].max_retries + 1
                      /\ task[t].failures <= task[t].attempt
                      /\ task[t].status = "RETRYING" =>
                           task[t].attempt <= task[t].max_retries
                      /\ task[t].status = "DLQ" =>
                           task[t].attempt > task[t].max_retries
  BY DEF RetryBudget
<1>2. task[t] \in TaskData /\ WithinBudget(task[t])
  BY <1>1 DEF QueueInv, TypeOK, BudgetInv
<1>3. task[t].failures \in Nat /\ task[t].max_retries \in Nat
  BY <1>2 DEF TaskData
<1>4. QED  BY <1>2, <1>3 DEF WithinBudget

(* max_retries bounds the failed executions: see RetryBudget.              *)
THEOREM RetriesBounded == Spec => []RetryBudget
<1>1. QED  BY WithinLimits, BudgetInvariant, QueueInvariant, PTL

-----------------------------------------------------------------------------
(* The counters.                                                           *)

(* The elements of RetryHistory.                                           *)
LEMMA HistoryEntry ==
  ASSUME NEW e
  PROVE  e \in RetryHistory <=>
           \E t \in Task : \E n \in 1..task[t].failures : e = <<t, n>>
BY DEF RetryHistory

(* The same in the next state.                                             *)
LEMMA HistoryEntryNext ==
  ASSUME NEW e
  PROVE  e \in RetryHistory' <=>
           \E t \in Task : \E n \in 1..task'[t].failures : e = <<t, n>>
BY DEF RetryHistory

(* Finitely many tasks failed finitely often.                              *)
LEMMA HistoryFinite == TypeOK => IsFiniteSet(RetryHistory)
<1> SUFFICES ASSUME TypeOK PROVE IsFiniteSet(RetryHistory)  OBVIOUS
<1> DEFINE entries == [t \in Task |-> {t} \X (1..task[t].failures)]
           E == {entries[t] : t \in Task}
<1>1. entries \in Surjection(Task, E)
  BY DEF Surjection
<1>2. IsFiniteSet(E)
  BY <1>1, QueueAssumption, FS_Surjection
<1>3. ASSUME NEW t \in Task
      PROVE  IsFiniteSet({t} \X (1..task[t].failures))
  <2>1. task[t].failures \in Int
    BY DEF TypeOK, TaskData
  <2>2. IsFiniteSet(1..task[t].failures)
    BY <2>1, FS_Interval
  <2>3. QED  BY <2>2, FS_Singleton, FS_Product
<1>4. \A T \in E : IsFiniteSet(T)
  BY <1>3
<1>5. QED  BY <1>2, <1>4, FS_UNION DEF RetryHistory

(* A failure appends one entry.                                            *)
LEMMA HistoryGrows ==
  ASSUME TypeOK, NEW t \in Task, task'[t].failures = task[t].failures + 1,
         \A u \in Task \ {t} : task'[u].failures = task[u].failures
  PROVE  Cardinality(RetryHistory') = Cardinality(RetryHistory) + 1
<1> DEFINE n == task[t].failures + 1
<1>1. \A u \in Task : task[u].failures \in Nat
  BY DEF TypeOK, TaskData
<1>2. <<t, n>> \notin RetryHistory
  BY <1>1, HistoryEntry
<1>3. RetryHistory' = RetryHistory \cup {<<t, n>>}
  <2>1. ASSUME NEW e, e \in RetryHistory'
        PROVE  e \in RetryHistory \cup {<<t, n>>}
    <3>1. PICK u \in Task : \E m \in 1..task'[u].failures : e = <<u, m>>
      BY <2>1, HistoryEntryNext
    <3>2. PICK m \in 1..task'[u].failures : e = <<u, m>>
      BY <3>1
    <3>3. (u = t /\ m = n) \/ m \in 1..task[u].failures
      BY <1>1
    <3>4. QED  BY <3>2, <3>3, HistoryEntry
  <2>2. <<t, n>> \in RetryHistory'
    <3>1. n \in 1..task'[t].failures
      BY <1>1
    <3>2. QED  BY <3>1, HistoryEntryNext
  <2>3. ASSUME NEW e, e \in RetryHistory
        PROVE  e \in RetryHistory'
    <3>1. PICK u \in Task : \E m \in 1..task[u].failures : e = <<u, m>>
      BY <2>3, HistoryEntry
    <3>2. PICK m \in 1..task[u].failures : e = <<u, m>>
      BY <3>1
    <3>3. m \in 1..task'[u].failures
      BY <1>1
    <3>4. QED  BY <3>2, <3>3, HistoryEntryNext
  <2>4. QED  BY <2>1, <2>2, <2>3
<1>4. QED  BY <1>2, <1>3, HistoryFinite, FS_AddElement

(* Without a failure there is nothing to append.                           *)
LEMMA HistoryKept ==
  ASSUME \A t \in Task : task'[t].failures = task[t].failures
  PROVE  RetryHistory' = RetryHistory
BY HistoryEntry, HistoryEntryNext

(* A task that takes the status s makes one more of it.                    *)
LEMMA OneMore ==
  ASSUME NEW s, NEW t \in Task, task[t].status # s, task'[t].status = s,
         \A u \in Task \ {t} : task'[u].status = task[u].status
  PROVE  Cardinality(Having(s)') = Cardinality(Having(s)) + 1
<1>1. Having(s) \subseteq Task /\ t \notin Having(s)
  BY DEF Having
<1>2. Having(s)' = Having(s) \cup {t}
  BY DEF Having
<1>3. IsFiniteSet(Having(s))
  BY <1>1, BatchSize
<1>4. QED  BY <1>1, <1>2, <1>3, FS_AddElement

(* What the counters of MetricsAgree count is left alone by a step that    *)
(* makes no new task, ends none and fails none.                            *)
LEMMA BooksKept ==
  ASSUME MetricsAgree, UNCHANGED <<metrics.submitted, metrics.completed,
                                   metrics.failed, metrics.retried>>,
         \A t \in Task : /\ task'[t].failures = task[t].failures
                         /\ \/ task'[t].status = task[t].status
                            \/ {task[t].status, task'[t].status} \subseteq Live
  PROVE  MetricsAgree'
<1>1. Submitted' = Submitted
  BY DEF Submitted, Live
<1>2. Having("COMPLETED")' = Having("COMPLETED") /\ Having("DLQ")' = Having("DLQ")
  BY DEF Having, Live
<1>3. RetryHistory' = RetryHistory
  BY HistoryKept
<1>4. QED  BY <1>1, <1>2, <1>3 DEF MetricsAgree

(* Every script counts what it does.                                       *)
LEMMA MetricsStep == QueueInv /\ MetricsAgree /\ [Next]_vars => MetricsAgree'
<1> SUFFICES ASSUME QueueInv, MetricsAgree, [Next]_vars PROVE MetricsAgree'
  OBVIOUS
<1> TypeOK /\ Places  BY DEF QueueInv
<1> USE DEF TypeOK
<1>1. metrics \in Counters /\ \A t \in Task : task[t] \in TaskData
  OBVIOUS
<1>2. CASE Clients
  <2>1. PICK t \in Task, p \in Priority, m \in RetryLimit, k \in Key \cup {NoKey},
             s \in {"QUEUED", "PENDING"} : Record(t, p, m, k, s)
    BY <1>2 DEF Clients, EnqueueNow, EnqueueLater
  <2>2. task[t].status = "NONE" /\ task[t] = Blank
    BY <2>1 DEF Record, Submitted, QueueInv, NoHashYet
  <2>3. task'[t].status = s /\ task'[t].failures = task[t].failures
    BY <2>1, <2>2 DEF Record, Blank
  <2>4. \A u \in Task \ {t} : task'[u] = task[u]
    BY <2>1 DEF Record
  <2>5. Cardinality(Submitted') = Cardinality(Submitted) + 1
    <3>1. Submitted' = Submitted \cup {t} /\ t \notin Submitted
      BY <2>2, <2>3, <2>4 DEF Submitted
    <3>2. IsFiniteSet(Submitted)
      BY BatchSize DEF Submitted
    <3>3. QED  BY <3>1, <3>2, FS_AddElement
  <2>6. Having("COMPLETED")' = Having("COMPLETED") /\ Having("DLQ")' = Having("DLQ")
    BY <2>2, <2>3, <2>4 DEF Having
  <2>7. RetryHistory' = RetryHistory
    BY <2>3, <2>4, HistoryKept
  <2>8. metrics' = [metrics EXCEPT !.submitted = @ + 1]
    BY <2>1 DEF Record
  <2>9. QED  BY <1>1, <2>5, <2>6, <2>7, <2>8 DEF MetricsAgree, Counters
<1>3. ASSUME NEW w \in Worker, NEW l \in Lease, Claim(w, l)
      PROVE  MetricsAgree'
  <2>1. PICK t \in Heads : task' = [task EXCEPT ![t] = Started(t, w, l)]
    BY <1>3 DEF Claim
  <2>2. t \in Task /\ task[t].status = "QUEUED"
    BY DEF Heads, Queued, Places
  <2>3. task'[t].status = "RUNNING" /\ task'[t].failures = task[t].failures
    BY <1>1, <2>1, <2>2 DEF Started, TaskData
  <2>4. UNCHANGED metrics
    BY <1>3 DEF Claim
  <2>5. QED  BY <2>1, <2>2, <2>3, <2>4, BooksKept DEF Live
<1>4. ASSUME NEW c \in tickets, Complete(c)
      PROVE  MetricsAgree'
  <2>1. c.task \in Task /\ task[c.task].status = "RUNNING"
    BY <1>4, HolderRuns DEF Complete, Ticket
  <2>2. \A u \in Task \ {c.task} : task'[u] = task[u]
    BY <1>4 DEF Complete
  <2>3. /\ task'[c.task].status = "COMPLETED"
        /\ task'[c.task].failures = task[c.task].failures
    BY <1>1, <1>4, <2>1 DEF Complete, TaskData
  <2>4. Cardinality(Having("COMPLETED")') = Cardinality(Having("COMPLETED")) + 1
    BY <2>1, <2>2, <2>3, OneMore
  <2>5. Submitted' = Submitted /\ Having("DLQ")' = Having("DLQ")
    BY <2>1, <2>2, <2>3 DEF Submitted, Having
  <2>6. RetryHistory' = RetryHistory
    BY <2>2, <2>3, HistoryKept
  <2>7. metrics' = [metrics EXCEPT !.completed = @ + 1]
    BY <1>4 DEF Complete
  <2>8. QED  BY <1>1, <2>4, <2>5, <2>6, <2>7 DEF MetricsAgree, Counters
<1>5. ASSUME NEW c \in tickets, FailRetry(c)
      PROVE  MetricsAgree'
  <2>1. c.task \in Task /\ task[c.task].status = "RUNNING"
    BY <1>5, HolderRuns DEF FailRetry, Ticket
  <2>2. \A u \in Task \ {c.task} : task'[u] = task[u]
    BY <1>5 DEF FailRetry
  <2>3. /\ task'[c.task].status = "RETRYING"
        /\ task'[c.task].failures = task[c.task].failures + 1
    BY <1>1, <1>5, <2>1 DEF FailRetry, Failed, TaskData
  <2>4. Submitted' = Submitted
    BY <2>1, <2>2, <2>3 DEF Submitted
  <2>5. Having("COMPLETED")' = Having("COMPLETED") /\ Having("DLQ")' = Having("DLQ")
    BY <2>1, <2>2, <2>3 DEF Having
  <2>6. Cardinality(RetryHistory') = Cardinality(RetryHistory) + 1
    BY <2>1, <2>2, <2>3, HistoryGrows
  <2>7. metrics' = [metrics EXCEPT !.retried = @ + 1]
    BY <1>5 DEF FailRetry
  <2>8. QED  BY <1>1, <2>4, <2>5, <2>6, <2>7 DEF MetricsAgree, Counters
<1>6. ASSUME NEW c \in tickets, FailDead(c)
      PROVE  MetricsAgree'
  <2>1. c.task \in Task /\ task[c.task].status = "RUNNING"
    BY <1>6, HolderRuns DEF FailDead, Ticket
  <2>2. \A u \in Task \ {c.task} : task'[u] = task[u]
    BY <1>6 DEF FailDead
  <2>3. /\ task'[c.task].status = "DLQ"
        /\ task'[c.task].failures = task[c.task].failures + 1
    BY <1>1, <1>6, <2>1 DEF FailDead, Failed, TaskData
  <2>4. Cardinality(Having("DLQ")') = Cardinality(Having("DLQ")) + 1
    BY <2>1, <2>2, <2>3, OneMore
  <2>5. Submitted' = Submitted /\ Having("COMPLETED")' = Having("COMPLETED")
    BY <2>1, <2>2, <2>3 DEF Submitted, Having
  <2>6. Cardinality(RetryHistory') = Cardinality(RetryHistory) + 1
    BY <2>1, <2>2, <2>3, HistoryGrows
  <2>7. metrics' = [metrics EXCEPT !.failed = @ + 1]
    BY <1>6 DEF FailDead
  <2>8. QED  BY <1>1, <2>4, <2>5, <2>6, <2>7 DEF MetricsAgree, Counters
<1>7. ASSUME NEW t \in Task, Recover(t)
      PROVE  MetricsAgree'
  <2>1. task[t].status = "RUNNING" /\ \A u \in Task \ {t} : task'[u] = task[u]
    BY <1>7 DEF Recover, Recoverable
  <2>2. task'[t].status = "QUEUED" /\ task'[t].failures = task[t].failures
    BY <1>1, <1>7 DEF Recover, TaskData
  <2>3. metrics' = [metrics EXCEPT !.recovered = @ + 1]
    BY <1>7 DEF Recover
  <2>4. UNCHANGED <<metrics.submitted, metrics.completed, metrics.failed,
                    metrics.retried>>
    BY <1>1, <2>3 DEF Counters
  <2>5. QED  BY <2>1, <2>2, <2>4, BooksKept DEF Live
<1>8. ASSUME NEW batch, batch \subseteq sched \cup retry,
             Promote(batch) \/ PromoteBroken(batch)
      PROVE  MetricsAgree'
  <2>1. \A t \in Task : \/ task'[t] = task[t]
                        \/ t \in batch /\ task'[t] = [task[t] EXCEPT !.status = "QUEUED"]
    BY <1>8 DEF Promote, PromoteBroken
  <2>2. \A t \in Task \cap batch : task[t].status \in Live
    BY <1>8 DEF Places, Live
  <2>3. ASSUME NEW t \in Task
        PROVE  /\ [task[t] EXCEPT !.status = "QUEUED"].status = "QUEUED"
               /\ [task[t] EXCEPT !.status = "QUEUED"].failures = task[t].failures
    BY <1>1 DEF TaskData
  <2>4. \A t \in Task : /\ task'[t].failures = task[t].failures
                        /\ \/ task'[t].status = task[t].status
                           \/ {task[t].status, task'[t].status} \subseteq Live
    BY <2>1, <2>2, <2>3 DEF Live
  <2>5. UNCHANGED metrics
    BY <1>8 DEF Promote, PromoteBroken
  <2>6. QED  BY <2>4, <2>5, BooksKept
<1>9. CASE PromoteScheduled \/ PromoteRetries
  BY <1>8, <1>9 DEF PromoteScheduled, PromoteRetries
<1>10. CASE UNCHANGED <<task, metrics>>
  BY <1>10, BooksKept
<1>11. QED
  BY <1>2, <1>3, <1>4, <1>5, <1>6, <1>7, <1>9, <1>10
  DEF Next, Workers, Services, Time, Renew, PriorityAging, LeaseTick, BecomeDue,
      KeyExpires, vars

(* An empty keyspace has counted nothing.                                  *)
LEMMA MetricsInit == Init => MetricsAgree
<1> SUFFICES ASSUME Init PROVE MetricsAgree
  OBVIOUS
<1>1. \A t \in Task : task[t].status = "NONE" /\ task[t].failures = 0
  BY DEF Init, Blank
<1>2. Submitted = {} /\ Having("COMPLETED") = {} /\ Having("DLQ") = {}
  BY <1>1 DEF Submitted, Having
<1>3. RetryHistory = {}
  BY <1>1, HistoryEntry
<1>4. QED  BY <1>2, <1>3, FS_EmptySet DEF Init, MetricsAgree

(* The counters count what the blobs say: see MetricsAgree.                *)
THEOREM CountersAgree == Spec => []MetricsAgree
<1>1. QueueInv /\ MetricsAgree /\ [Next]_vars => MetricsAgree'
  BY MetricsStep
<1>2. QED  BY <1>1, MetricsInit, QueueInvariant, PTL DEF Spec
=============================================================================

------------------------- MODULE QueueFencedProofs -------------------------
(***************************************************************************)
(* TaskQueue implements FencedTask: every step of the scripts, of the      *)
(* clock and of late reports is a step of FencedTask or a stutter of it.   *)
(***************************************************************************)
EXTENDS TaskQueueProofs

(* The phase of a task by its status.                                      *)
LEMMA PhaseOf ==
  ASSUME NEW t \in Task
  PROVE  /\ task[t].status = "NONE" => Phase(t) = "absent"
         /\ task[t].status = "RUNNING" => Phase(t) = "held"
         /\ task[t].status \in {"COMPLETED", "DLQ"} => Phase(t) = "done"
         /\ task[t].status \in {"PENDING", "QUEUED", "RETRYING"} => Phase(t) = "waiting"
BY DEF Phase

(* The same in the next state.                                             *)
LEMMA PhaseOfNext ==
  ASSUME NEW t \in Task
  PROVE  /\ task'[t].status = "NONE" => Phase(t)' = "absent"
         /\ task'[t].status = "RUNNING" => Phase(t)' = "held"
         /\ task'[t].status \in {"COMPLETED", "DLQ"} => Phase(t)' = "done"
         /\ task'[t].status \in {"PENDING", "QUEUED", "RETRYING"} => Phase(t)' = "waiting"
         /\ task'[t] = task[t] => Phase(t)' = Phase(t)
BY DEF Phase

(* A step that moves one task is a Put of the abstract specification.      *)
LEMMA PutOne ==
  ASSUME TypeOK, NEW t \in Task, NEW p, NEW k,
         \A u \in Task \ {t} : task'[u] = task[u],
         Phase(t)' = p,
         lease' = [lease EXCEPT ![t] = k]
  PROVE  Fenced!Put(t, p, k)
<1>1. \A u \in Task \ {t} : Phase(u)' = Phase(u)
  BY PhaseOfNext
<1>2. [u \in Task |-> Phase(u)]' = [[u \in Task |-> Phase(u)] EXCEPT ![t] = p]
  BY <1>1
<1>3. QED  BY <1>2 DEF Fenced!Put

(* A step that moves no phase, no lease and answers no claim is a stutter. *)
LEMMA PutNone ==
  ASSUME \A t \in Task : Phase(t)' = Phase(t), UNCHANGED <<lease, tickets>>
  PROVE  UNCHANGED Fenced!vars
BY DEF Fenced!vars

(* Only a running task has a lease.                                        *)
LEMMA NoOtherLease ==
  ASSUME QueueInv, NEW t \in Task, task[t].status # "RUNNING"
  PROVE  lease = [lease EXCEPT ![t] = NoLease]
BY DEF QueueInv, TypeOK, LeaseFencing

(* The initial states map to an initial state.                             *)
LEMMA FencedInit == Init => Fenced!Init
<1> SUFFICES ASSUME Init PROVE Fenced!Init  OBVIOUS
<1>1. \A t \in Task : Phase(t) = "absent"
  BY PhaseOf DEF Init, Blank
<1>2. {c.lease : c \in tickets} = {}
  BY DEF Init
<1>3. QED  BY <1>1, <1>2 DEF Init, Fenced!Init

(* Every step maps to a step of FencedTask or to a stutter.                *)
LEMMA FencedStep == QueueInv /\ [Next]_vars => [Fenced!Next]_(Fenced!vars)
<1> SUFFICES ASSUME QueueInv, [Next]_vars
             PROVE  Fenced!Next \/ UNCHANGED Fenced!vars
  OBVIOUS
<1> TypeOK /\ Places  BY DEF QueueInv
<1> USE DEF TypeOK
<1>1. CASE Clients
  <2>1. PICK t \in Task, p \in Priority, m \in RetryLimit, k \in Key \cup {NoKey},
             s \in {"QUEUED", "PENDING"} : Record(t, p, m, k, s)
    BY <1>1 DEF Clients, EnqueueNow, EnqueueLater
  <2>2. /\ task[t].status = "NONE" /\ task'[t].status \in {"QUEUED", "PENDING"}
        /\ \A u \in Task \ {t} : task'[u] = task[u]
        /\ UNCHANGED <<lease, tickets>>
    BY <2>1 DEF Record, Submitted, Blank
  <2>3. Fenced!Put(t, "waiting", NoLease)
    <3>1. Phase(t)' = "waiting"
      BY <2>2, PhaseOfNext
    <3>2. lease' = [lease EXCEPT ![t] = NoLease]
      BY <2>2, NoOtherLease
    <3>3. QED  BY <2>2, <3>1, <3>2, PutOne
  <2>4. Fenced!Accept(t)
    BY <2>2, <2>3, PhaseOf DEF Fenced!Accept
  <2>5. QED  BY <2>4 DEF Fenced!Next
<1>2. ASSUME NEW w \in Worker, NEW l \in Lease, Claim(w, l)
      PROVE  Fenced!Next
  <2>1. PICK t \in Task :
           /\ task[t].status = "QUEUED" /\ task'[t].status = "RUNNING"
           /\ \A u \in Task \ {t} : task'[u] = task[u]
           /\ lease' = [lease EXCEPT ![t] = l]
           /\ tickets' = tickets \cup {[task |-> t, worker |-> w, lease |-> l]}
    BY <1>2, ClaimedStep, AcceptedInv
  <2>2. Fenced!Put(t, "held", l)
    <3>1. Phase(t)' = "held"
      BY <2>1, PhaseOfNext
    <3>2. QED  BY <2>1, <3>1, PutOne
  <2>3. l \notin {c.lease : c \in tickets}
    BY <1>2 DEF Claim
  <2>4. {c.lease : c \in tickets}' = {c.lease : c \in tickets} \cup {l}
    <3> DEFINE d == [task |-> t, worker |-> w, lease |-> l]
    <3>1. tickets' = tickets \cup {d} /\ d.lease = l
      BY <2>1
    <3> HIDE DEF d
    <3>2. QED  BY <3>1, Zenon
  <2>5. Phase(t) = "waiting"
    BY <2>1, PhaseOf
  <2>6. Fenced!Start(t, l)
    BY <2>2, <2>3, <2>4, <2>5 DEF Fenced!Start
  <2>7. QED  BY <2>6 DEF Fenced!Next
<1>3. ASSUME NEW c \in tickets, Complete(c) \/ FailRetry(c) \/ FailDead(c)
      PROVE  Fenced!Next
  <2>1. /\ c.task \in Task /\ c.lease \in Lease
        /\ task[c.task].status = "RUNNING" /\ lease[c.task] = c.lease
        /\ \A u \in Task \ {c.task} : task'[u] = task[u]
        /\ lease' = [lease EXCEPT ![c.task] = NoLease]
        /\ UNCHANGED tickets
    <3>1. /\ Holds(c) /\ Release(c.task, c.worker) /\ UNCHANGED tickets
          /\ \A u \in Task \ {c.task} : task'[u] = task[u]
      BY <1>3, SettledStep
    <3>2. c \in Ticket /\ task[c.task].status = "RUNNING"
      BY <3>1, HolderRuns
    <3>3. QED  BY <3>1, <3>2 DEF Ticket, Holds, Release
  <2>2. task[c.task] \in TaskData
    BY <2>1
  <2>3. task'[c.task].status \in {"COMPLETED", "DLQ", "RETRYING"}
    <3>1. CASE Complete(c)
      BY <2>1, <2>2, <3>1 DEF Complete, TaskData
    <3>2. CASE FailRetry(c)
      BY <2>1, <2>2, <3>2 DEF FailRetry, Failed, TaskData
    <3>3. CASE FailDead(c)
      BY <2>1, <2>2, <3>3 DEF FailDead, Failed, TaskData
    <3>4. QED  BY <1>3, <3>1, <3>2, <3>3
  <2>4. Phase(c.task)' = "done" \/ Phase(c.task)' = "waiting"
    BY <2>1, <2>3, PhaseOfNext
  <2>5. Fenced!Put(c.task, "done", NoLease) \/ Fenced!Put(c.task, "waiting", NoLease)
    BY <2>1, <2>4, PutOne
  <2>6. Phase(c.task) = "held"
    BY <2>1, PhaseOf
  <2>7. Fenced!Settle(c.task, c.lease)
    BY <2>1, <2>5, <2>6 DEF Fenced!Settle
  <2>8. QED  BY <2>1, <2>7 DEF Fenced!Next
<1>4. ASSUME NEW t \in Task, Recover(t)
      PROVE  Fenced!Next
  <2>1. /\ task[t].status = "RUNNING" /\ task'[t].status = "QUEUED"
        /\ \A u \in Task \ {t} : task'[u] = task[u]
        /\ lease' = [lease EXCEPT ![t] = NoLease]
        /\ UNCHANGED tickets
    BY <1>4 DEF Recover, Recoverable, Release
  <2>2. Phase(t) = "held" /\ Phase(t)' = "waiting"
    BY <2>1, PhaseOf, PhaseOfNext
  <2>3. Fenced!Put(t, "waiting", NoLease)
    BY <2>1, <2>2, PutOne
  <2>4. Fenced!Reclaim(t)
    BY <2>1, <2>2, <2>3 DEF Fenced!Reclaim
  <2>5. QED  BY <2>4 DEF Fenced!Next
<1>5. ASSUME NEW batch, batch \subseteq sched \cup retry,
             Promote(batch) \/ PromoteBroken(batch)
      PROVE  UNCHANGED Fenced!vars
  <2>1. ASSUME NEW t \in Task
        PROVE  Phase(t)' = Phase(t)
    <3>1. \/ task'[t] = task[t]
          \/ t \in batch /\ task'[t] = [task[t] EXCEPT !.status = "QUEUED"]
      BY <1>5 DEF Promote, PromoteBroken
    <3>2. task[t] \in TaskData
      OBVIOUS
    <3>3. task'[t] = task[t] \/ (t \in batch /\ task'[t].status = "QUEUED")
      BY <3>1, <3>2 DEF TaskData
    <3>4. t \in batch => task[t].status \in {"PENDING", "QUEUED", "RETRYING"}
      BY <1>5 DEF Places
    <3>5. QED  BY <3>3, <3>4, PhaseOf, PhaseOfNext
  <2>2. UNCHANGED <<lease, tickets>>
    BY <1>5 DEF Promote, PromoteBroken
  <2>3. QED  BY <2>1, <2>2, PutNone
<1>6. CASE PromoteScheduled \/ PromoteRetries
  BY <1>5, <1>6 DEF PromoteScheduled, PromoteRetries
<1>7. ASSUME NEW t \in Task, LeaseTick(t)
      PROVE  Fenced!Next \/ UNCHANGED Fenced!vars
  <2>1. UNCHANGED <<task, tickets>> /\ \A u \in Task : Phase(u)' = Phase(u)
    BY <1>7, PhaseOfNext DEF LeaseTick
  <2>2. CASE UNCHANGED lease
    BY <2>1, <2>2, PutNone
  <2>3. CASE lease[t] # NoLease /\ lease' = [lease EXCEPT ![t] = NoLease]
    <3>1. task[t].status = "RUNNING"
      BY <2>3 DEF QueueInv, LeaseFencing
    <3>2. Phase(t) = "held" /\ Phase(t)' = "held"
      BY <2>1, <3>1, PhaseOf
    <3>3. Fenced!Put(t, "held", NoLease)
      BY <2>1, <2>3, <3>2, PutOne
    <3>4. Fenced!Lapse(t)
      BY <2>1, <3>2, <3>3 DEF Fenced!Lapse
    <3>5. QED  BY <3>4 DEF Fenced!Next
  <2>4. QED  BY <1>7, <2>2, <2>3 DEF LeaseTick
<1>8. CASE UNCHANGED <<task, lease, tickets>>
  BY <1>8, PhaseOfNext, PutNone
<1>9. QED
  BY <1>1, <1>2, <1>3, <1>4, <1>6, <1>7, <1>8
  DEF Next, Workers, Services, Time, Renew, PriorityAging, BecomeDue, KeyExpires,
      vars

(* The queue keeps the promise of FencedTask: see ImplementsFencedTask.    *)
THEOREM QueueIsFenced == Spec => ImplementsFencedTask
<1>1. Init => Fenced!Init
  BY FencedInit
<1>2. QueueInv /\ [Next]_vars => [Fenced!Next]_(Fenced!vars)
  BY FencedStep
<1>3. QED
  BY <1>1, <1>2, QueueInvariant, PTL DEF Spec, ImplementsFencedTask, Fenced!Spec

-----------------------------------------------------------------------------
(* What every implementation of FencedTask may rely on.                    *)

(* A Put of one token that is on no other record, and was handed out.      *)
LEMMA PutKeepsOneTask ==
  ASSUME Fenced!OneTask, NEW t \in Task, NEW p, NEW k, Fenced!Put(t, p, k),
         NEW s \in SUBSET Lease, {c.lease : c \in tickets} \subseteq s,
         {c.lease : c \in tickets}' = s,
         k = NoLease \/ (k \in s /\ \A u \in Task \ {t} : lease[u] # k)
  PROVE  Fenced!OneTask'
<1>1. lease' = [lease EXCEPT ![t] = k]
  BY DEF Fenced!Put
<1>2. lease' \in [Task -> s \cup {NoLease}]
  BY <1>1 DEF Fenced!OneTask
<1>3. ASSUME NEW u \in Task, NEW v \in Task, lease'[u] = lease'[v], lease'[u] # NoLease
      PROVE  u = v
  BY <1>1, <1>3 DEF Fenced!OneTask
<1>4. QED  BY <1>2, <1>3 DEF Fenced!OneTask

(* A step of FencedTask keeps its tokens apart and brings none back.       *)
LEMMA FencedTokens ==
  ASSUME Fenced!OneTask, [Fenced!Next]_(Fenced!vars)
  PROVE  /\ Fenced!OneTask'
         /\ \A t \in Task, k \in {c.lease : c \in tickets} :
              lease[t] # k => lease'[t] # k
<1> DEFINE spent == {c.lease : c \in tickets}
<1>1. spent \subseteq Lease /\ lease \in [Task -> spent \cup {NoLease}] /\ NoLease \notin Lease
  BY QueueAssumption DEF Fenced!OneTask
<1>2. CASE UNCHANGED Fenced!vars
  BY <1>2 DEF Fenced!vars, Fenced!OneTask
<1>3. ASSUME NEW t \in Task, NEW p, Fenced!Put(t, p, NoLease), spent' = spent
      PROVE  /\ Fenced!OneTask'
             /\ \A u \in Task, k \in spent : lease[u] # k => lease'[u] # k
  <2>1. Fenced!OneTask'
    BY <1>1, <1>3, PutKeepsOneTask
  <2>2. lease' = [lease EXCEPT ![t] = NoLease]
    BY <1>3 DEF Fenced!Put
  <2>3. QED  BY <1>1, <2>1, <2>2
<1>4. ASSUME NEW t \in Task, NEW k \in Lease, Fenced!Start(t, k)
      PROVE  /\ Fenced!OneTask'
             /\ \A u \in Task, l \in spent : lease[u] # l => lease'[u] # l
  <2>1. k \notin spent /\ Fenced!Put(t, "held", k) /\ spent' = spent \cup {k}
    BY <1>4 DEF Fenced!Start
  <2>2. \A u \in Task : lease[u] # k
    BY <1>1, <2>1
  <2>3. Fenced!OneTask'
    <3>1. PICK s \in SUBSET Lease : s = spent \cup {k}
      BY <1>1
    <3>2. spent \subseteq s /\ k \in s /\ spent' = s
      BY <2>1, <3>1
    <3>3. QED  BY <2>1, <2>2, <3>2, PutKeepsOneTask
  <2>4. lease' = [lease EXCEPT ![t] = k]
    BY <2>1 DEF Fenced!Put
  <2>5. QED  BY <1>1, <2>1, <2>3, <2>4
<1>5. ASSUME NEW t \in Task,
             \/ Fenced!Accept(t) \/ Fenced!Lapse(t) \/ Fenced!Reclaim(t)
             \/ \E k \in Lease : Fenced!Settle(t, k)
      PROVE  \E p : Fenced!Put(t, p, NoLease) /\ spent' = spent
  BY <1>5 DEF Fenced!Accept, Fenced!Lapse, Fenced!Reclaim, Fenced!Settle
<1>6. QED  BY <1>2, <1>3, <1>4, <1>5 DEF Fenced!Next

(* FencedTask keeps what it promises about tokens, and so does whatever    *)
(* implements it.                                                          *)
LEMMA FencedPromises == ImplementsFencedTask => []Fenced!OneTask /\ Fenced!NeverAgain
<1>1. Fenced!Init => Fenced!OneTask
  BY DEF Fenced!Init, Fenced!OneTask
<1>2. Fenced!OneTask /\ [Fenced!Next]_(Fenced!vars) =>
        /\ Fenced!OneTask'
        /\ [\A t \in Task, k \in {c.lease : c \in tickets} :
              lease[t] # k => lease'[t] # k]_(Fenced!vars)
  BY FencedTokens
<1>3. QED
  BY <1>1, <1>2, PTL DEF ImplementsFencedTask, Fenced!Spec, Fenced!NeverAgain

(* A lease was the answer to a claim, and names one task; and once it has  *)
(* ended an execution, lapsed or been revoked, no script writes it back,   *)
(* so a report that comes late is refused for good.  See FencedTask.       *)
THEOREM LateReportsRefused == Spec => []Fenced!OneTask /\ Fenced!NeverAgain
<1>1. QED  BY FencedPromises, QueueIsFenced, PTL
=============================================================================

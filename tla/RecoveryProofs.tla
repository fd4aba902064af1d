--------------------------- MODULE RecoveryProofs ---------------------------
(***************************************************************************)
(* The heartbeats, the detector and the recovery loops keep what the queue *)
(* promises, for any number of API processes and workers, and however      *)
(* their commands interleave and fail.                                     *)
(*                                                                         *)
(* Every step of Recovery is a step of TaskQueue, leaves the keyspace of   *)
(* TaskQueue alone, or deletes a lease key.  The last is new: the loop     *)
(* deletes whatever lease is there by then.                                *)
(***************************************************************************)
EXTENDS Recovery, QueueFencedProofs, QueueStepProofs

(* What DelLease does to the queue.                                        *)
Revoke(t) ==
  /\ lease' = [lease EXCEPT ![t] = NoLease]
  /\ ttl' = [ttl EXCEPT ![t] = 0]
  /\ UNCHANGED <<task, prio, sched, retry, due, active, owned, dlq, seq, idem,
                 metrics, tickets>>

(* A loop in the middle of a worker has a worker in hand, and one in the   *)
(* middle of a task has a task.                                            *)
HasHand(r) ==
  /\ r.pc \in {"late", "mark", "srem"} => r.worker \in Worker
  /\ r.pc \in {"owner", "del", "script"} => r.task \in Task

InHand == \A s \in Service : HasHand(svc[s])

RecInv == QueueInv /\ RecTypeOK /\ InHand

(* Where a loop may go.                                                    *)
Sound(r) == r \in LoopData /\ HasHand(r)

(* A loop that moves somewhere sound keeps the bookkeeping of all.         *)
LEMMA LoopMoves ==
  ASSUME RecInv, NEW s \in Service, NEW r, Sound(r), svc' = [svc EXCEPT ![s] = r]
  PROVE  svc' \in [Service -> LoopData] /\ InHand'
BY DEF RecInv, RecTypeOK, InHand, HasHand, Sound

(* Between two rounds a loop holds nothing.                                *)
LEMMA RestingSound == Sound(Resting)
BY DEF Sound, HasHand, LoopData, Resting

(* Going on to the next task is sound.                                     *)
LEMMA NextSound ==
  ASSUME RecInv, NEW s \in Service, svc' = NextTask(s)
  PROVE  svc' \in [Service -> LoopData] /\ InHand'
<1> DEFINE r == [svc[s] EXCEPT !.pc = "visit", !.task = NoTask,
                               !.tasks = @ \ {svc[s].task}]
<1>1. svc[s] \in LoopData
  BY DEF RecInv, RecTypeOK
<1>2. Sound(r)
  BY <1>1 DEF Sound, HasHand, LoopData
<1>3. svc' = [svc EXCEPT ![s] = r]
  BY DEF NextTask, RecInv, RecTypeOK
<1>4. QED  BY <1>2, <1>3, LoopMoves

(* The steps of a recovery round keep the bookkeeping well typed.          *)
LEMMA LoopStep ==
  ASSUME RecInv, NEW s \in Service, Round(s) \/ RoundFails(s)
  PROVE  svc' \in [Service -> LoopData] /\ InHand'
<1> DEFINE here == svc[s]
<1>1. /\ here \in LoopData
      /\ svc \in [Service -> LoopData]
      /\ known \in SUBSET Worker /\ active \in SUBSET Task
      /\ HasHand(here)
  BY DEF RecInv, RecTypeOK, QueueInv, TypeOK, InHand
<1>2. CASE ScanStart(s)
  <2>1. Sound([Resting EXCEPT !.pc = "scan", !.todo = known])
    BY <1>1 DEF Sound, HasHand, LoopData, Resting
  <2>2. QED  BY <1>2, <2>1, LoopMoves DEF ScanStart
<1>3. CASE ScanGet(s)
  <2>1. PICK w \in here.todo :
          svc' = IF info[w].there /\ info[w].age = 0
                 THEN [svc EXCEPT ![s].todo = @ \ {w}]
                 ELSE [svc EXCEPT ![s].worker = w,
                                  ![s].pc = CASE ~info[w].there -> "srem"
                                              [] info[w].age = 1 -> "late"
                                              [] OTHER -> "mark",
                                  ![s].offline = IF info[w].there THEN @ ELSE @ \cup {w}]
    BY <1>3 DEF ScanGet
  <2>2. w \in Worker
    BY <1>1 DEF LoopData
  <2>3. CASE info[w].there /\ info[w].age = 0
    <3>1. Sound([here EXCEPT !.todo = @ \ {w}])
      BY <1>1 DEF Sound, HasHand, LoopData
    <3>2. svc' = [svc EXCEPT ![s] = [here EXCEPT !.todo = @ \ {w}]]
      BY <1>1, <2>1, <2>3
    <3>3. QED  BY <3>1, <3>2, LoopMoves
  <2>4. CASE ~(info[w].there /\ info[w].age = 0)
    <3> DEFINE pc == CASE ~info[w].there -> "srem"
                       [] info[w].age = 1 -> "late"
                       [] OTHER -> "mark"
               o == IF info[w].there THEN here.offline ELSE here.offline \cup {w}
               r == [here EXCEPT !.worker = w, !.pc = pc, !.offline = o]
    <3>1. pc \in {"srem", "late", "mark"}
      OBVIOUS
    <3>2. o \in SUBSET Worker
      BY <1>1, <2>2 DEF LoopData
    <3>3. svc' = [svc EXCEPT ![s].worker = w, ![s].pc = pc, ![s].offline = o]
      BY <2>1, <2>4
    <3> HIDE DEF pc, o
    <3>4. svc' = [svc EXCEPT ![s] = r]
      BY <1>1, <3>3
    <3>5. Sound(r)
      BY <1>1, <2>2, <3>1, <3>2 DEF Sound, HasHand, LoopData
    <3>6. QED  BY <3>4, <3>5, LoopMoves
  <2>5. QED  BY <2>3, <2>4
<1>4. CASE ScanLate(s) \/ ScanSrem(s)
  <2> DEFINE r == [here EXCEPT !.pc = "scan", !.todo = @ \ {here.worker}]
  <2>1. Sound(r)
    BY <1>1 DEF Sound, HasHand, LoopData
  <2>2. svc' = [svc EXCEPT ![s] = r]
    BY <1>1, <1>4 DEF ScanLate, ScanSrem
  <2>3. QED  BY <2>1, <2>2, LoopMoves
<1>5. CASE ScanMark(s)
  <2> DEFINE r == [here EXCEPT !.pc = "srem", !.offline = @ \cup {here.worker}]
  <2>1. here.worker \in Worker
    BY <1>1, <1>5 DEF ScanMark, HasHand
  <2>2. Sound(r)
    BY <1>1, <2>1 DEF Sound, HasHand, LoopData
  <2>3. svc' = [svc EXCEPT ![s] = r]
    BY <1>1, <1>5 DEF ScanMark
  <2>4. QED  BY <2>2, <2>3, LoopMoves
<1>6. CASE ScanEnd(s)
  <2> DEFINE r == [here EXCEPT !.pc = "visit", !.worker = NoWorker, !.tasks = active]
  <2>1. Sound(r)
    BY <1>1 DEF Sound, HasHand, LoopData
  <2>2. svc' = [svc EXCEPT ![s] = Resting] \/ svc' = [svc EXCEPT ![s] = r]
    BY <1>1, <1>6 DEF ScanEnd
  <2>3. QED  BY <2>1, <2>2, RestingSound, LoopMoves
<1>7. CASE Visit(s)
  <2>1. PICK t \in here.tasks, pc \in {"script", "owner"} :
          svc' = [svc EXCEPT ![s].pc = pc, ![s].task = t]
    BY <1>7 DEF Visit
  <2> DEFINE r == [here EXCEPT !.pc = pc, !.task = t]
  <2>2. t \in Task
    BY <1>1 DEF LoopData
  <2>3. Sound(r)
    BY <1>1, <2>2 DEF Sound, HasHand, LoopData
  <2>4. svc' = [svc EXCEPT ![s] = r]
    BY <1>1, <2>1
  <2>5. QED  BY <2>3, <2>4, LoopMoves
<1>8. CASE ReadOwner(s) \/ DelLease(s)
  <2>1. PICK pc \in {"del", "script"} :
          here.pc \in {"owner", "del"} /\ svc' \in {[svc EXCEPT ![s].pc = pc], NextTask(s)}
    BY <1>8 DEF ReadOwner, DelLease
  <2> DEFINE r == [here EXCEPT !.pc = pc]
  <2>2. Sound(r)
    BY <1>1, <2>1 DEF Sound, HasHand, LoopData
  <2>3. [svc EXCEPT ![s].pc = pc] = [svc EXCEPT ![s] = r]
    BY <1>1
  <2>4. QED  BY <2>1, <2>2, <2>3, NextSound, LoopMoves
<1>9. CASE CallScript(s) \/ VisitEnd(s) \/ RoundFails(s)
  <2>1. svc' = NextTask(s) \/ svc' = [svc EXCEPT ![s] = Resting]
    BY <1>9 DEF CallScript, VisitEnd, RoundFails
  <2>2. QED  BY <2>1, RestingSound, NextSound, LoopMoves
<1>10. QED  BY <1>2, <1>3, <1>4, <1>5, <1>6, <1>7, <1>8, <1>9 DEF Round

(* What a step of Recovery is to the queue.                                *)
LEMMA StepOfRecovery ==
  ASSUME RecInv, [RecNext]_recVars
  PROVE  [Next]_vars \/ \E s \in Service : Revoke(svc[s].task)
<1>1. CASE Processes
  BY <1>1 DEF Processes, Start, Beats, BeatSet, BeatAdd, BeatAgain, BeatFails, Die,
              LastClaim, GrowOld, Expire, Next, Workers
<1>2. CASE Loops
  <2>1. PICK s \in Service : Round(s) \/ RoundFails(s)
    BY <1>2 DEF Loops
  <2>2. CASE DelLease(s)
    BY <2>2 DEF DelLease, Revoke
  <2>3. CASE CallScript(s)
    <3>1. CASE UNCHANGED vars
      BY <3>1
    <3>2. CASE Recover(svc[s].task)
      <4>1. svc[s].task \in Task
        BY <2>3 DEF RecInv, InHand, HasHand, CallScript
      <4>2. QED  BY <3>2, <4>1 DEF Next, Services
    <3>3. QED  BY <2>3, <3>1, <3>2 DEF CallScript
  <2>4. CASE ScanStart(s) \/ ScanGet(s) \/ ScanLate(s) \/ ScanMark(s) \/ ScanSrem(s)
    BY <2>4 DEF ScanStart, ScanGet, ScanLate, ScanMark, ScanSrem
  <2>5. CASE ScanEnd(s) \/ Visit(s) \/ ReadOwner(s) \/ VisitEnd(s) \/ RoundFails(s)
    BY <2>5 DEF ScanEnd, Visit, ReadOwner, VisitEnd, RoundFails
  <2>6. QED  BY <2>1, <2>2, <2>3, <2>4, <2>5 DEF Round
<1>3. CASE Keyspace
  BY <1>3 DEF Keyspace, AliveWorkers, Next, Workers, Services
<1>4. CASE UNCHANGED recVars
  BY <1>4 DEF recVars, vars
<1>5. QED  BY <1>1, <1>2, <1>3, <1>4 DEF RecNext

(* Deleting a lease keeps the invariant of the queue.                      *)
LEMMA RevokeStep ==
  ASSUME QueueInv, NEW t, Revoke(t)
  PROVE  QueueInv' /\ [Fenced!Next]_(Fenced!vars)
<1> TypeOK /\ LeaseFencing  BY DEF QueueInv
<1>1. \A u \in Task : \/ lease'[u] = lease[u] /\ ttl'[u] = ttl[u]
                      \/ lease'[u] = NoLease /\ ttl'[u] = 0
  BY DEF Revoke, TypeOK
<1>2. TypeOK'
  <2>1. lease' \in [Task -> Lease \cup {NoLease}]
    BY DEF Revoke, TypeOK
  <2>2. 0 \in 0..LeaseTicks
    BY QueueAssumption
  <2>3. ttl' \in [Task -> 0..LeaseTicks]
    BY <2>2 DEF Revoke, TypeOK
  <2>4. QED  BY <2>1, <2>3 DEF Revoke, TypeOK
<1>3. LeaseFencing'
  BY <1>1 DEF Revoke, LeaseFencing
<1>4. /\ Places' /\ OwnershipIndex' /\ TicketsDiffer' /\ ScoresDrawn' /\ NoHashYet'
      /\ KeysName'
  BY DEF QueueInv, Revoke, Places, Queued, OwnershipIndex, TicketsDiffer, ScoresDrawn,
     NoHashYet, KeysName, Submitted
<1>5. QueueInv'
  BY <1>2, <1>3, <1>4 DEF QueueInv
<1>6. CASE lease' = lease
  <2>1. \A u \in Task : Phase(u)' = Phase(u)
    BY PhaseOfNext DEF Revoke
  <2>2. UNCHANGED Fenced!vars
    BY <1>6, <2>1, PutNone DEF Revoke
  <2>3. QED  BY <1>5, <2>2
<1>7. CASE lease' # lease
  <2>1. t \in Task /\ lease[t] # NoLease
    BY <1>7 DEF Revoke, TypeOK
  <2>2. Phase(t) = "held" /\ Phase(t)' = "held"
    BY <2>1, PhaseOf, PhaseOfNext DEF LeaseFencing, Revoke
  <2>3. Fenced!Put(t, "held", NoLease)
    BY <2>1, <2>2, PutOne DEF Revoke
  <2>4. Fenced!Lapse(t)
    BY <2>1, <2>2, <2>3 DEF Fenced!Lapse, Revoke
  <2>5. QED  BY <1>5, <2>1, <2>4 DEF Fenced!Next
<1>8. QED  BY <1>6, <1>7

(* The bookkeeping about workers stays well typed.                         *)
LEMMA WatchStep ==
  ASSUME RecInv, [RecNext]_recVars
  PROVE  /\ known' \in SUBSET Worker
         /\ info' \in [Worker -> InfoData]
         /\ beat' \in [Worker -> {"off", "set", "sadd", "sleep", "mute", "gone", "ghost"}]
         /\ faults' \in 0..MaxFaults
         /\ svc' \in [Service -> LoopData] /\ InHand'
<1>1. /\ known \in SUBSET Worker
      /\ info \in [Worker -> InfoData]
      /\ beat \in [Worker -> {"off", "set", "sadd", "sleep", "mute", "gone", "ghost"}]
      /\ faults \in 0..MaxFaults
      /\ svc \in [Service -> LoopData]
      /\ InHand
  BY DEF RecInv, RecTypeOK
<1>2. CASE UNCHANGED watch \/ UNCHANGED recVars
  BY <1>1, <1>2 DEF watch, recVars, InHand, HasHand
<1>3. ASSUME NEW w \in Worker,
             \/ Start(w) \/ BeatAgain(w) \/ BeatFails(w) \/ Die(w)
             \/ \E l \in Lease : LastClaim(w, l)
      PROVE  /\ beat' \in [Worker -> {"off", "set", "sadd", "sleep", "mute", "gone", "ghost"}]
             /\ faults' \in 0..MaxFaults
             /\ UNCHANGED <<known, info, svc>>
  BY <1>1, <1>3, RecoveryAssumption
     DEF Start, Beats, BeatAgain, BeatFails, Fault, Die, LastClaim
<1>4. ASSUME NEW w \in Worker, BeatSet(w) \/ GrowOld(w) \/ Expire(w)
      PROVE  /\ info' \in [Worker -> InfoData]
             /\ beat' \in [Worker -> {"off", "set", "sadd", "sleep", "mute", "gone", "ghost"}]
             /\ UNCHANGED <<known, svc, faults>>
  <2>1. CASE BeatSet(w)
    BY <1>1, <2>1 DEF BeatSet, Beats, InfoData, Age
  <2>2. CASE GrowOld(w)
    <3>1. info[w].age + 1 \in Age
      BY <1>1, <2>2 DEF GrowOld, InfoData, Age
    <3>2. [info[w] EXCEPT !.age = @ + 1] \in InfoData
      BY <1>1, <3>1 DEF InfoData
    <3>3. info' = [info EXCEPT ![w] = [info[w] EXCEPT !.age = @ + 1]]
      BY <1>1, <2>2 DEF GrowOld
    <3>4. QED  BY <1>1, <2>2, <3>2, <3>3 DEF GrowOld
  <2>3. CASE Expire(w)
    <3>1. [info[w] EXCEPT !.there = FALSE, !.mortal = FALSE] \in InfoData
      BY <1>1 DEF InfoData
    <3>2. info' = [info EXCEPT ![w] = [info[w] EXCEPT !.there = FALSE, !.mortal = FALSE]]
      BY <1>1, <2>3 DEF Expire
    <3>3. QED  BY <1>1, <2>3, <3>1, <3>2 DEF Expire
  <2>4. QED  BY <1>4, <2>1, <2>2, <2>3
<1>5. ASSUME NEW w \in Worker, BeatAdd(w)
      PROVE  /\ known' \in SUBSET Worker
             /\ beat' \in [Worker -> {"off", "set", "sadd", "sleep", "mute", "gone", "ghost"}]
             /\ UNCHANGED <<info, svc, faults>>
  BY <1>1, <1>5 DEF BeatAdd, Beats, Listed
<1>6. ASSUME NEW s \in Service, Round(s) \/ RoundFails(s)
      PROVE  /\ known' \in SUBSET Worker
             /\ info' \in [Worker -> InfoData]
             /\ UNCHANGED beat
             /\ faults' \in 0..MaxFaults
  <2>1. CASE ScanLate(s) \/ ScanMark(s)
    <3>1. svc[s].worker \in Worker
      BY <1>1, <2>1 DEF ScanLate, ScanMark, InHand, HasHand
    <3>2. \A a \in Age : Copied(svc[s].worker, a) \in InfoData
      BY <1>1, <3>1 DEF Copied, InfoData, Age
    <3>3. QED  BY <1>1, <2>1, <3>1, <3>2 DEF ScanLate, ScanMark, Age
  <2>2. CASE ScanSrem(s)
    BY <1>1, <2>2 DEF ScanSrem
  <2>3. CASE RoundFails(s)
    BY <1>1, <2>3, RecoveryAssumption DEF RoundFails, Fault
  <2>4. CASE ScanStart(s) \/ ScanGet(s) \/ ScanEnd(s) \/ Visit(s) \/ ReadOwner(s)
    BY <1>1, <2>4 DEF ScanStart, ScanGet, ScanEnd, Visit, ReadOwner
  <2>5. CASE DelLease(s) \/ CallScript(s) \/ VisitEnd(s)
    BY <1>1, <2>5 DEF DelLease, CallScript, VisitEnd
  <2>6. QED  BY <1>6, <2>1, <2>2, <2>3, <2>4, <2>5 DEF Round
<1>7. CASE Processes
  <2>1. InHand' \/ svc' # svc
    BY <1>1 DEF InHand
  <2>2. QED  BY <1>1, <1>3, <1>4, <1>5, <1>7, <2>1 DEF Processes
<1>8. CASE Loops
  <2>1. PICK s \in Service : Round(s) \/ RoundFails(s)
    BY <1>8 DEF Loops
  <2>2. QED  BY <1>1, <1>6, <2>1, LoopStep
<1>9. CASE Keyspace
  BY <1>2, <1>9 DEF Keyspace
<1>10. QED  BY <1>2, <1>7, <1>8, <1>9 DEF RecNext

(* The services start with nothing in hand.                                *)
LEMMA RecInvInit == RecInit => RecInv
<1> SUFFICES ASSUME RecInit PROVE RecInv  OBVIOUS
<1>1. QueueInv
  BY InitInv DEF RecInit
<1>2. RecTypeOK
  BY <1>1, RestingSound
     DEF RecInit, RecTypeOK, QueueInv, InfoData, Missing, Age, Sound
<1>3. InHand
  BY DEF RecInit, InHand, HasHand, Resting
<1>4. QED  BY <1>1, <1>2, <1>3 DEF RecInv

(* Every step keeps the invariant.                                         *)
LEMMA RecInvStep ==
  RecInv /\ [RecNext]_recVars => RecInv' /\ [Fenced!Next]_(Fenced!vars)
<1> SUFFICES ASSUME RecInv, [RecNext]_recVars
             PROVE  RecInv' /\ [Fenced!Next]_(Fenced!vars)
  OBVIOUS
<1>1. QueueInv
  BY DEF RecInv
<1>2. QueueInv' /\ [Fenced!Next]_(Fenced!vars)
  BY <1>1, StepOfRecovery, InvStep, FencedStep, RevokeStep
<1>3. RecInv'
  BY <1>2, WatchStep DEF RecInv, RecTypeOK, QueueInv
<1>4. QED  BY <1>2, <1>3

(* The queue invariant survives heartbeats, detection and recovery, with   *)
(* any number of loops and failures.                                       *)
THEOREM RecoveryKeepsQueue == RecSpec => []QueueInv
<1>1. RecInv => QueueInv
  BY DEF RecInv
<1>2. QED  BY <1>1, RecInvInit, RecInvStep, PTL DEF RecSpec

(* Types: see RecTypeOK.                                                   *)
THEOREM RecoveryTypes == RecSpec => []RecTypeOK
<1>1. RecInv => RecTypeOK
  BY DEF RecInv
<1>2. QED  BY <1>1, RecInvInit, RecInvStep, PTL DEF RecSpec

(* A live lease proves ownership although the loops delete leases they     *)
(* have not looked at: see LeaseFencing.                                   *)
THEOREM RecoveryFences == RecSpec => []LeaseFencing
<1>1. QueueInv => LeaseFencing
  BY DEF QueueInv
<1>2. QED  BY <1>1, RecoveryKeepsQueue, PTL

(* To the holder of a lease, recovery is a lapse or a reclaim: the whole   *)
(* implements FencedTask.                                                  *)
THEOREM RecoveryIsFenced == RecSpec => ImplementsFencedTask
<1>1. RecInit => Fenced!Init
  BY FencedInit DEF RecInit
<1>2. QED
  BY <1>1, RecInvInit, RecInvStep, PTL DEF RecSpec, ImplementsFencedTask, Fenced!Spec

(* A worker whose lease a loop deleted never ends the task after all, even *)
(* if it was judged offline by mistake and reports: see FencedTask.        *)
THEOREM RevokedReportsRefused == RecSpec => []Fenced!OneTask /\ Fenced!NeverAgain
<1>1. QED  BY FencedPromises, RecoveryIsFenced, PTL

(* Nor does the deletion of a lease move a task: see SinglePlace.          *)
THEOREM RecoveryOnePlace == RecSpec => []SinglePlace
<1>1. QED  BY InOnePlace, RecoveryKeepsQueue, PTL

-----------------------------------------------------------------------------
(* The queue of a recovery step: either a script ran, or the tasks, their  *)
(* places, the counters and the tickets are as before.                     *)
LEMMA RecoveryTouches ==
  ASSUME RecInv, [RecNext]_recVars
  PROVE  [Next]_vars \/ UNCHANGED <<task, prio, sched, retry, active, dlq, metrics>>
BY StepOfRecovery DEF Revoke

(* What recovery requeues is tried no more often than max_retries allows,  *)
(* and the counters still agree with the blobs: a requeue is neither a     *)
(* failure nor a retry, although it takes an attempt.                      *)
RecoveryBooks == BudgetInv /\ MetricsAgree

THEOREM RecoveryKeepsBooks == RecSpec => [](RetryBudget /\ MetricsAgree)
<1>1. RecInit => RecoveryBooks
  BY BudgetInit, MetricsInit DEF RecInit, RecoveryBooks
<1>2. RecInv /\ RecoveryBooks /\ [RecNext]_recVars => RecoveryBooks'
  <2> SUFFICES ASSUME RecInv, RecoveryBooks, [RecNext]_recVars
               PROVE  RecoveryBooks'
    OBVIOUS
  <2>1. CASE [Next]_vars
    BY <2>1, BudgetStep, MetricsStep DEF RecInv, RecoveryBooks
  <2>2. CASE UNCHANGED <<task, metrics>>
    BY <2>2 DEF RecoveryBooks, BudgetInv, MetricsAgree, Submitted, Having, RetryHistory
  <2>3. QED  BY <2>1, <2>2, RecoveryTouches
<1>3. RecInv /\ RecoveryBooks => RetryBudget /\ MetricsAgree
  BY WithinLimits DEF RecInv, RecoveryBooks
<1>4. QED  BY <1>1, <1>2, <1>3, RecInvInit, RecInvStep, PTL DEF RecSpec

(* A round works on tasks it listed a while ago, and on owners it judged   *)
(* offline before that: it brings back none that has ended meanwhile (see  *)
(* TerminalFinal), moves the status of the others as Lifecycle has it (see *)
(* AlongScriptMoves), and loses none but by its own script (see            *)
(* OnlyRecoveryLoses).                                                     *)
THEOREM RecoverySteps ==
  RecSpec => TerminalFinal /\ AlongScriptMoves /\ OnlyRecoveryLoses
<1> DEFINE Ends == \A t \in Task : task[t].status \in {"COMPLETED", "DLQ"} =>
             task'[t] = task[t] /\ ~(t \in active' \/ prio'[t] # 0)
           Follows == \A t \in Task : task'[t].status # task[t].status =>
             \E m \in ScriptMoves : m[1] = task[t].status /\ m[2] = task'[t].status
           Loses == \A t \in Task : Lost(t)' /\ ~Lost(t) => ~SeqKey /\ Recover(t)
<1>1. RecInv /\ RecInv' /\ [RecNext]_recVars =>
        [Ends]_vars /\ [Follows]_vars /\ [Loses]_vars
  <2> SUFFICES ASSUME RecInv, RecInv', [RecNext]_recVars
               PROVE  Ends /\ Follows /\ Loses
    OBVIOUS
  <2>1. QueueInv /\ QueueInv'
    BY DEF RecInv
  <2>2. CASE [Next]_vars
    BY <2>1, <2>2, EndedStep, StatusStep, LossStep
  <2>3. CASE UNCHANGED <<task, prio, sched, retry, active>>
    <3>1. ASSUME NEW t \in Task, task[t].status \in {"COMPLETED", "DLQ"}
          PROVE  ~(t \in active \/ prio[t] # 0)
      BY <2>1, <3>1 DEF QueueInv, OwnershipIndex, Places, Queued
    <3>2. \A t \in Task : Lost(t)' <=> Lost(t)
      BY <2>3 DEF Lost, Queued
    <3>3. QED  BY <2>3, <3>1, <3>2
  <2>4. QED  BY <2>2, <2>3, RecoveryTouches
<1>2. QED
  BY <1>1, RecInvInit, RecInvStep, PTL
  DEF RecSpec, TerminalFinal, AlongScriptMoves, OnlyRecoveryLoses

(* What gets lost is marked QUEUED; every other task is where its status   *)
(* says: see OthersFound.                                                  *)
THEOREM RecoveryLosesQueuedOnly == RecSpec => []OthersFound
<1>1. RecInit => OthersFound
  BY DEF RecInit, Init, OthersFound, Blank
<1>2. RecInv /\ RecInv' /\ OthersFound /\ [RecNext]_recVars => OthersFound'
  <2> SUFFICES ASSUME RecInv, RecInv', OthersFound, [RecNext]_recVars
               PROVE  OthersFound'
    OBVIOUS
  <2>1. CASE [Next]_vars
    BY <2>1, OthersFoundStep DEF RecInv
  <2>2. CASE UNCHANGED <<task, sched, retry, active, dlq>>
    BY <2>2 DEF OthersFound
  <2>3. QED  BY <2>1, <2>2, RecoveryTouches
<1>3. QED  BY <1>1, <1>2, RecInvInit, RecInvStep, PTL DEF RecSpec
=============================================================================

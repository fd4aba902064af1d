------------------------------ MODULE Recovery ------------------------------
(***************************************************************************)
(* Who notices that a worker is gone, and what happens to its tasks: the   *)
(* heartbeat of each worker (backend/app/workers/heartbeat.py), the stale- *)
(* worker detector and the recovery loop (backend/app/recovery), over the  *)
(* keyspace and the scripts of TaskQueue.                                  *)
(*                                                                         *)
(* Each API process runs one recovery loop.  A loop awaits Redis between   *)
(* any two commands, so every command is a step of its own; in between,    *)
(* workers beat, claim, report and die, leases expire, and the scheduler   *)
(* runs.                                                                   *)
(***************************************************************************)
EXTENDS TaskQueue

CONSTANTS
  Service,   \* the API processes, one recovery loop in each
  MaxFaults  \* bound: commands of a loop or of a heartbeat that raise

(* The loops call recover_task.lua with six keys, and the scheduler the    *)
(* promotions with two.                                                    *)
ASSUME RecoveryAssumption == MaxFaults \in Nat /\ ~SeqKey

VARIABLES
  known,  \* ts:workers
  info,   \* ts:worker_info:{id}: age of last_heartbeat, and whether it has a TTL
  beat,   \* what the process of each worker does next
  svc,    \* where each recovery loop is
  faults  \* how many more commands may raise

watch == <<known, info, beat, svc, faults>>
recVars == <<task, prio, sched, retry, due, lease, ttl, active, owned, dlq, seq,
             idem, metrics, tickets, known, info, beat, svc, faults>>

(* Ages of a heartbeat: 0 recent, 1 beyond HEARTBEAT_UNHEALTHY_THRESHOLD,  *)
(* which is also the TTL of the key, 2 beyond HEARTBEAT_OFFLINE_THRESHOLD. *)
Age == 0..2

Missing == [age |-> 0, there |-> FALSE, mortal |-> FALSE]
InfoData == [age: Age, there: BOOLEAN, mortal: BOOLEAN]

Resting == [pc |-> "rest", todo |-> {}, worker |-> NoWorker, offline |-> {},
            tasks |-> {}, task |-> NoTask]
LoopData ==
  [pc: {"rest", "scan", "late", "mark", "srem", "visit", "owner", "del", "script"},
   todo: SUBSET Worker, worker: Worker \cup {NoWorker}, offline: SUBSET Worker,
   tasks: SUBSET Task, task: Task \cup {NoTask}]

RecInit ==
  /\ Init
  /\ known = {}
  /\ info = [w \in Worker |-> Missing]
  /\ beat = [w \in Worker |-> "off"]
  /\ svc = [s \in Service |-> Resting]
  /\ faults \in 0..MaxFaults

-----------------------------------------------------------------------------
(* The worker process.  A worker id is drawn per process, so a process     *)
(* that is gone never comes back under its id.                             *)

Alive(w) == beat[w] \notin {"off", "gone", "ghost"}

Beats(w, from, to) == beat[w] = from /\ beat' = [beat EXCEPT ![w] = to]

(* WorkerRuntime.start: the heartbeat and the claim loop start together.   *)
Start(w) == Beats(w, "off", "set") /\ UNCHANGED <<vars, known, info, svc, faults>>

(* One round of _heartbeat_loop: SET with a TTL, SADD, sleep.              *)
BeatSet(w) ==
  /\ Beats(w, "set", "sadd")
  /\ info' = [info EXCEPT ![w] = [age |-> 0, there |-> TRUE, mortal |-> TRUE]]
  /\ UNCHANGED <<vars, known, svc, faults>>

(* SADD in every round, not only until the first claim: the detector may   *)
(* have removed the member.                                                *)
Listed_Once(w) == IF \E c \in tickets : c.worker = w THEN known ELSE known \cup {w}
Listed(w) == known \cup {w}

BeatAdd(w) ==
  /\ Beats(w, "sadd", "sleep")
  /\ known' = Listed(w)
  /\ UNCHANGED <<vars, info, svc, faults>>

BeatAgain(w) == Beats(w, "sleep", "set") /\ UNCHANGED <<vars, known, info, svc, faults>>

Fault == faults > 0 /\ faults' = faults - 1

(* A publish that raises ends the loop for good; the worker claims on.     *)
BeatFails(w) ==
  /\ Fault
  /\ beat[w] \in {"set", "sadd"}
  /\ beat' = [beat EXCEPT ![w] = "mute"]
  /\ UNCHANGED <<vars, known, info, svc>>

(* The process ends, at any point; the claim it has sent may still be on   *)
(* its way ("ghost").                                                      *)
Die(w) ==
  /\ Alive(w)
  /\ \E last \in {"gone", "ghost"} : beat' = [beat EXCEPT ![w] = last]
  /\ UNCHANGED <<vars, known, info, svc, faults>>

LastClaim(w, l) ==
  /\ Beats(w, "ghost", "gone")
  /\ Claim(w, l)
  /\ UNCHANGED <<known, info, svc, faults>>

(* Time: a heartbeat ages; a key with a TTL that is not set again expires. *)
GrowOld(w) ==
  /\ info[w].there /\ info[w].age < 2
  /\ info' = [info EXCEPT ![w].age = @ + 1]
  /\ UNCHANGED <<vars, known, beat, svc, faults>>

Expire(w) ==
  /\ info[w].there /\ info[w].mortal /\ info[w].age > 0
  /\ info' = [info EXCEPT ![w].there = FALSE, ![w].mortal = FALSE]
  /\ UNCHANGED <<vars, known, beat, svc, faults>>

-----------------------------------------------------------------------------
(* StaleWorkerDetector.scan_workers.                                       *)

ScanStart(s) ==
  /\ svc[s].pc = "rest"
  /\ svc' = [svc EXCEPT ![s] = [Resting EXCEPT !.pc = "scan", !.todo = known]]
  /\ UNCHANGED <<vars, known, info, beat, faults>>

(* GET worker_info, and the age of the heartbeat in it.                    *)
ScanGet(s) ==
  /\ svc[s].pc = "scan"
  /\ \E w \in svc[s].todo :
       svc' = IF info[w].there /\ info[w].age = 0
              THEN [svc EXCEPT ![s].todo = @ \ {w}]
              ELSE [svc EXCEPT ![s].worker = w,
                               ![s].pc = CASE ~info[w].there -> "srem"
                                           [] info[w].age = 1 -> "late"
                                           [] OTHER -> "mark",
                               ![s].offline = IF info[w].there THEN @ ELSE @ \cup {w}]
  /\ UNCHANGED <<vars, known, info, beat, faults>>

(* The copy written back has no TTL and the heartbeat that was read, which *)
(* was a old then, even if the worker has beaten since.                    *)
Copied(w, a) ==
  [age |-> IF a > info[w].age THEN a ELSE info[w].age, there |-> TRUE, mortal |-> FALSE]

ScanLate(s) ==
  /\ svc[s].pc = "late"
  /\ info' = [info EXCEPT ![svc[s].worker] = Copied(svc[s].worker, 1)]
  /\ svc' = [svc EXCEPT ![s].pc = "scan", ![s].todo = @ \ {svc[s].worker}]
  /\ UNCHANGED <<vars, known, beat, faults>>

ScanMark(s) ==
  /\ svc[s].pc = "mark"
  /\ info' = [info EXCEPT ![svc[s].worker] = Copied(svc[s].worker, 2)]
  /\ svc' = [svc EXCEPT ![s].pc = "srem", ![s].offline = @ \cup {svc[s].worker}]
  /\ UNCHANGED <<vars, known, beat, faults>>

ScanSrem(s) ==
  /\ svc[s].pc = "srem"
  /\ known' = known \ {svc[s].worker}
  /\ svc' = [svc EXCEPT ![s].pc = "scan", ![s].todo = @ \ {svc[s].worker}]
  /\ UNCHANGED <<vars, info, beat, faults>>

-----------------------------------------------------------------------------
(* RecoveryService._loop and _recover_abandoned_tasks.                     *)

(* A round that found nobody offline looks at no task.                     *)
ScanEnd(s) ==
  /\ svc[s].pc = "scan" /\ svc[s].todo = {}
  /\ svc' = [svc EXCEPT ![s] =
               IF @.offline = {} THEN Resting
               ELSE [@ EXCEPT !.pc = "visit", !.worker = NoWorker, !.tasks = active]]
  /\ UNCHANGED <<vars, known, info, beat, faults>>

NextTask(s) == [svc EXCEPT ![s].pc = "visit", ![s].task = NoTask,
                        ![s].tasks = @ \ {svc[s].task}]

(* EXISTS lease.                                                           *)
Lapsed(t) == lease[t] = NoLease

Visit(s) ==
  /\ svc[s].pc = "visit"
  /\ \E t \in svc[s].tasks :
       svc' = [svc EXCEPT ![s].pc = IF Lapsed(t) THEN "script" ELSE "owner",
                          ![s].task = t]
  /\ UNCHANGED <<vars, known, info, beat, faults>>

Orphaned(s) == task[svc[s].task].worker \in svc[s].offline

ReadOwner(s) ==
  /\ svc[s].pc = "owner"
  /\ svc' = IF Orphaned(s) THEN [svc EXCEPT ![s].pc = "del"] ELSE NextTask(s)
  /\ UNCHANGED <<vars, known, info, beat, faults>>

(* DEL of the lease key, whoever holds it now.                             *)
DelLease(s) ==
  /\ svc[s].pc = "del"
  /\ lease' = [lease EXCEPT ![svc[s].task] = NoLease]
  /\ ttl' = [ttl EXCEPT ![svc[s].task] = 0]
  /\ svc' = [svc EXCEPT ![s].pc = "script"]
  /\ UNCHANGED <<task, prio, sched, retry, due, active, owned, dlq, seq, idem,
                 metrics, tickets, known, info, beat, faults>>

(* The script.  It raises after its first writes (Recover without the      *)
(* sequence key), and the rest of the round is lost with it; it ignores a  *)
(* task that no longer runs.                                               *)
CallScript(s) ==
  /\ svc[s].pc = "script"
  /\ \/ /\ Recover(svc[s].task)
        /\ svc' = [svc EXCEPT ![s] = Resting]
     \/ /\ ~Recoverable(svc[s].task)
        /\ svc' = NextTask(s)
        /\ UNCHANGED vars
  /\ UNCHANGED <<known, info, beat, faults>>

VisitEnd(s) ==
  /\ svc[s].pc = "visit" /\ svc[s].tasks = {}
  /\ svc' = [svc EXCEPT ![s] = Resting]
  /\ UNCHANGED <<vars, known, info, beat, faults>>

(* A command raises, or the API process restarts: the round is forgotten,  *)
(* and the workers it found offline with it.                               *)
RoundFails(s) ==
  /\ Fault
  /\ svc[s].pc # "rest"
  /\ svc' = [svc EXCEPT ![s] = Resting]
  /\ UNCHANGED <<vars, known, info, beat>>

-----------------------------------------------------------------------------
Processes ==
  \E w \in Worker :
    \/ Start(w) \/ BeatSet(w) \/ BeatAdd(w) \/ BeatAgain(w) \/ BeatFails(w)
    \/ Die(w) \/ GrowOld(w) \/ Expire(w)
    \/ \E l \in Lease : LastClaim(w, l)

Round(s) ==
  \/ ScanStart(s) \/ ScanGet(s) \/ ScanLate(s) \/ ScanMark(s) \/ ScanSrem(s)
  \/ ScanEnd(s) \/ Visit(s) \/ ReadOwner(s) \/ DelLease(s) \/ CallScript(s)
  \/ VisitEnd(s)

Loops == \E s \in Service : Round(s) \/ RoundFails(s)

(* Only a process that runs claims.  What it sent by way of reports and    *)
(* renewals may reach Redis after its end.                                 *)
AliveWorkers ==
  \/ \E w \in Worker, l \in Lease : Alive(w) /\ Claim(w, l)
  \/ \E c \in tickets : Complete(c) \/ FailRetry(c) \/ FailDead(c) \/ Renew(c)

Keyspace ==
  /\ Clients \/ AliveWorkers \/ PromoteScheduled \/ PromoteRetries
       \/ PriorityAging \/ Time
  /\ UNCHANGED watch

RecNext == Processes \/ Loops \/ Keyspace

RecSpec == RecInit /\ [][RecNext]_recVars

(* The loops of the API process and of a beating worker go on for ever,    *)
(* and the heartbeat of a silent worker ages and its key expires.          *)
Silent(w) == beat[w] \in {"mute", "gone", "ghost"}

RecFairness ==
  /\ \A s \in Service : WF_recVars(Round(s))
  /\ \A w \in Worker :
       /\ WF_recVars(BeatSet(w) \/ BeatAdd(w) \/ BeatAgain(w))
       /\ WF_recVars(Silent(w) /\ (GrowOld(w) \/ Expire(w)))

FairRecSpec == RecSpec /\ RecFairness

-----------------------------------------------------------------------------
(* Properties.                                                             *)

(* The types of TaskQueue, and those of the bookkeeping about workers.     *)
RecTypeOK ==
  /\ TypeOK
  /\ known \in SUBSET Worker
  /\ info \in [Worker -> InfoData]
  /\ beat \in [Worker -> {"off", "set", "sadd", "sleep", "mute", "gone", "ghost"}]
  /\ svc \in [Service -> LoopData]
  /\ faults \in 0..MaxFaults

(* A worker that beats is in ts:workers again and again, although the      *)
(* detector, acting on what it read earlier, may take it out.              *)
BeatersAreKnown ==
  \A w \in Worker : beat[w] \in {"set", "sadd", "sleep"} ~> Silent(w) \/ w \in known


-----------------------------------------------------------------------------
(* What the documentation states and the services do not keep.             *)

(* The recovery service scans for expired leases and requeues their tasks  *)
(* (docs/failure-modes.md:10, :28).  It looks at leases only in a round    *)
(* that found a worker offline: the task of a live worker that lost its    *)
(* lease is stuck, and the worker's own report is refused.                 *)
ExpiredLeaseRecovered ==
  \A t \in Task :
    task[t].status = "RUNNING" /\ lease[t] = NoLease
      ~> ~(task[t].status = "RUNNING" /\ lease[t] = NoLease)
=============================================================================

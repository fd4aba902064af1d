--------------------------- MODULE WorkerRuntime ---------------------------
(***************************************************************************)
(* The inside of a worker process: the claim loop under its semaphore, the *)
(* executions it starts, their lease renewals and the shutdown             *)
(* (backend/app/workers/runtime.py, lease.py, entry.py), over the keyspace *)
(* and the scripts of TaskQueue.                                           *)
(*                                                                         *)
(* A process is one event loop; its coroutines interleave wherever one of  *)
(* them awaits.  A script and the resumption of the coroutine that called  *)
(* it are two steps, and a call may raise before or after its script ran.  *)
(* One lease stands for one execution: claim() draws a lease per task.     *)
(***************************************************************************)
EXTENDS TaskQueue

CONSTANTS
  Concurrency,  \* WORKER_CONCURRENCY: the permits of the semaphore
  WaitCycles,   \* wait_cycles of shutdown (10 in the code)
  MaxFaults     \* bound: calls of a worker that raise

ASSUME RuntimeAssumption ==
  /\ Concurrency \in Nat \ {0}
  /\ WaitCycles \in Nat
  /\ MaxFaults \in Nat

VARIABLES
  proc,        \* the process: off, up, draining (shutdown() runs), gone
  patience,    \* wait_cycles left
  loop,        \* what the claim loop awaits
  permits,     \* the value of the semaphore
  working,     \* active_tasks
  exec,        \* where _execute_task is, for each lease handed out
  registered,  \* LeaseManager._renewal_tasks: per task id, whose loop it is
  renewing,    \* the renewal loops that have not ended
  unheard,     \* claims sent whose answer nobody awaits any more
  faults       \* how many more calls may raise

process == <<proc, patience, loop, permits, working, exec, registered,
             renewing, unheard, faults>>
runVars == <<task, prio, sched, retry, due, lease, ttl, active, owned, dlq, seq,
             idem, metrics, tickets, proc, patience, loop, permits, working,
             exec, registered, renewing, unheard, faults>>

RunInit ==
  /\ Init
  /\ proc = [w \in Worker |-> "off"]
  /\ patience = [w \in Worker |-> WaitCycles]
  /\ loop = [w \in Worker |-> "off"]
  /\ permits = [w \in Worker |-> Concurrency]
  /\ working = [w \in Worker |-> {}]
  /\ exec = [l \in Lease |-> "none"]
  /\ registered = [w \in Worker |-> [t \in Task |-> NoLease]]
  /\ renewing = {}
  /\ unheard = [w \in Worker |-> 0]
  /\ faults = MaxFaults

Runs(w) == proc[w] \in {"up", "draining"}

Fault == faults > 0 /\ faults' = faults - 1

LoopAt(w, from, to) == loop[w] = from /\ loop' = [loop EXCEPT ![w] = to]

At(l, from, to) == exec[l] = from /\ exec' = [exec EXCEPT ![l] = to]

-----------------------------------------------------------------------------
(* WorkerRuntime.start and _claim_loop.                                    *)

Start(w) ==
  /\ proc[w] = "off"
  /\ proc' = [proc EXCEPT ![w] = "up"]
  /\ LoopAt(w, "off", "acquire")
  /\ UNCHANGED <<vars, patience, permits, working, exec, registered, renewing,
                 unheard, faults>>

Acquire(w) ==
  /\ permits[w] > 0
  /\ LoopAt(w, "acquire", "claim")
  /\ permits' = [permits EXCEPT ![w] = @ - 1]
  /\ UNCHANGED <<vars, proc, patience, working, exec, registered, renewing,
                 unheard, faults>>

(* The claim script pops a task; its reply is under way.                   *)
ClaimTask(w, l) ==
  /\ LoopAt(w, "claim", "reply")
  /\ Claim(w, l)
  /\ At(l, "none", "reply")
  /\ UNCHANGED <<proc, patience, permits, working, registered, renewing,
                 unheard, faults>>

(* The permit an unsuccessful claim gives back.                            *)
GivenBack_Kept(w) == permits
GivenBack(w) == [permits EXCEPT ![w] = @ + 1]

(* Nothing to claim: give the permit back and sleep.                       *)
ClaimNothing(w) ==
  /\ Queued = {}
  /\ LoopAt(w, "claim", "sleep")
  /\ permits' = GivenBack(w)
  /\ UNCHANGED <<vars, proc, patience, working, exec, registered, renewing,
                 unheard, faults>>

(* The reply arrives: note the task, start its execution.  Coroutines that *)
(* are ready run in order: the execution takes its first step before the   *)
(* next reply is handled.                                                  *)
Deliver(c) ==
  /\ \A d \in tickets : d.worker = c.worker => exec[d.lease] # "new"
  /\ LoopAt(c.worker, "reply", "acquire")
  /\ At(c.lease, "reply", "new")
  /\ working' = [working EXCEPT ![c.worker] = @ \cup {c.task}]
  /\ UNCHANGED <<vars, proc, patience, permits, registered, renewing, unheard,
                 faults>>

(* A claim under way is left to itself: it may yet be carried out.         *)
Sent(w) == [unheard EXCEPT ![w] = IF loop[w] = "claim" THEN @ + 1 ELSE @]

(* claim() raises.  Its script has run by then, or it is still to run: the *)
(* task is RUNNING under a lease nobody works with, at once or later.      *)
ClaimRaises(w) ==
  /\ Fault
  /\ \/ LoopAt(w, "claim", "sleep") /\ UNCHANGED exec /\ unheard' = Sent(w)
     \/ /\ LoopAt(w, "reply", "sleep")
        /\ \E c \in tickets : c.worker = w /\ At(c.lease, "reply", "over")
        /\ UNCHANGED unheard
  /\ permits' = GivenBack(w)
  /\ UNCHANGED <<vars, proc, patience, working, registered, renewing>>

Wake(w) ==
  /\ LoopAt(w, "sleep", "acquire")
  /\ UNCHANGED <<vars, proc, patience, permits, working, exec, registered,
                 renewing, unheard, faults>>

-----------------------------------------------------------------------------
(* _execute_task for the ticket c.                                         *)

(* start_renewal: a loop registered under the same task id is cancelled.   *)
Superseded_Kept(c) == renewing
Superseded(c) == renewing \ {registered[c.worker][c.task]}

Begin(c) ==
  /\ Runs(c.worker)
  /\ At(c.lease, "new", "handler")
  /\ registered' = [registered EXCEPT ![c.worker][c.task] = c.lease]
  /\ renewing' = Superseded(c) \cup {c.lease}
  /\ UNCHANGED <<vars, proc, patience, loop, permits, working, faults,
                 unheard>>

(* The handler returns or raises; complete() or fail() is on its way.      *)
HandlerEnds(c) ==
  /\ Runs(c.worker)
  /\ At(c.lease, "handler", "complete") \/ At(c.lease, "handler", "fail")
  /\ UNCHANGED <<vars, proc, patience, loop, permits, working, registered,
                 renewing, unheard, faults>>

(* The scripts answer "ok", or refuse a lease that is not on record.  They *)
(* run even if the process has ended since it sent them.                   *)
CompleteCall(c) ==
  /\ At(c.lease, "complete", "final")
  /\ Complete(c) \/ (~Holds(c) /\ UNCHANGED vars)
  /\ UNCHANGED <<proc, patience, loop, permits, working, registered, renewing,
                 unheard, faults>>

FailCall(c) ==
  /\ At(c.lease, "fail", "final")
  /\ FailRetry(c) \/ FailDead(c) \/ (~Holds(c) /\ UNCHANGED vars)
  /\ UNCHANGED <<proc, patience, loop, permits, working, registered, renewing,
                 unheard, faults>>

(* complete() raises, its script run or not: the except branch reports a   *)
(* failure.                                                                *)
CompleteRaises(c) ==
  /\ Fault
  /\ Runs(c.worker)
  /\ At(c.lease, "complete", "fail")
  /\ Complete(c) \/ UNCHANGED vars
  /\ UNCHANGED <<proc, patience, loop, permits, working, registered, renewing,
                 unheard>>

(* fail() raises before its script ran (raising after it is FailCall).     *)
FailRaises(c) ==
  /\ Fault
  /\ Runs(c.worker)
  /\ At(c.lease, "fail", "final")
  /\ UNCHANGED <<vars, proc, patience, loop, permits, working, registered,
                 renewing, unheard>>

(* stop_renewal: whatever is registered under the task id is cancelled.    *)
Stopped_Popped(c) == renewing
Stopped(c) == renewing \ {registered[c.worker][c.task]}

(* active_tasks.remove raises KeyError when another execution of the task  *)
(* has removed the id already; the release after it is skipped then.       *)
Freed_Never(c) == permits
Freed_Twice(c) ==
  [permits EXCEPT ![c.worker] = IF c.task \in working[c.worker] THEN @ + 2 ELSE @]
Freed(c) ==
  [permits EXCEPT ![c.worker] = IF c.task \in working[c.worker] THEN @ + 1 ELSE @]

(* The finally block.                                                      *)
Finish(c) ==
  /\ Runs(c.worker)
  /\ At(c.lease, "final", "over")
  /\ registered' = [registered EXCEPT ![c.worker][c.task] = NoLease]
  /\ renewing' = Stopped(c)
  /\ working' = [working EXCEPT ![c.worker] = @ \ {c.task}]
  /\ permits' = Freed(c)
  /\ UNCHANGED <<vars, proc, patience, loop, faults, unheard>>

-----------------------------------------------------------------------------
(* renewal_loop for the ticket c: a refusal or an error ends it.           *)
RenewCall(c) ==
  /\ c.lease \in renewing
  /\ \/ Renew(c) /\ UNCHANGED renewing
     \/ ~Holds(c) /\ UNCHANGED vars /\ renewing' = renewing \ {c.lease}
  /\ UNCHANGED <<proc, patience, loop, permits, working, exec, registered,
                 unheard, faults>>

RenewRaises(c) ==
  /\ Fault
  /\ c.lease \in renewing
  /\ Renew(c) \/ UNCHANGED vars
  /\ renewing' = renewing \ {c.lease}
  /\ UNCHANGED <<proc, patience, loop, permits, working, exec, registered,
                 unheard>>

-----------------------------------------------------------------------------
(* shutdown() and the end of the process.                                  *)

Of(w) == {c.lease : c \in {d \in tickets : d.worker = w}}

(* The claim loop is cancelled, the reply of a claim that ran is dropped.  *)
Sigterm(w) ==
  /\ proc[w] = "up"
  /\ proc' = [proc EXCEPT ![w] = "draining"]
  /\ loop' = [loop EXCEPT ![w] = "stopped"]
  /\ unheard' = Sent(w)
  /\ exec' = [l \in Lease |-> IF l \in Of(w) /\ exec[l] = "reply" THEN "over" ELSE exec[l]]
  /\ UNCHANGED <<vars, patience, permits, working, registered, renewing,
                 faults>>

GhostClaim(w, l) ==
  /\ unheard[w] > 0
  /\ unheard' = [unheard EXCEPT ![w] = @ - 1]
  /\ Claim(w, l)
  /\ At(l, "none", "over")
  /\ UNCHANGED <<proc, patience, loop, permits, working, registered, renewing,
                 faults>>

(* shutdown() waits another second for the executions in progress.         *)
DrainSecond(w) ==
  /\ proc[w] = "draining" /\ working[w] # {} /\ patience[w] > 0
  /\ patience' = [patience EXCEPT ![w] = @ - 1]
  /\ UNCHANGED <<vars, proc, loop, permits, working, exec, registered,
                 renewing, unheard, faults>>

(* The process is gone and its coroutines with it; a report it has sent    *)
(* stays on its way.                                                       *)
Ends(w) ==
  /\ proc' = [proc EXCEPT ![w] = "gone"]
  /\ loop' = [loop EXCEPT ![w] = "stopped"]
  /\ unheard' = Sent(w)
  /\ exec' = [l \in Lease |-> IF l \in Of(w) /\ exec[l] \notin {"complete", "fail"}
                              THEN "over" ELSE exec[l]]
  /\ renewing' = renewing \ Of(w)
  /\ UNCHANGED <<vars, patience, permits, working, registered, faults>>

(* main() sleeps while runtime.running: it returns within a second of the  *)
(* signal, whatever shutdown() still waits for, and asyncio.run cancels    *)
(* what is left.                                                           *)
Exit(w) == proc[w] = "draining" /\ Ends(w)

Crash(w) == Runs(w) /\ Ends(w)

-----------------------------------------------------------------------------
LoopStep(w) ==
  \/ Acquire(w) \/ ClaimNothing(w) \/ Wake(w)
  \/ \E l \in Lease : ClaimTask(w, l)
  \/ \E c \in tickets : c.worker = w /\ Deliver(c)

ExecStep(c) ==
  Begin(c) \/ HandlerEnds(c) \/ CompleteCall(c) \/ FailCall(c) \/ Finish(c)

Processes ==
  \/ \E w \in Worker :
       \/ Start(w) \/ LoopStep(w) \/ ClaimRaises(w)
       \/ Sigterm(w) \/ DrainSecond(w) \/ Exit(w) \/ Crash(w)
       \/ \E l \in Lease : GhostClaim(w, l)
  \/ \E c \in tickets :
       \/ ExecStep(c) \/ CompleteRaises(c) \/ FailRaises(c)
       \/ RenewCall(c) \/ RenewRaises(c)

RunNext == Processes \/ ((Clients \/ Services \/ Time) /\ UNCHANGED process)

RunSpec == RunInit /\ [][RunNext]_runVars

(* A lease nobody renews can only run out.                                 *)
Unrenewed(t) == \A c \in tickets : c.task = t => c.lease \notin renewing

-----------------------------------------------------------------------------
(* Properties.                                                             *)

(* The types of TaskQueue, and those of the processes.                     *)
RunTypeOK ==
  /\ TypeOK
  /\ proc \in [Worker -> {"off", "up", "draining", "gone"}]
  /\ patience \in [Worker -> 0..WaitCycles]
  /\ loop \in [Worker -> {"off", "acquire", "claim", "reply", "sleep", "stopped"}]
  /\ permits \in [Worker -> Nat]
  /\ working \in [Worker -> SUBSET Task]
  /\ exec \in [Lease -> {"none", "reply", "new", "handler", "complete", "fail",
                        "final", "over"}]
  /\ registered \in [Worker -> [Task -> Lease \cup {NoLease}]]
  /\ renewing \in SUBSET Lease
  /\ unheard \in [Worker -> Nat]
  /\ faults \in 0..MaxFaults

(* The executions in progress in a process.                                *)
InProgress(w) == {c \in tickets :
  c.worker = w /\ exec[c.lease] \in {"new", "handler", "complete", "fail", "final"}}

(* Does the claim loop hold a permit?                                      *)
InHand(w) == loop[w] \in {"claim", "reply"}

(* No permit is invented: whatever raises in the claim loop or in an       *)
(* execution, a process never runs more than WORKER_CONCURRENCY executions *)
(* (docs/architecture.md:101), its claim in flight included.               *)
PermitsBounded ==
  \A w \in Worker :
    permits[w] + (IF InHand(w) THEN 1 ELSE 0) + Cardinality(InProgress(w)) <= Concurrency

(* The finally block loses a permit each time two executions of one task   *)
(* end in one process, but never the last: there is a permit, or the claim *)
(* loop holds one, or an execution that will return one.                   *)
NeverWedged ==
  \A w \in Worker : proc[w] = "up" =>
    permits[w] > 0 \/ InHand(w) \/ \E c \in InProgress(w) : c.task \in working[w]

(* A renewal loop belongs to an execution in progress in a running process *)
(* and is the one registered for its task: none outlives its execution and *)
(* keeps alive the lease of a task nobody works on.                        *)
NoOrphanRenewal ==
  \A l \in renewing : \E c \in tickets :
    /\ c.lease = l
    /\ Runs(c.worker)
    /\ exec[l] \in {"handler", "complete", "fail", "final"}
    /\ registered[c.worker][c.task] = l

(* While some worker is up and leases can be drawn, a queued task is       *)
(* claimed in the end: neither the permits that get lost nor a call that   *)
(* raises stops the claim loop for good.                                   *)
QueuedIsClaimed ==
  \A t \in Task :
    t \in Queued ~> \/ t \notin Queued
                    \/ \A w \in Worker : proc[w] # "up"
                    \/ \A l \in Lease : exec[l] # "none"

(* A lease nobody works with any more (its reply was lost, its report      *)
(* raised, its process ended) is off its task in the end, so that the      *)
(* recovery service can see it has lapsed.                                 *)
IdleLeaseLapses ==
  \A l \in Lease : exec[l] = "over" ~> \A t \in Task : lease[t] # l

-----------------------------------------------------------------------------
(* What the documentation states and the runtime does not keep.            *)

(* A worker renews the lease it works under (docs/architecture.md:83).     *)
(* The finally block of an execution that lost its lease cancels the       *)
(* renewal of the execution that has it now.                               *)
HandlersRenew ==
  \A c \in tickets :
    Runs(c.worker) /\ exec[c.lease] = "handler" /\ Holds(c) => c.lease \in renewing
=============================================================================

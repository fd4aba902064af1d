--------------------------- MODULE RuntimeProofs ---------------------------
(***************************************************************************)
(* A worker process keeps what the queue promises, and its own books: its  *)
(* semaphore and its renewal loops, for any number of workers, tasks and   *)
(* leases, any concurrency, any number of calls that raise and any number  *)
(* of API requests in flight.                                              *)
(*                                                                         *)
(* Every step of WorkerRuntime is a step of TaskQueue or leaves the        *)
(* keyspace alone.  The processes' own books need no more of the keyspace  *)
(* than its types and leases drawn once, and both outlast the requests.    *)
(***************************************************************************)
EXTENDS RuntimeRequests, ApiProofs, QueueFencedProofs, QueueStepProofs,
        FiniteSetTheorems

(* A process that has not started has all its permits.                     *)
Untouched ==
  \A w \in Worker : proc[w] = "off" => permits[w] = Concurrency /\ loop[w] = "off"

RunInv ==
  /\ RunTypeOK
  /\ TicketsDiffer
  /\ IsFiniteSet(tickets)
  /\ Untouched
  /\ PermitsBounded
  /\ NeverWedged
  /\ NoOrphanRenewal

(* A step of the processes or of what surrounds them, requests included.   *)
AnyStep == [RunNext]_runVars \/ (Requests /\ UNCHANGED process)

(* What a ticket is made of.                                               *)
LEMMA TicketParts ==
  ASSUME TypeOK, NEW c \in tickets
  PROVE  c.task \in Task /\ c.worker \in Worker /\ c.lease \in Lease
BY DEF TypeOK, Ticket

(* Only a claim hands out a ticket.                                        *)
LEMMA TicketsKept ==
  ASSUME \/ Clients \/ Services \/ Time
         \/ \E c \in tickets : Complete(c) \/ FailRetry(c) \/ FailDead(c) \/ Renew(c)
         \/ UNCHANGED vars
  PROVE  UNCHANGED tickets
<1>1. CASE Clients
  BY <1>1 DEF Clients, EnqueueNow, EnqueueLater, Record
<1>2. CASE Services
  BY <1>2 DEF Services, Recover, PromoteScheduled, PromoteRetries, Promote,
              PromoteBroken, PriorityAging
<1>3. CASE Time
  BY <1>3 DEF Time, LeaseTick, BecomeDue, KeyExpires
<1>4. CASE \E c \in tickets : Complete(c) \/ FailRetry(c) \/ FailDead(c) \/ Renew(c)
  BY <1>4 DEF Complete, FailRetry, FailDead, Renew
<1>5. CASE UNCHANGED vars
  BY <1>5 DEF vars
<1>6. QED  BY <1>1, <1>2, <1>3, <1>4, <1>5

(* A request hands out none.                                               *)
LEMMA RequestTickets == Requests => UNCHANGED tickets
BY DEF Requests, CancelRead, RetryRead, Admit, CancelWrite, RetryHset, RetryLrem,
       RetryZadd, Abort, vars

(* A claim hands out one ticket.                                           *)
LEMMA TicketAdded ==
  ASSUME NEW w, NEW l, Claim(w, l)
  PROVE  /\ \A c \in tickets : c.lease # l
         /\ \E t \in Task :
              tickets' = tickets \cup {[task |-> t, worker |-> w, lease |-> l]}
BY DEF Claim, Heads, Queued

(* The queue sees a step of its own, or nothing.                           *)
LEMMA StepOfRuntime ==
  ASSUME [RunNext]_runVars
  PROVE  [Next]_vars
<1>1. ASSUME NEW w \in Worker, LoopStep(w)
      PROVE  [Next]_vars
  BY <1>1 DEF LoopStep, Acquire, ClaimNothing, Wake, ClaimTask, Deliver, Next, Workers
<1>2. ASSUME NEW w \in Worker, Start(w) \/ ClaimRaises(w) \/ Sigterm(w) \/ DrainSecond(w)
                               \/ Exit(w) \/ Crash(w)
      PROVE  UNCHANGED vars
  BY <1>2 DEF Start, ClaimRaises, Sigterm, DrainSecond, Exit, Crash, Ends
<1>3. ASSUME NEW w \in Worker, NEW l \in Lease, GhostClaim(w, l)
      PROVE  Next
  BY <1>3 DEF GhostClaim, Next, Workers
<1>4. ASSUME NEW c \in tickets, ExecStep(c)
      PROVE  [Next]_vars
  BY <1>4 DEF ExecStep, Begin, HandlerEnds, CompleteCall, FailCall, Finish, Next, Workers
<1>5. ASSUME NEW c \in tickets,
             CompleteRaises(c) \/ FailRaises(c) \/ RenewCall(c) \/ RenewRaises(c)
      PROVE  [Next]_vars
  BY <1>5 DEF CompleteRaises, FailRaises, RenewCall, RenewRaises, Next, Workers
<1>6. CASE (Clients \/ Services \/ Time) /\ UNCHANGED process
  BY <1>6 DEF Next
<1>7. CASE UNCHANGED runVars
  BY <1>7 DEF runVars, vars
<1>8. QED
  BY <1>1, <1>2, <1>3, <1>4, <1>5, <1>6, <1>7 DEF RunNext, Processes

(* The bookkeeping of the processes stays well typed.                      *)
LEMMA ProcessTypes ==
  ASSUME RunInv, AnyStep, TypeOK'
  PROVE  RunTypeOK'
<1> TypeOK /\ RunTypeOK  BY DEF RunInv, RunTypeOK
<1>1. CASE UNCHANGED process \/ UNCHANGED runVars
  BY <1>1 DEF RunTypeOK, process, runVars
<1>2. ASSUME NEW w \in Worker,
             Start(w) \/ Acquire(w) \/ ClaimNothing(w) \/ Wake(w) \/ DrainSecond(w)
      PROVE  RunTypeOK'
  <2>1. CASE Start(w) \/ Wake(w)
    BY <2>1 DEF RunTypeOK, Start, Wake, LoopAt
  <2>2. CASE Acquire(w)
    BY <2>2 DEF RunTypeOK, Acquire, LoopAt
  <2>3. CASE ClaimNothing(w)
    BY <2>3 DEF RunTypeOK, ClaimNothing, LoopAt, GivenBack
  <2>4. CASE DrainSecond(w)
    <3>1. patience[w] - 1 \in 0..WaitCycles
      BY <2>4, RuntimeAssumption DEF RunTypeOK, DrainSecond
    <3>2. QED  BY <2>4, <3>1 DEF RunTypeOK, DrainSecond
  <2>5. QED  BY <1>2, <2>1, <2>2, <2>3, <2>4
<1>3. ASSUME NEW w \in Worker, NEW l \in Lease, ClaimTask(w, l) \/ GhostClaim(w, l)
      PROVE  RunTypeOK'
  <2>1. CASE ClaimTask(w, l)
    BY <2>1 DEF RunTypeOK, ClaimTask, LoopAt, At
  <2>2. CASE GhostClaim(w, l)
    <3>1. unheard' \in [Worker -> Nat]
      BY <2>2 DEF RunTypeOK, GhostClaim
    <3>2. QED  BY <2>2, <3>1 DEF RunTypeOK, GhostClaim, At
  <2>3. QED  BY <1>3, <2>1, <2>2
<1>4. ASSUME NEW c \in tickets, Deliver(c) \/ HandlerEnds(c)
      PROVE  RunTypeOK'
  <2>1. CASE Deliver(c)
    BY <2>1, TicketParts DEF RunTypeOK, Deliver, LoopAt, At
  <2>2. CASE HandlerEnds(c)
    BY <2>2, TicketParts DEF RunTypeOK, HandlerEnds, At
  <2>3. QED  BY <1>4, <2>1, <2>2
<1>5. ASSUME NEW c \in tickets, NEW from, NEW to \in {"complete", "fail", "final"},
             At(c.lease, from, to), faults' \in 0..MaxFaults,
             UNCHANGED <<proc, patience, loop, permits, working, registered, renewing,
                         unheard>>
      PROVE  RunTypeOK'
  BY <1>5, TicketParts DEF RunTypeOK, At
<1>51. ASSUME NEW c \in tickets, CompleteCall(c) \/ FailCall(c) \/ CompleteRaises(c)
                                \/ FailRaises(c)
      PROVE  RunTypeOK'
  <2>1. faults' \in 0..MaxFaults
    BY <1>51, RuntimeAssumption
       DEF RunTypeOK, CompleteCall, FailCall, CompleteRaises, FailRaises, Fault
  <2>2. QED
    BY <1>5, <1>51, <2>1 DEF CompleteCall, FailCall, CompleteRaises, FailRaises
<1>6. ASSUME NEW c \in tickets, Begin(c) \/ Finish(c)
      PROVE  RunTypeOK'
  <2>1. c.task \in Task /\ c.worker \in Worker /\ c.lease \in Lease
    BY TicketParts
  <2>2. \A l \in Lease \cup {NoLease} :
          [registered EXCEPT ![c.worker][c.task] = l]
            \in [Worker -> [Task -> Lease \cup {NoLease}]]
    BY <2>1 DEF RunTypeOK
  <2>3. CASE Begin(c)
    BY <2>1, <2>2, <2>3 DEF RunTypeOK, Begin, At, Superseded
  <2>4. CASE Finish(c)
    <3>1. Freed(c) \in [Worker -> Nat]
      BY <2>1 DEF Freed, RunTypeOK
    <3>2. QED
      BY <2>1, <2>2, <2>4, <3>1 DEF RunTypeOK, Finish, At, Stopped
  <2>5. QED  BY <1>6, <2>3, <2>4
<1>7. ASSUME NEW c \in tickets, RenewCall(c) \/ RenewRaises(c)
      PROVE  RunTypeOK'
  BY <1>7, TicketParts, RuntimeAssumption
     DEF RunTypeOK, RenewCall, RenewRaises, Fault
<1>8. ASSUME NEW w \in Worker, Sigterm(w) \/ Exit(w) \/ Crash(w)
      PROVE  RunTypeOK'
  <2>1. Sent(w) \in [Worker -> Nat]
    BY DEF RunTypeOK, Sent
  <2>2. QED  BY <1>8, <2>1 DEF RunTypeOK, Sigterm, Exit, Crash, Ends
<1>9. ASSUME NEW w \in Worker, ClaimRaises(w)
      PROVE  RunTypeOK'
  <2>1. faults' \in 0..MaxFaults /\ GivenBack(w) \in [Worker -> Nat]
    BY <1>9, RuntimeAssumption DEF RunTypeOK, ClaimRaises, Fault, GivenBack
  <2>2. exec' = exec \/ \E l \in Lease : exec' = [exec EXCEPT ![l] = "over"]
    BY <1>9, TicketParts DEF ClaimRaises, At
  <2>3. unheard' \in [Worker -> Nat]
    BY <1>9 DEF RunTypeOK, ClaimRaises, Sent
  <2>4. QED
    BY <1>9, <2>1, <2>2, <2>3 DEF RunTypeOK, ClaimRaises, LoopAt
<1>10. QED
  BY <1>1, <1>2, <1>3, <1>4, <1>51, <1>6, <1>7, <1>8, <1>9
  DEF AnyStep, RunNext, Processes, LoopStep, ExecStep

(* Every step is one of these; the rest of the proofs go by them.          *)
LEMMA StepKinds ==
  ASSUME AnyStep
  PROVE  \/ UNCHANGED tickets /\ UNCHANGED process
         \/ \E w \in Worker :
              \/ Start(w) \/ Acquire(w) \/ ClaimNothing(w) \/ Wake(w) \/ ClaimRaises(w)
              \/ Sigterm(w) \/ DrainSecond(w) \/ Exit(w) \/ Crash(w)
              \/ \E l \in Lease : ClaimTask(w, l) \/ GhostClaim(w, l)
         \/ \E c \in tickets :
              \/ Deliver(c) \/ Begin(c) \/ HandlerEnds(c) \/ CompleteCall(c) \/ FailCall(c)
              \/ Finish(c) \/ CompleteRaises(c) \/ FailRaises(c) \/ RenewCall(c)
              \/ RenewRaises(c)
<1>1. CASE (Clients \/ Services \/ Time) /\ UNCHANGED process
  BY <1>1, TicketsKept
<1>2. CASE UNCHANGED runVars
  BY <1>2 DEF runVars, process
<1>3. CASE Processes
  BY <1>3 DEF Processes, LoopStep, ExecStep
<1>4. CASE Requests /\ UNCHANGED process
  BY <1>4, RequestTickets
<1>5. QED  BY <1>1, <1>2, <1>3, <1>4 DEF AnyStep, RunNext

(* Which steps hand out a ticket.                                          *)
LEMMA ProcessTickets ==
  ASSUME \/ \E w \in Worker :
              \/ Start(w) \/ Acquire(w) \/ ClaimNothing(w) \/ Wake(w) \/ ClaimRaises(w)
              \/ Sigterm(w) \/ DrainSecond(w) \/ Exit(w) \/ Crash(w)
         \/ \E c \in tickets :
              \/ Deliver(c) \/ Begin(c) \/ HandlerEnds(c) \/ CompleteCall(c) \/ FailCall(c)
              \/ Finish(c) \/ CompleteRaises(c) \/ FailRaises(c) \/ RenewCall(c)
              \/ RenewRaises(c)
  PROVE  UNCHANGED tickets
<1>1. ASSUME NEW c \in tickets, CompleteCall(c) \/ FailCall(c) \/ CompleteRaises(c)
      PROVE  UNCHANGED tickets
  BY <1>1, TicketsKept DEF CompleteCall, FailCall, CompleteRaises
<1>2. ASSUME NEW c \in tickets, RenewCall(c) \/ RenewRaises(c)
      PROVE  UNCHANGED tickets
  BY <1>2, TicketsKept DEF RenewCall, RenewRaises
<1>3. ASSUME NEW c \in tickets,
             Deliver(c) \/ Begin(c) \/ HandlerEnds(c) \/ Finish(c) \/ FailRaises(c)
      PROVE  UNCHANGED tickets
  BY <1>3, TicketsKept DEF Deliver, Begin, HandlerEnds, Finish, FailRaises
<1>4. ASSUME NEW w \in Worker,
             Start(w) \/ Acquire(w) \/ ClaimNothing(w) \/ Wake(w) \/ ClaimRaises(w)
      PROVE  UNCHANGED tickets
  BY <1>4, TicketsKept DEF Start, Acquire, ClaimNothing, Wake, ClaimRaises
<1>5. ASSUME NEW w \in Worker, Sigterm(w) \/ DrainSecond(w) \/ Exit(w) \/ Crash(w)
      PROVE  UNCHANGED tickets
  BY <1>5, TicketsKept DEF Sigterm, DrainSecond, Exit, Crash, Ends
<1>6. QED  BY <1>1, <1>2, <1>3, <1>4, <1>5

(* Tickets are never taken back, and there are finitely many.              *)
LEMMA TicketsGrow ==
  ASSUME TypeOK, AnyStep, IsFiniteSet(tickets)
  PROVE  tickets \subseteq tickets' /\ IsFiniteSet(tickets')
<1>1. ASSUME NEW w \in Worker, NEW l \in Lease, ClaimTask(w, l) \/ GhostClaim(w, l)
      PROVE  tickets \subseteq tickets' /\ IsFiniteSet(tickets')
  <2>1. Claim(w, l)
    BY <1>1 DEF ClaimTask, GhostClaim
  <2>2. PICK t \in Task : tickets' = tickets \cup {[task |-> t, worker |-> w, lease |-> l]}
    BY <2>1, TicketAdded
  <2>3. QED  BY <2>2, FS_AddElement
<1>2. CASE UNCHANGED tickets
  BY <1>2
<1>3. QED  BY <1>1, <1>2, StepKinds, ProcessTickets

(* No two claims draw one lease.                                           *)
LEMMA TicketsApart ==
  ASSUME RunInv, AnyStep
  PROVE  TicketsDiffer'
<1>1. TicketsDiffer
  BY DEF RunInv
<1>2. ASSUME NEW w \in Worker, NEW l \in Lease, ClaimTask(w, l) \/ GhostClaim(w, l)
      PROVE  TicketsDiffer'
  <2>1. Claim(w, l)
    BY <1>2 DEF ClaimTask, GhostClaim
  <2>2. PICK t \in Task : tickets' = tickets \cup {[task |-> t, worker |-> w, lease |-> l]}
    BY <2>1, TicketAdded
  <2>3. \A c \in tickets : c.lease # l
    BY <2>1, TicketAdded
  <2>4. QED  BY <1>1, <2>2, <2>3 DEF TicketsDiffer
<1>3. CASE UNCHANGED tickets
  BY <1>1, <1>3 DEF TicketsDiffer
<1>4. QED  BY <1>2, <1>3, StepKinds, ProcessTickets

(* A process that is off stays untouched until it starts.                  *)
LEMMA UntouchedStep ==
  ASSUME RunInv, AnyStep
  PROVE  Untouched'
<1> RunTypeOK /\ TypeOK /\ Untouched  BY DEF RunInv, RunTypeOK
<1>1. CASE UNCHANGED process
  BY <1>1 DEF process, Untouched
<1>2. ASSUME NEW w \in Worker,
             \/ Start(w) \/ Acquire(w) \/ ClaimNothing(w) \/ Wake(w) \/ ClaimRaises(w)
             \/ Sigterm(w) \/ DrainSecond(w) \/ Exit(w) \/ Crash(w)
             \/ \E l \in Lease : ClaimTask(w, l) \/ GhostClaim(w, l)
      PROVE  Untouched'
  <2>1. CASE Start(w)
    BY <2>1 DEF Start, LoopAt, RunTypeOK, Untouched
  <2>2. CASE \/ Acquire(w) \/ ClaimNothing(w) \/ Wake(w) \/ ClaimRaises(w)
             \/ \E l \in Lease : ClaimTask(w, l)
    <3>1. loop[w] # "off" /\ proc' = proc
      BY <2>2 DEF Acquire, ClaimNothing, Wake, ClaimRaises, ClaimTask, LoopAt
    <3>2. \A v \in Worker \ {w} : permits'[v] = permits[v] /\ loop'[v] = loop[v]
      BY <2>2 DEF Acquire, ClaimNothing, Wake, ClaimRaises, ClaimTask, LoopAt,
                  GivenBack, RunTypeOK
    <3>3. QED  BY <3>1, <3>2 DEF Untouched
  <2>3. CASE DrainSecond(w) \/ \E l \in Lease : GhostClaim(w, l)
    BY <2>3 DEF DrainSecond, GhostClaim, Untouched
  <2>4. CASE Sigterm(w) \/ Exit(w) \/ Crash(w)
    <3>1. proc'[w] # "off" /\ permits' = permits
      BY <2>4 DEF Sigterm, Exit, Crash, Ends, RunTypeOK
    <3>2. \A v \in Worker \ {w} : proc'[v] = proc[v] /\ loop'[v] = loop[v]
      BY <2>4 DEF Sigterm, Exit, Crash, Ends, RunTypeOK
    <3>3. QED  BY <3>1, <3>2 DEF Untouched
  <2>5. QED  BY <1>2, <2>1, <2>2, <2>3, <2>4
<1>3. ASSUME NEW c \in tickets,
             \/ Deliver(c) \/ Begin(c) \/ HandlerEnds(c) \/ CompleteCall(c) \/ FailCall(c)
             \/ Finish(c) \/ CompleteRaises(c) \/ FailRaises(c) \/ RenewCall(c)
             \/ RenewRaises(c)
      PROVE  Untouched'
  <2>1. c.worker \in Worker
    BY TicketParts
  <2>2. CASE Deliver(c)
    BY <2>1, <2>2 DEF Deliver, LoopAt, RunTypeOK, Untouched
  <2>3. CASE Finish(c)
    BY <2>1, <2>3 DEF Finish, Freed, Runs, RunTypeOK, Untouched
  <2>4. CASE UNCHANGED <<proc, permits, loop>>
    BY <2>4 DEF Untouched
  <2>5. QED
    BY <1>3, <2>2, <2>3, <2>4
    DEF Begin, HandlerEnds, CompleteCall, FailCall, CompleteRaises, FailRaises, RenewCall,
        RenewRaises
<1>4. QED  BY <1>1, <1>2, <1>3, StepKinds

(* A renewal stays registered, and its execution stays in progress.        *)
LEMMA NoOrphanStep ==
  ASSUME RunInv, AnyStep
  PROVE  NoOrphanRenewal'
<1> DEFINE Busy == {"handler", "complete", "fail", "final"}
           Backed(l, c) == /\ c.lease = l /\ Runs(c.worker) /\ exec[l] \in Busy
                           /\ registered[c.worker][c.task] = l
<1> RunTypeOK /\ TypeOK /\ TicketsDiffer /\ NoOrphanRenewal
  BY DEF RunInv, RunTypeOK
<1> IsFiniteSet(tickets)  BY DEF RunInv
<1>1. tickets \subseteq tickets'
  BY TicketsGrow
<1>2. SUFFICES ASSUME NEW l \in renewing'
               PROVE  \E c \in tickets : Backed(l, c)'
  BY <1>1 DEF NoOrphanRenewal
<1>3. ASSUME NEW b \in tickets, Begin(b)
      PROVE  \E c \in tickets : Backed(l, c)'
  <2>1. b.task \in Task /\ b.worker \in Worker /\ b.lease \in Lease
    BY TicketParts
  <2>2. CASE l = b.lease
    BY <1>3, <2>1, <2>2 DEF Begin, At, Runs, RunTypeOK
  <2>3. CASE l # b.lease
    <3>1. l \in renewing /\ l # registered[b.worker][b.task]
      BY <1>3, <2>3 DEF Begin, Superseded
    <3>2. PICK c \in tickets : Backed(l, c)
      BY <3>1 DEF NoOrphanRenewal
    <3>3. c.task \in Task /\ c.worker \in Worker /\ c.lease \in Lease
      BY TicketParts
    <3>4. registered'[c.worker][c.task] = l
      BY <1>3, <2>1, <3>1, <3>2, <3>3 DEF Begin, RunTypeOK
    <3>5. exec'[l] = exec[l] /\ proc' = proc
      BY <1>3, <2>3, <3>2, <3>3 DEF Begin, At, RunTypeOK
    <3>6. QED  BY <3>2, <3>4, <3>5 DEF Runs
  <2>4. QED  BY <2>2, <2>3
<1>4. ASSUME NEW b \in tickets, Finish(b)
      PROVE  \E c \in tickets : Backed(l, c)'
  <2>1. b.task \in Task /\ b.worker \in Worker /\ b.lease \in Lease
    BY TicketParts
  <2>2. l \in renewing /\ l # registered[b.worker][b.task]
    BY <1>4 DEF Finish, Stopped
  <2>3. PICK c \in tickets : Backed(l, c)
    BY <2>2 DEF NoOrphanRenewal
  <2>4. c.task \in Task /\ c.worker \in Worker /\ c.lease \in Lease
    BY TicketParts
  <2>5. l # b.lease
    BY <2>2, <2>3 DEF TicketsDiffer
  <2>6. registered'[c.worker][c.task] = l
    BY <1>4, <2>1, <2>2, <2>3, <2>4 DEF Finish, RunTypeOK
  <2>7. exec'[l] = exec[l] /\ proc' = proc
    BY <1>4, <2>3, <2>4, <2>5 DEF Finish, At, RunTypeOK
  <2>8. QED  BY <2>3, <2>6, <2>7 DEF Runs
<1>5. ASSUME NEW w \in Worker, Exit(w) \/ Crash(w)
      PROVE  \E c \in tickets : Backed(l, c)'
  <2>1. l \in renewing /\ l \notin Of(w)
    BY <1>5 DEF Exit, Crash, Ends
  <2>2. PICK c \in tickets : Backed(l, c)
    BY <2>1 DEF NoOrphanRenewal
  <2>3. c.worker \in Worker /\ c.lease \in Lease /\ c.worker # w
    BY <2>1, <2>2, TicketParts DEF Of
  <2>4. exec'[l] = exec[l] /\ proc'[c.worker] = proc[c.worker] /\ registered' = registered
    BY <1>5, <2>1, <2>2, <2>3 DEF Exit, Crash, Ends, RunTypeOK
  <2>5. QED  BY <2>2, <2>4 DEF Runs
<1>6. ASSUME renewing' \subseteq renewing,
             registered' = registered,
             \A w \in Worker : Runs(w) => Runs(w)',
             \A k \in Lease : exec[k] \in Busy => exec'[k] \in Busy
      PROVE  \E c \in tickets : Backed(l, c)'
  <2>1. PICK c \in tickets : Backed(l, c)
    BY <1>6 DEF NoOrphanRenewal
  <2>2. c.worker \in Worker /\ c.lease \in Lease
    BY TicketParts
  <2>3. QED  BY <1>6, <2>1, <2>2
<1>7. CASE UNCHANGED process
  BY <1>6, <1>7 DEF process, Runs
<1>8. ASSUME NEW w \in Worker,
             \/ Start(w) \/ Acquire(w) \/ ClaimNothing(w) \/ Wake(w) \/ ClaimRaises(w)
             \/ Sigterm(w) \/ DrainSecond(w)
             \/ \E k \in Lease : ClaimTask(w, k) \/ GhostClaim(w, k)
      PROVE  \E c \in tickets : Backed(l, c)'
  <2>1. renewing' \subseteq renewing /\ registered' = registered
    BY <1>8 DEF Start, Acquire, ClaimNothing, Wake, ClaimRaises, Sigterm, DrainSecond,
                ClaimTask, GhostClaim
  <2>2. \A v \in Worker : Runs(v) => Runs(v)'
    BY <1>8 DEF Start, Acquire, ClaimNothing, Wake, ClaimRaises, Sigterm, DrainSecond,
                ClaimTask, GhostClaim, Runs, RunTypeOK
  <2>3. \A k \in Lease : exec[k] \in Busy => exec'[k] \in Busy
    <3>1. CASE Sigterm(w)
      BY <3>1 DEF Sigterm, RunTypeOK
    <3>2. CASE exec' = exec \/ \E k \in Lease : exec[k] \notin Busy /\
                                  \E e : exec' = [exec EXCEPT ![k] = e]
      BY <3>2 DEF RunTypeOK
    <3>3. QED
      BY <1>8, <3>1, <3>2, TicketParts
      DEF Start, Acquire, ClaimNothing, Wake, ClaimRaises, DrainSecond, ClaimTask,
          GhostClaim, At
  <2>4. QED  BY <1>6, <2>1, <2>2, <2>3
<1>9. ASSUME NEW b \in tickets,
             \/ Deliver(b) \/ HandlerEnds(b) \/ CompleteCall(b) \/ FailCall(b)
             \/ CompleteRaises(b) \/ FailRaises(b) \/ RenewCall(b) \/ RenewRaises(b)
      PROVE  \E c \in tickets : Backed(l, c)'
  <2>1. renewing' \subseteq renewing /\ registered' = registered /\ proc' = proc
    BY <1>9 DEF Deliver, HandlerEnds, CompleteCall, FailCall, CompleteRaises, FailRaises,
                RenewCall, RenewRaises
  <2>2. \/ exec' = exec
        \/ \E e \in Busy : exec' = [exec EXCEPT ![b.lease] = e]
        \/ exec[b.lease] = "reply" /\ exec' = [exec EXCEPT ![b.lease] = "new"]
    BY <1>9 DEF Deliver, HandlerEnds, CompleteCall, FailCall, CompleteRaises, FailRaises,
                RenewCall, RenewRaises, At
  <2>3. \A k \in Lease : exec[k] \in Busy => exec'[k] \in Busy
    BY <2>2, TicketParts DEF RunTypeOK
  <2>4. QED  BY <1>6, <2>1, <2>3 DEF Runs
<1>10. QED  BY <1>3, <1>4, <1>5, <1>7, <1>8, <1>9, StepKinds

(* There is always a permit in sight in a process that is up.              *)
LEMMA WedgeStep ==
  ASSUME RunInv, AnyStep
  PROVE  NeverWedged'
<1> DEFINE InSight(w) == \/ permits[w] > 0 \/ InHand(w)
                         \/ \E c \in InProgress(w) : c.task \in working[w]
           Going == {"new", "handler", "complete", "fail", "final"}
<1> RunTypeOK /\ TypeOK /\ TicketsDiffer /\ NeverWedged /\ Untouched
  BY DEF RunInv, RunTypeOK
<1> IsFiniteSet(tickets)  BY DEF RunInv
<1>1. tickets \subseteq tickets'
  BY TicketsGrow
<1>2. SUFFICES ASSUME NEW w \in Worker, proc'[w] = "up"
               PROVE  InSight(w)'
  BY DEF NeverWedged
<1>3. CASE Start(w)
  BY <1>3, RuntimeAssumption DEF Start, Untouched
<1>4. ASSUME proc[w] = "up", permits'[w] = permits[w], InHand(w)' = InHand(w),
             working'[w] = working[w],
             \A k \in Lease : exec[k] \in Going => exec'[k] \in Going
      PROVE  InSight(w)'
  <2>1. CASE permits[w] > 0 \/ InHand(w)
    BY <1>4, <2>1
  <2>2. CASE \E c \in InProgress(w) : c.task \in working[w]
    <3>1. PICK c \in InProgress(w) : c.task \in working[w]
      BY <2>2
    <3>2. c \in tickets /\ c.lease \in Lease
      BY <3>1, TicketParts DEF InProgress
    <3>3. c \in InProgress(w)'
      BY <1>1, <1>4, <3>1, <3>2 DEF InProgress
    <3>4. QED  BY <1>4, <3>1, <3>3
  <2>3. QED  BY <1>4, <2>1, <2>2 DEF NeverWedged
<1>5. CASE UNCHANGED process
  <2>1. /\ proc' = proc /\ permits' = permits /\ working' = working
        /\ exec' = exec /\ loop' = loop
    BY <1>5 DEF process
  <2>2. InHand(w)' = InHand(w)
    BY <2>1 DEF InHand
  <2>3. QED  BY <1>2, <1>4, <2>1, <2>2
<1>6. ASSUME NEW v \in Worker, Acquire(v) \/ ClaimNothing(v) \/ ClaimRaises(v)
      PROVE  InSight(w)'
  <2>1. proc' = proc /\ working' = working
    BY <1>6 DEF Acquire, ClaimNothing, ClaimRaises
  <2>2. CASE v = w
    BY <1>6, <2>2 DEF Acquire, ClaimNothing, ClaimRaises, LoopAt, GivenBack, InHand, RunTypeOK
  <2>3. CASE v # w
    <3>1. permits'[w] = permits[w] /\ InHand(w)' = InHand(w)
      BY <1>6, <2>3 DEF Acquire, ClaimNothing, ClaimRaises, LoopAt, GivenBack, InHand, RunTypeOK
    <3>2. \/ exec' = exec
          \/ \E k \in Lease : exec[k] = "reply" /\ exec' = [exec EXCEPT ![k] = "over"]
      <4>1. CASE ClaimRaises(v)
        <5>1. \/ exec' = exec
              \/ \E c \in tickets : At(c.lease, "reply", "over")
          BY <4>1 DEF ClaimRaises
        <5>2. QED  BY <5>1, TicketParts DEF At
      <4>2. QED  BY <1>6, <4>1 DEF Acquire, ClaimNothing
    <3>3. \A k \in Lease : exec[k] \in Going => exec'[k] \in Going
      BY <3>2 DEF RunTypeOK
    <3>4. QED  BY <1>2, <1>4, <2>1, <3>1, <3>3
  <2>4. QED  BY <2>2, <2>3
<1>7. ASSUME NEW v \in Worker, Start(v) \/ Wake(v) \/ DrainSecond(v)
      PROVE  InSight(w)'
  <2>1. CASE v = w /\ Start(v)
    BY <1>3, <2>1
  <2>2. CASE ~(v = w /\ Start(v))
    <3>1. proc[w] = "up" /\ InHand(w)' = InHand(w)
      BY <1>2, <1>7, <2>2 DEF Start, Wake, DrainSecond, LoopAt, InHand, RunTypeOK
    <3>2. permits' = permits /\ working' = working /\ exec' = exec
      BY <1>7 DEF Start, Wake, DrainSecond
    <3>3. QED  BY <1>4, <3>1, <3>2
  <2>3. QED  BY <2>1, <2>2
<1>8. ASSUME NEW v \in Worker, NEW l \in Lease, ClaimTask(v, l) \/ GhostClaim(v, l)
      PROVE  InSight(w)'
  <2>1. proc' = proc /\ permits' = permits /\ working' = working
    BY <1>8 DEF ClaimTask, GhostClaim
  <2>2. InHand(w)' = InHand(w)
    BY <1>8 DEF ClaimTask, GhostClaim, LoopAt, InHand, RunTypeOK
  <2>3. \A k \in Lease : exec[k] \in Going => exec'[k] \in Going
    BY <1>8 DEF ClaimTask, GhostClaim, At, RunTypeOK
  <2>4. QED  BY <1>2, <1>4, <2>1, <2>2, <2>3
<1>9. ASSUME NEW v \in Worker, Sigterm(v) \/ Exit(v) \/ Crash(v)
      PROVE  InSight(w)'
  <2>1. v # w
    BY <1>2, <1>9 DEF Sigterm, Exit, Crash, Ends, RunTypeOK
  <2>2. proc[w] = "up" /\ InHand(w)' = InHand(w)
    BY <1>2, <1>9, <2>1 DEF Sigterm, Exit, Crash, Ends, InHand, RunTypeOK
  <2>3. permits' = permits /\ working' = working
    BY <1>9 DEF Sigterm, Exit, Crash, Ends
  <2>4. CASE permits[w] > 0 \/ InHand(w)
    BY <2>2, <2>3, <2>4
  <2>5. CASE \E c \in InProgress(w) : c.task \in working[w]
    <3>1. PICK c \in InProgress(w) : c.task \in working[w]
      BY <2>5
    <3>2. c \in tickets /\ c.lease \in Lease /\ c.worker = w
      BY <3>1, TicketParts DEF InProgress
    <3>3. c.lease \notin Of(v)
      BY <2>1, <3>2 DEF Of, TicketsDiffer
    <3>4. exec'[c.lease] = exec[c.lease]
      BY <1>9, <3>2, <3>3 DEF Sigterm, Exit, Crash, Ends
    <3>5. c \in InProgress(w)'
      BY <1>1, <3>1, <3>2, <3>4 DEF InProgress
    <3>6. QED  BY <2>3, <3>1, <3>5
  <2>6. QED  BY <2>2, <2>4, <2>5 DEF NeverWedged
<1>10. ASSUME NEW c \in tickets, Deliver(c)
       PROVE  InSight(w)'
  <2>1. c.task \in Task /\ c.worker \in Worker /\ c.lease \in Lease
    BY TicketParts
  <2>2. CASE c.worker = w
    <3>1. c \in InProgress(w)'
      BY <1>1, <1>10, <2>1, <2>2 DEF Deliver, At, InProgress, RunTypeOK
    <3>2. c.task \in working'[w]
      BY <1>10, <2>1, <2>2 DEF Deliver, RunTypeOK
    <3>3. QED  BY <3>1, <3>2
  <2>3. CASE c.worker # w
    <3>1. /\ proc' = proc /\ permits' = permits
          /\ working'[w] = working[w] /\ InHand(w)' = InHand(w)
      BY <1>10, <2>1, <2>3 DEF Deliver, LoopAt, InHand, RunTypeOK
    <3>2. \A k \in Lease : exec[k] \in Going => exec'[k] \in Going
      BY <1>10, <2>1 DEF Deliver, At, RunTypeOK
    <3>3. QED  BY <1>2, <1>4, <3>1, <3>2
  <2>4. QED  BY <2>2, <2>3
<1>11. ASSUME NEW c \in tickets,
              \/ Begin(c) \/ HandlerEnds(c) \/ CompleteCall(c) \/ FailCall(c)
              \/ CompleteRaises(c) \/ FailRaises(c) \/ RenewCall(c) \/ RenewRaises(c)
       PROVE  InSight(w)'
  <2>1. /\ proc' = proc /\ permits' = permits
        /\ working' = working /\ loop' = loop
    BY <1>11 DEF Begin, HandlerEnds, CompleteCall, FailCall, CompleteRaises, FailRaises,
                 RenewCall, RenewRaises
  <2>2. exec' = exec \/ \E e \in Going : exec' = [exec EXCEPT ![c.lease] = e]
    BY <1>11 DEF Begin, HandlerEnds, CompleteCall, FailCall, CompleteRaises, FailRaises,
                 RenewCall, RenewRaises, At
  <2>3. \A k \in Lease : exec[k] \in Going => exec'[k] \in Going
    BY <2>2, TicketParts DEF RunTypeOK
  <2>4. QED  BY <1>2, <1>4, <2>1, <2>3 DEF InHand
<1>12. ASSUME NEW c \in tickets, Finish(c)
       PROVE  InSight(w)'
  <2>1. c.task \in Task /\ c.worker \in Worker /\ c.lease \in Lease
    BY TicketParts
  <2>2. proc' = proc /\ InHand(w)' = InHand(w)
    BY <1>12 DEF Finish, InHand
  <2>3. CASE c.worker = w /\ c.task \in working[w]
    <3>1. permits'[w] > 0
      BY <1>12, <2>1, <2>3 DEF Finish, Freed, RunTypeOK
    <3>2. QED  BY <3>1
  <2>4. CASE ~(c.worker = w /\ c.task \in working[w])
    <3>1. permits'[w] = permits[w] /\ working'[w] = working[w]
      BY <1>12, <2>1, <2>4 DEF Finish, Freed, RunTypeOK
    <3>2. CASE permits[w] > 0 \/ InHand(w)
      BY <2>2, <3>1, <3>2
    <3>3. CASE \E d \in InProgress(w) : d.task \in working[w]
      <4>1. PICK d \in InProgress(w) : d.task \in working[w]
        BY <3>3
      <4>2. d \in tickets /\ d.lease \in Lease /\ d.worker = w
        BY <4>1, TicketParts DEF InProgress
      <4>3. d.lease # c.lease
        BY <2>4, <4>1, <4>2 DEF TicketsDiffer
      <4>4. exec'[d.lease] = exec[d.lease]
        BY <1>12, <2>1, <4>2, <4>3 DEF Finish, At, RunTypeOK
      <4>5. d \in InProgress(w)'
        BY <1>1, <4>1, <4>2, <4>4 DEF InProgress
      <4>6. QED  BY <3>1, <4>1, <4>5
    <3>4. QED  BY <1>2, <2>2, <3>2, <3>3 DEF NeverWedged
  <2>5. QED  BY <2>3, <2>4
<1>13. QED
  BY <1>5, <1>6, <1>7, <1>8, <1>9, <1>10, <1>11, <1>12, StepKinds

(* A process uses its permits once each.                                   *)
LEMMA BoundStep ==
  ASSUME RunInv, AnyStep, TypeOK'
  PROVE  PermitsBounded'
<1> DEFINE Hand(w) == IF InHand(w) THEN 1 ELSE 0
           Going == {"new", "handler", "complete", "fail", "final"}
           Bound(w) == permits[w] + Hand(w) + Cardinality(InProgress(w)) <= Concurrency
<1> RunTypeOK /\ TypeOK /\ TicketsDiffer /\ RunTypeOK'
  BY ProcessTypes DEF RunInv, RunTypeOK
<1> IsFiniteSet(tickets)  BY DEF RunInv
<1>1. tickets \subseteq tickets' /\ IsFiniteSet(tickets')
  BY TicketsGrow
<1>2. SUFFICES ASSUME NEW w \in Worker
               PROVE  Bound(w)'
  BY DEF PermitsBounded
<1>3. Bound(w)
  BY DEF RunInv, PermitsBounded
<1>4. /\ IsFiniteSet(InProgress(w)) /\ IsFiniteSet(InProgress(w)')
      /\ Cardinality(InProgress(w)) \in Nat /\ Cardinality(InProgress(w)') \in Nat
  BY <1>1, FS_Subset, FS_CardinalityType DEF InProgress
<1>5. /\ permits[w] \in Nat /\ permits'[w] \in Nat /\ Concurrency \in Nat
      /\ Hand(w) \in 0..1 /\ Hand(w)' \in 0..1
  BY RuntimeAssumption DEF RunTypeOK
<1>6. ASSUME permits'[w] + Hand(w)' <= permits[w] + Hand(w),
             InProgress(w)' \subseteq InProgress(w)
      PROVE  Bound(w)'
  <2>1. Cardinality(InProgress(w)') <= Cardinality(InProgress(w))
    BY <1>4, <1>6, FS_Subset
  <2>2. QED  BY <1>3, <1>4, <1>5, <1>6, <2>1
<1>7. ASSUME tickets' = tickets,
             \A k \in Lease : exec'[k] \in Going => exec[k] \in Going
      PROVE  InProgress(w)' \subseteq InProgress(w)
  BY <1>7, TicketParts DEF InProgress
<1>8. ASSUME UNCHANGED tickets, UNCHANGED process
      PROVE  Bound(w)'
  <2>1. permits' = permits /\ loop' = loop /\ exec' = exec
    BY <1>8 DEF process
  <2>2. Hand(w)' = Hand(w)
    BY <2>1 DEF InHand
  <2>3. QED  BY <1>5, <1>6, <1>7, <1>8, <2>1, <2>2
<1>9. ASSUME NEW v \in Worker,
             \/ Start(v) \/ Acquire(v) \/ ClaimNothing(v) \/ Wake(v) \/ ClaimRaises(v)
             \/ Sigterm(v) \/ DrainSecond(v) \/ Exit(v) \/ Crash(v)
      PROVE  Bound(w)'
  <2>1. tickets' = tickets
    BY <1>9, ProcessTickets
  <2>2. \A k \in Lease : exec'[k] \in Going => exec[k] \in Going
    <3>1. CASE ClaimRaises(v)
      <4>1. \/ exec' = exec
            \/ \E c \in tickets : At(c.lease, "reply", "over")
        BY <3>1 DEF ClaimRaises
      <4>2. QED  BY <4>1, TicketParts DEF At, RunTypeOK
    <3>2. CASE Sigterm(v) \/ Exit(v) \/ Crash(v)
      BY <3>2 DEF Sigterm, Exit, Crash, Ends
    <3>3. QED
      BY <1>9, <3>1, <3>2 DEF Start, Acquire, ClaimNothing, Wake, DrainSecond
  <2>3. permits'[w] + Hand(w)' <= permits[w] + Hand(w)
    <3>1. CASE Start(v) \/ Wake(v) \/ DrainSecond(v)
      BY <1>5, <3>1 DEF Start, Wake, DrainSecond, LoopAt, InHand, RunTypeOK
    <3>2. CASE Acquire(v)
      BY <1>5, <3>2 DEF Acquire, LoopAt, InHand, RunTypeOK
    <3>3. CASE ClaimNothing(v) \/ ClaimRaises(v)
      <4>1. /\ InHand(v) /\ loop' = [loop EXCEPT ![v] = "sleep"]
            /\ permits' = [permits EXCEPT ![v] = @ + 1]
        BY <3>3 DEF ClaimNothing, ClaimRaises, LoopAt, GivenBack, InHand
      <4>2. QED  BY <1>5, <4>1 DEF InHand, RunTypeOK
    <3>4. CASE Sigterm(v) \/ Exit(v) \/ Crash(v)
      <4>1. permits' = permits /\ loop' = [loop EXCEPT ![v] = "stopped"]
        BY <3>4 DEF Sigterm, Exit, Crash, Ends
      <4>2. InHand(w)' => InHand(w)
        BY <4>1 DEF InHand, RunTypeOK
      <4>3. QED  BY <1>5, <4>1, <4>2
    <3>5. QED  BY <1>9, <3>1, <3>2, <3>3, <3>4
  <2>4. QED  BY <1>6, <1>7, <2>1, <2>2, <2>3
<1>10. ASSUME NEW v \in Worker, NEW l \in Lease, ClaimTask(v, l) \/ GhostClaim(v, l)
       PROVE  Bound(w)'
  <2>1. Claim(v, l)
    BY <1>10 DEF ClaimTask, GhostClaim
  <2>2. PICK t \in Task : tickets' = tickets \cup {[task |-> t, worker |-> v, lease |-> l]}
    BY <2>1, TicketAdded
  <2>3. exec'[l] \notin Going /\ \A k \in Lease : exec'[k] \in Going => exec[k] \in Going
    BY <1>10 DEF ClaimTask, GhostClaim, At, RunTypeOK
  <2>4. InProgress(w)' \subseteq InProgress(w)
    BY <2>2, <2>3, TicketParts DEF InProgress
  <2>5. permits' = permits
    BY <1>10 DEF ClaimTask, GhostClaim
  <2>6. InHand(w)' = InHand(w)
    BY <1>10 DEF ClaimTask, GhostClaim, LoopAt, InHand, RunTypeOK
  <2>7. QED  BY <1>5, <1>6, <2>4, <2>5, <2>6
<1>11. ASSUME NEW c \in tickets, Deliver(c)
       PROVE  Bound(w)'
  <2>1. c.worker \in Worker /\ c.lease \in Lease /\ tickets' = tickets
    BY <1>11, TicketParts, ProcessTickets
  <2>2. /\ permits' = permits /\ exec[c.lease] = "reply"
        /\ loop[c.worker] = "reply" /\ loop' = [loop EXCEPT ![c.worker] = "acquire"]
        /\ \A k \in Lease : exec'[k] = IF k = c.lease THEN "new" ELSE exec[k]
    BY <1>11, <2>1 DEF Deliver, LoopAt, At, RunTypeOK
  <2>3. CASE c.worker = w
    <3>1. Hand(w) = 1 /\ Hand(w)' = 0
      BY <2>1, <2>2, <2>3 DEF InHand, RunTypeOK
    <3>2. InProgress(w)' \subseteq InProgress(w) \cup {c}
      BY <2>1, <2>2, TicketParts DEF InProgress, TicketsDiffer
    <3>3. Cardinality(InProgress(w)') <= Cardinality(InProgress(w)) + 1
      <4>1. /\ IsFiniteSet(InProgress(w) \cup {c})
            /\ Cardinality(InProgress(w) \cup {c}) <= Cardinality(InProgress(w)) + 1
        <5> DEFINE S == InProgress(w)
        <5> IsFiniteSet(S) /\ Cardinality(S) \in Nat  BY <1>4
        <5> HIDE DEF S
        <5>1. /\ IsFiniteSet(S \cup {c})
              /\ Cardinality(S \cup {c})
                   = IF c \in S THEN Cardinality(S) ELSE Cardinality(S) + 1
          BY FS_AddElement
        <5>2. Cardinality(S \cup {c}) <= Cardinality(S) + 1
          BY <5>1
        <5>3. QED  BY <5>1, <5>2 DEF S
      <4>2. /\ Cardinality(InProgress(w)') <= Cardinality(InProgress(w) \cup {c})
            /\ Cardinality(InProgress(w) \cup {c}) \in Nat
        BY <3>2, <4>1, FS_Subset, FS_CardinalityType
      <4>3. QED  BY <1>4, <4>1, <4>2
    <3>4. QED  BY <1>3, <1>4, <1>5, <2>2, <3>1, <3>3
  <2>4. CASE c.worker # w
    <3>1. InHand(w)' = InHand(w)
      BY <2>1, <2>2, <2>4 DEF InHand, RunTypeOK
    <3>2. InProgress(w)' \subseteq InProgress(w)
      BY <2>1, <2>2, <2>4, TicketParts DEF InProgress, TicketsDiffer
    <3>3. QED  BY <1>5, <1>6, <2>2, <3>1, <3>2
  <2>5. QED  BY <2>3, <2>4
<1>12. ASSUME NEW c \in tickets,
              \/ Begin(c) \/ HandlerEnds(c) \/ CompleteCall(c) \/ FailCall(c)
              \/ CompleteRaises(c) \/ FailRaises(c) \/ RenewCall(c) \/ RenewRaises(c)
       PROVE  Bound(w)'
  <2>1. tickets' = tickets /\ c.lease \in Lease
    BY <1>12, ProcessTickets, TicketParts
  <2>2. permits' = permits /\ loop' = loop
    BY <1>12 DEF Begin, HandlerEnds, CompleteCall, FailCall, CompleteRaises, FailRaises,
                 RenewCall, RenewRaises
  <2>3. \A k \in Lease : exec'[k] \in Going => exec[k] \in Going
    <3>1. CASE RenewCall(c) \/ RenewRaises(c)
      BY <3>1 DEF RenewCall, RenewRaises
    <3>2. CASE exec[c.lease] \in Going /\ \E e : exec' = [exec EXCEPT ![c.lease] = e]
      BY <2>1, <3>2 DEF RunTypeOK
    <3>3. QED
      BY <1>12, <3>1, <3>2
      DEF Begin, HandlerEnds, CompleteCall, FailCall, CompleteRaises, FailRaises, At
  <2>4. InHand(w)' = InHand(w)
    BY <2>2 DEF InHand
  <2>5. QED  BY <1>5, <1>6, <1>7, <2>1, <2>2, <2>3, <2>4
<1>13. ASSUME NEW c \in tickets, Finish(c)
       PROVE  Bound(w)'
  <2>1. c.worker \in Worker /\ c.lease \in Lease /\ tickets' = tickets
    BY <1>13, TicketParts, ProcessTickets
  <2>2. /\ loop' = loop /\ exec[c.lease] = "final"
        /\ \A k \in Lease : exec'[k] = IF k = c.lease THEN "over" ELSE exec[k]
    BY <1>13, <2>1 DEF Finish, At, RunTypeOK
  <2>3. Hand(w)' = Hand(w)
    BY <2>2 DEF InHand
  <2>4. InProgress(w)' \subseteq InProgress(w) \ {c}
    BY <2>1, <2>2, TicketParts DEF InProgress
  <2>5. CASE c.worker = w
    <3>1. c \in InProgress(w)
      BY <2>1, <2>2, <2>5 DEF InProgress
    <3>2. Cardinality(InProgress(w)') <= Cardinality(InProgress(w)) - 1
      <4>1. /\ IsFiniteSet(InProgress(w) \ {c})
            /\ Cardinality(InProgress(w) \ {c}) = Cardinality(InProgress(w)) - 1
        BY <1>4, <3>1, FS_RemoveElement
      <4>2. QED  BY <2>4, <4>1, FS_Subset
    <3>3. permits'[w] <= permits[w] + 1
      BY <1>5, <1>13, <2>1, <2>5 DEF Finish, Freed, RunTypeOK
    <3>4. QED  BY <1>3, <1>4, <1>5, <2>3, <3>2, <3>3
  <2>6. CASE c.worker # w
    <3>1. permits'[w] = permits[w]
      BY <1>13, <2>1, <2>6 DEF Finish, Freed, RunTypeOK
    <3>2. QED  BY <1>5, <1>6, <2>3, <2>4, <3>1
  <2>7. QED  BY <2>5, <2>6
<1>14. QED
  BY <1>8, <1>9, <1>10, <1>11, <1>12, <1>13, StepKinds

-----------------------------------------------------------------------------
(* The invariant, from the start and kept by every step.                   *)
LEMMA RunInvInit == RunInit => RunInv
<1> SUFFICES ASSUME RunInit
             PROVE  RunInv
  OBVIOUS
<1>1. TypeOK /\ TicketsDiffer
  BY InitInv DEF RunInit, QueueInv
<1>2. tickets = {} /\ IsFiniteSet(tickets)
  BY FS_EmptySet DEF RunInit, Init
<1>3. RunTypeOK
  BY <1>1, RuntimeAssumption DEF RunInit, RunTypeOK
<1>4. Untouched /\ NeverWedged /\ NoOrphanRenewal
  BY DEF RunInit, Untouched, NeverWedged, NoOrphanRenewal
<1>5. PermitsBounded
  <2>1. ASSUME NEW w \in Worker
        PROVE  permits[w] + (IF InHand(w) THEN 1 ELSE 0) + Cardinality(InProgress(w))
                 <= Concurrency
    <3>1. InProgress(w) = {} /\ ~InHand(w) /\ permits[w] = Concurrency
      BY <1>2, <2>1 DEF RunInit, InProgress, InHand
    <3>2. Cardinality(InProgress(w)) = 0
      BY <3>1, FS_EmptySet
    <3>3. QED  BY <3>1, <3>2, RuntimeAssumption
  <2>2. QED  BY <2>1 DEF PermitsBounded
<1>6. QED  BY <1>1, <1>2, <1>3, <1>4, <1>5 DEF RunInv

(* Every step that keeps the keyspace well typed keeps the invariant.      *)
LEMMA RunInvStep == RunInv /\ AnyStep /\ TypeOK' => RunInv'
<1> SUFFICES ASSUME RunInv, AnyStep, TypeOK'
             PROVE  RunInv'
  OBVIOUS
<1>1. RunTypeOK'
  BY ProcessTypes
<1>2. IsFiniteSet(tickets')
  BY TicketsGrow DEF RunInv, RunTypeOK
<1>3. QED
  BY <1>1, <1>2, TicketsApart, UntouchedStep, BoundStep, WedgeStep, NoOrphanStep
  DEF RunInv

(* With requests in flight the keyspace is still one of TaskApi: each step *)
(* is a step of a script, of a request, or leaves the keyspace alone.      *)
THEOREM RuntimeIsApi == DepSpec => ApiSpec
<1>1. DepInit => ApiInit
  BY DEF DepInit
<1>2. [DepNext]_depVars => [ApiNext]_apiVars
  <2> SUFFICES ASSUME [DepNext]_depVars
               PROVE  [ApiNext]_apiVars
    OBVIOUS
  <2>1. CASE RunNext /\ UNCHANGED req
    <3>1. [Next]_vars
      BY <2>1, StepOfRuntime
    <3>2. QED  BY <2>1, <3>1 DEF ApiNext, apiVars, vars
  <2>2. CASE Requests
    BY <2>2 DEF ApiNext
  <2>3. CASE UNCHANGED depVars
    BY <2>3 DEF depVars, runVars, apiVars
  <2>4. QED  BY <2>1, <2>2, <2>3 DEF DepNext
<1>3. QED  BY <1>1, <1>2, PTL DEF DepSpec, ApiSpec

(* Whatever workers and requests do, the processes' own books are in the   *)
(* states RunInv describes.                                                *)
THEOREM RuntimeInvariant == DepSpec => []RunInv
<1>1. DepInit => RunInv
  BY RunInvInit DEF DepInit
<1>2. RunInv /\ TypeOK' /\ [DepNext]_depVars => RunInv'
  <2>1. [DepNext]_depVars => AnyStep
    BY DEF DepNext, depVars, AnyStep
  <2>2. QED  BY <2>1, RunInvStep
<1>3. ApiSpec => []TypeOK
  <2>1. ApiTypeOK => TypeOK
    BY DEF ApiTypeOK
  <2>2. QED  BY <2>1, ApiTypes, PTL
<1>4. QED  BY <1>1, <1>2, <1>3, RuntimeIsApi, PTL DEF DepSpec

(* The types of the keyspace and of the processes, however calls raise.    *)
THEOREM RuntimeTypes == DepSpec => []RunTypeOK
<1>1. RunInv => RunTypeOK
  BY DEF RunInv
<1>2. QED  BY <1>1, RuntimeInvariant, PTL

(* A process never executes more than its semaphore admits, not even when  *)
(* calls raise or two executions of one task end in it: see                *)
(* PermitsBounded.                                                         *)
THEOREM ConcurrencyBounded == DepSpec => []PermitsBounded
<1>1. RunInv => PermitsBounded
  BY DEF RunInv
<1>2. QED  BY <1>1, RuntimeInvariant, PTL

(* The permits the finally block loses are never all of them: see          *)
(* NeverWedged.                                                            *)
THEOREM ClaimsGoOn == DepSpec => []NeverWedged
<1>1. RunInv => NeverWedged
  BY DEF RunInv
<1>2. QED  BY <1>1, RuntimeInvariant, PTL

(* No renewal loop outlives its execution: see NoOrphanRenewal.            *)
THEOREM RenewalsEnd == DepSpec => []NoOrphanRenewal
<1>1. RunInv => NoOrphanRenewal
  BY DEF RunInv
<1>2. QED  BY <1>1, RuntimeInvariant, PTL

(* The runtime is a client of the queue and nothing more: each of its      *)
(* steps is a step of TaskQueue or leaves the keyspace alone, so all that  *)
(* is proved of the queue is true of the queue its workers use.            *)
THEOREM RuntimeIsQueue == RunSpec => Spec
<1>1. RunInit => Init
  BY DEF RunInit
<1>2. QED  BY <1>1, StepOfRuntime, PTL DEF RunSpec, Spec

(* So the workers' executions of a task are fenced: see FencedTask.        *)
THEOREM RuntimeIsFenced == RunSpec => ImplementsFencedTask
<1>1. QED  BY RuntimeIsQueue, QueueIsFenced, PTL

(* With workers that crash, drain, lose replies and raise, the counters,   *)
(* the retry budget, the places and the ends of tasks hold, statuses move  *)
(* as the scripts move them, and only a recovery or a promotion takes a    *)
(* task out of everybody's sight: see MetricsAgree, RetryBudget,           *)
(* SinglePlace, OthersFound, TerminalFinal, AlongScriptMoves and           *)
(* OnlyRecoveryLoses.                                                      *)
THEOREM RuntimeKeepsBooks ==
  RunSpec => /\ [](SinglePlace /\ RetryBudget /\ MetricsAgree /\ OthersFound)
             /\ TerminalFinal /\ AlongScriptMoves /\ OnlyRecoveryLoses
<1>1. QED
  BY RuntimeIsQueue, OnePlace, RetriesBounded, CountersAgree, EndedStaysEnded,
     FollowsLifecycle, LossesAreRecoveries, OnlyQueuedAreLost, PTL

(* An execution that another has superseded reports in vain, even when it  *)
(* was a request that put the task back: see FencedTask.                   *)
THEOREM SupersededReportsRefused == DepSpec => []Fenced!OneTask /\ Fenced!NeverAgain
<1>1. QED  BY ReplacedReportsRefused, RuntimeIsApi, PTL
=============================================================================

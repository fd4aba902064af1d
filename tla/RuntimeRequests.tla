-------------------------- MODULE RuntimeRequests --------------------------
(***************************************************************************)
(* WorkerRuntime with the requests of TaskApi in flight.  They meet in the *)
(* keyspace only.  As the services call the scripts, a task that was       *)
(* claimed once gets back into the queue in one way: somebody retries it   *)
(* by hand after it went to the dead-letter list.  That may be before the  *)
(* execution that sent it there has cleaned up after itself.               *)
(***************************************************************************)
EXTENDS WorkerRuntime, TaskApi

depVars == <<runVars, req>>

DepInit == RunInit /\ ApiInit

DepNext ==
  \/ RunNext /\ UNCHANGED req
  \/ Requests /\ UNCHANGED process

DepSpec == DepInit /\ [][DepNext]_depVars

(* The event loop runs every coroutine that can run, handlers end, Redis   *)
(* answers, and a lease nobody renews runs out.  A request may stop        *)
(* half-way.                                                               *)
DepFairness ==
  /\ \A w \in Worker : WF_depVars(LoopStep(w) /\ UNCHANGED req)
  /\ \A l \in Lease :
       WF_depVars((\E c \in tickets : c.lease = l /\ ExecStep(c)) /\ UNCHANGED req)
  /\ \A t \in Task :
       WF_depVars(Unrenewed(t) /\ LeaseTick(t) /\ UNCHANGED <<process, req>>)

FairDepSpec == DepSpec /\ DepFairness
=============================================================================

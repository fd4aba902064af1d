----------------------------- MODULE FencedTask -----------------------------
(***************************************************************************)
(* What the queue promises about one execution of a task, whatever its     *)
(* data structures: a task is worked on under a token that was never used  *)
(* before, the token on record alone can end the execution, a token that   *)
(* lapsed or was revoked can end nothing, and an ended task stays ended.   *)
(***************************************************************************)
CONSTANTS Task, Token, NoToken

VARIABLES
  phase,  \* "absent", "waiting", "held" or "done"
  token,  \* the token that may end the execution of a held task
  spent   \* the tokens handed out so far

vars == <<phase, token, spent>>

Init ==
  /\ phase = [t \in Task |-> "absent"]
  /\ token = [t \in Task |-> NoToken]
  /\ spent = {}

(* Move t to phase p with the token k on record.                           *)
Put(t, p, k) ==
  /\ phase' = [phase EXCEPT ![t] = p]
  /\ token' = [token EXCEPT ![t] = k]

Accept(t) ==
  /\ phase[t] = "absent"
  /\ Put(t, "waiting", NoToken)
  /\ UNCHANGED spent

Start(t, k) ==
  /\ phase[t] = "waiting"
  /\ k \notin spent
  /\ Put(t, "held", k)
  /\ spent' = spent \cup {k}

(* The holder of the token ends the execution: for good, or for a retry.   *)
Settle(t, k) ==
  /\ phase[t] = "held"
  /\ token[t] = k
  /\ Put(t, "done", NoToken) \/ Put(t, "waiting", NoToken)
  /\ UNCHANGED spent

(* The token expires; the task is still held, by nobody who could end it.  *)
Lapse(t) ==
  /\ phase[t] = "held"
  /\ Put(t, "held", NoToken)
  /\ UNCHANGED spent

(* The task is taken back from its holder, live or not.                    *)
Reclaim(t) ==
  /\ phase[t] = "held"
  /\ Put(t, "waiting", NoToken)
  /\ UNCHANGED spent

Next ==
  \E t \in Task :
    \/ Accept(t) \/ Lapse(t) \/ Reclaim(t)
    \/ \E k \in Token : Start(t, k) \/ Settle(t, k)

Spec == Init /\ [][Next]_vars

-----------------------------------------------------------------------------
(* What this promises about tokens.                                        *)

(* At any time a token that was handed out, and no other, may end the      *)
(* execution of one task at most.                                          *)
OneTask ==
  /\ spent \subseteq Token
  /\ token \in [Task -> spent \cup {NoToken}]
  /\ \A t, u \in Task : token[t] = token[u] /\ token[t] # NoToken => t = u

(* A token that is off the record of a task, having ended an execution,    *)
(* lapsed or been revoked, never comes back to end another.                *)
NeverAgain ==
  [][\A t \in Task, k \in spent : token[t] # k => token'[t] # k]_vars
=============================================================================

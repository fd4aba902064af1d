--------------------------- MODULE PriorityScore ---------------------------
(***************************************************************************)
(* The score under which a task sits in the sorted set ts:queue:priority.  *)
(*                                                                         *)
(* Every script that queues a task computes                                *)
(*     score = priority * 100000000000000 + seq                            *)
(* with seq a fresh value of the counter ts:queue:sequence, and hands      *)
(* tostring(score) to ZADD.  Redis runs Lua 5.1, whose tostring keeps 14   *)
(* significant digits ("%.14g"): the sum has 15 digits for the priorities  *)
(* 1..9 and 16 for priority 10, so the stored score is the sum rounded to  *)
(* a multiple of 10 or of 100.                                             *)
(***************************************************************************)
EXTENDS Integers

CONSTANTS
  Unit   \* the multiplier of the priority (1e14 in the scripts)

ASSUME UnitAssumption == Unit \in Nat /\ Unit >= 100

(* What "%.14g" loses of the score of a task of priority p.                *)
Grain(p) == IF p < 10 THEN 10 ELSE 100

(* The multiple of g nearest to n; a tie goes to the even multiple.        *)
RoundTo(n, g) ==
  LET q == n \div g
      r == n % g
  IN  IF 2 * r > g \/ (2 * r = g /\ q % 2 = 1) THEN (q + 1) * g ELSE q * g

(* The score of a task of priority p that drew the sequence number s.      *)
Score_Inverted(p, s) == s - p * Unit
Score_Newest(p, s) == RoundTo(p * Unit - s, Grain(p))
Score(p, s) == RoundTo(p * Unit + s, Grain(p))

(* The priority level a score is read back as (math.floor(score / 1e14)).  *)
Level(score) == score \div Unit
=============================================================================

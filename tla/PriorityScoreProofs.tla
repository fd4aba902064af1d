------------------------ MODULE PriorityScoreProofs ------------------------
(***************************************************************************)
(* What rounding does to the scores, for every multiplier, priority and    *)
(* sequence number.                                                        *)
(***************************************************************************)
EXTENDS PriorityScore, TLAPS

(* Rounding to tens or hundreds stays on the grid, within half a step.     *)
LEMMA RoundToNear ==
  ASSUME NEW n \in Nat, NEW g \in {10, 100}
  PROVE  /\ RoundTo(n, g) \in Nat
         /\ 2 * RoundTo(n, g) <= 2 * n + g
         /\ 2 * n <= 2 * RoundTo(n, g) + g
<1>1. CASE g = 10
  <2>1. /\ n \div 10 \in Nat /\ n % 10 \in 0..9
        /\ n = 10 * (n \div 10) + (n % 10)
    BY SMT
  <2>2. QED  BY <1>1, <2>1 DEF RoundTo
<1>2. CASE g = 100
  <2>1. /\ n \div 100 \in Nat /\ n % 100 \in 0..99
        /\ n = 100 * (n \div 100) + (n % 100)
    BY SMT
  <2>2. QED  BY <1>2, <2>1 DEF RoundTo
<1>3. QED  BY <1>1, <1>2

(* Rounding keeps the order, though not strictly: a later sequence number  *)
(* never gives a lower score.                                              *)
LEMMA RoundToMonotone ==
  ASSUME NEW m \in Nat, NEW n \in Nat, NEW g \in {10, 100}, m <= n
  PROVE  RoundTo(m, g) <= RoundTo(n, g)
<1>1. CASE g = 10
  <2>1. /\ m \div 10 \in Nat /\ m % 10 \in 0..9
        /\ m = 10 * (m \div 10) + (m % 10)
    BY SMT
  <2>2. /\ n \div 10 \in Nat /\ n % 10 \in 0..9
        /\ n = 10 * (n \div 10) + (n % 10)
    BY SMT
  <2>3. m \div 10 <= n \div 10
    BY <2>1, <2>2
  <2>4. CASE m \div 10 = n \div 10
    BY <1>1, <2>1, <2>2, <2>4 DEF RoundTo
  <2>5. CASE m \div 10 < n \div 10
    BY <1>1, <2>1, <2>2, <2>5 DEF RoundTo
  <2>6. QED  BY <2>1, <2>2, <2>3, <2>4, <2>5
<1>2. CASE g = 100
  <2>1. /\ m \div 100 \in Nat /\ m % 100 \in 0..99
        /\ m = 100 * (m \div 100) + (m % 100)
    BY SMT
  <2>2. /\ n \div 100 \in Nat /\ n % 100 \in 0..99
        /\ n = 100 * (n \div 100) + (n % 100)
    BY SMT
  <2>3. m \div 100 <= n \div 100
    BY <2>1, <2>2
  <2>4. CASE m \div 100 = n \div 100
    BY <1>2, <2>1, <2>2, <2>4 DEF RoundTo
  <2>5. CASE m \div 100 < n \div 100
    BY <1>2, <2>1, <2>2, <2>5 DEF RoundTo
  <2>6. QED  BY <2>1, <2>2, <2>3, <2>4, <2>5
<1>3. QED  BY <1>1, <1>2

-----------------------------------------------------------------------------
(* What rounding rounds to.                                                *)
LEMMA GrainType == ASSUME NEW p PROVE Grain(p) \in {10, 100}
BY DEF Grain

(* The exact score is a number of at least one level.                      *)
LEMMA ScaledType ==
  ASSUME NEW p \in 1..10, NEW s \in Nat
  PROVE  p * Unit + s \in Nat /\ p * Unit + s >= Unit
<1>1. Unit \in Nat  BY UnitAssumption
<1>2. p * Unit >= Unit
  BY <1>1, Z3
<1>3. QED  BY <1>1, <1>2, Z3

(* A score is never zero: a queued task is a member of the sorted set.     *)
THEOREM ScoreType ==
  ASSUME NEW p \in 1..10, NEW s \in Nat
  PROVE  Score(p, s) \in Nat \ {0}
<1>1. p * Unit + s \in Nat /\ p * Unit + s >= 100
  BY ScaledType, UnitAssumption
<1>2. /\ Score(p, s) \in Nat
      /\ 2 * (p * Unit + s) <= 2 * Score(p, s) + Grain(p)
  BY <1>1, GrainType, RoundToNear DEF Score
<1>3. Score(p, s) > 0
  BY <1>1, <1>2, GrainType
<1>4. QED  BY <1>2, <1>3

(* First come, first served up to ties, and better priority first: a later *)
(* sequence number at the same or a worse priority never gets the lower    *)
(* score, however far the counter has run.                                 *)
THEOREM ScoreMonotone ==
  ASSUME NEW p \in 1..10, NEW q \in 1..10, NEW r \in Nat, NEW s \in Nat,
         p <= q, r <= s
  PROVE  Score(p, r) <= Score(q, s)
<1>1. p * Unit + r \in Nat /\ q * Unit + s \in Nat
  BY ScaledType
<1>2. CASE p = q
  <2>1. p * Unit + r <= p * Unit + s
    BY UnitAssumption, Z3
  <2>2. QED  BY <1>1, <1>2, <2>1, GrainType, RoundToMonotone DEF Score
<1>3. CASE p < q
  <2>1. p * Unit + r + Unit <= q * Unit + s
    BY <1>3, UnitAssumption, Z3
  <2>2. p * Unit + r + 100 <= q * Unit + s
    BY <1>1, <2>1, UnitAssumption
  <2>3. /\ Score(p, r) \in Nat
        /\ 2 * Score(p, r) <= 2 * (p * Unit + r) + Grain(p)
    BY <1>1, GrainType, RoundToNear DEF Score
  <2>4. /\ Score(q, s) \in Nat
        /\ 2 * (q * Unit + s) <= 2 * Score(q, s) + Grain(q)
    BY <1>1, GrainType, RoundToNear DEF Score
  <2>5. QED  BY <1>1, <2>2, <2>3, <2>4, GrainType
<1>4. QED  BY <1>2, <1>3

(* A score above level 1 can lose a level and stays a score: aging never   *)
(* drives one to zero.                                                     *)
LEMMA AgedScore ==
  ASSUME NEW n \in Nat, Level(n) > 1
  PROVE  n - Unit \in Nat \ {0} /\ n - Unit <= n
<1>1. n \div Unit >= 2 /\ Unit \in Nat /\ Unit >= 100
  BY UnitAssumption DEF Level
<1>2. n >= 2 * Unit
  BY <1>1, Z3
<1>3. QED  BY <1>1, <1>2
=============================================================================

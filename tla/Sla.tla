-------------------------------- MODULE Sla --------------------------------
(***************************************************************************)
(* The arithmetic of the standings: penalties, multipliers and weights     *)
(* (scoring_engine/sla.py), ranks (the web views and the models) and the   *)
(* points of a line chart (web/views/api/scoreboard.py).  A configuration  *)
(* is a record with the fields of SLAConfig.                               *)
(*                                                                         *)
(* A multiplier or weight is a float in the code, and here a decimal: a    *)
(* whole number of parts of size 1/Unit.  A product of floats may lie just *)
(* beside the exact one, which matters where that is whole, before it is   *)
(* truncated (int(25 * 4.6) is 114), and where it is a half, before it is  *)
(* rounded.  Which products do is a fact of floating point and given by    *)
(* constants.                                                              *)
(***************************************************************************)
EXTENDS Integers, Sequences, FiniteSets, FiniteSetsExt

CONSTANTS
  Unit,          \* how many parts 1.0 has
  FallsShort,    \* the <<x, parts, whole>> whose x * (parts / whole) lies just below,
  Exceeds        \* and just above, the exact product

ASSUME UnitAssumption == Unit \in Nat \ {0}

\* Nothing is lost where parts / whole is a whole number.
ASSUME FloatAssumption ==
  /\ FallsShort \cup Exceeds \subseteq Nat \X Nat \X Nat
  /\ \A f \in FallsShort \cup Exceeds : f[1] > 0 /\ f[3] > 0 /\ f[2] % f[3] # 0

Modes == {"additive", "flat", "exponential", "next_check_reduction"}

SLAConfig ==
  [sla_enabled : BOOLEAN, allow_negative : BOOLEAN, penalty_mode : Modes,
   penalty_threshold : Nat \ {0}, penalty_percent : Nat \ {0},
   penalty_max_percent : Nat \ {0},
   dynamic_enabled : BOOLEAN, early_rounds : Nat \ {0}, early_multiplier : Nat \ {0},
   late_start_round : Nat \ {0}, late_multiplier : Nat \ {0},
   weighted_scoring_enabled : BOOLEAN,
   service_weight : Nat, inject_weight : Nat, flag_weight : Nat]

AtMost(x, bound) == IF x <= bound THEN x ELSE bound
NotNegative(x)   == IF x >= 0 THEN x ELSE 0

-----------------------------------------------------------------------------
(* calculate_sla_penalty_percent *)

\* A streak of n failures, by mode.
ModePenalty(n, c) ==
  LET over == n - c.penalty_threshold
  IN  CASE c.penalty_mode = "flat"        -> over * c.penalty_percent
        [] c.penalty_mode = "exponential" -> c.penalty_percent * 2^over
        [] c.penalty_mode = "next_check_reduction" ->
             AtMost((over + 1) * c.penalty_percent, c.penalty_max_percent)
        [] OTHER -> (over + 1) * c.penalty_percent

Capped(penalty, c) ==
  IF c.allow_negative THEN penalty ELSE AtMost(penalty, c.penalty_max_percent)

PenaltyPercent(n, c) ==
  IF c.sla_enabled /\ n >= c.penalty_threshold THEN Capped(ModePenalty(n, c), c) ELSE 0

\* int(), which truncates towards zero.
Truncated(a, b) == IF a >= 0 THEN a \div b ELSE -((-a) \div b)

\* int(x * (parts / whole)): a whole product that falls short loses one.
IntProduct(x, parts, whole) ==
  LET short == (x * parts) % whole = 0 /\ <<x, parts, whole>> \in FallsShort
  IN  Truncated(x * parts, whole) - (IF short THEN 1 ELSE 0)

\* int(base * (percent / 100))
PercentOf(base, percent) == IntProduct(base, percent, 100)

\* What a base is worth after a penalty.
Adjusted(base, penalty, c) ==
  IF c.allow_negative THEN base - penalty ELSE NotNegative(base - penalty)

-----------------------------------------------------------------------------
(* Dynamic scoring and weights *)

\* calculate_round_multiplier: where the phases overlap, early wins.
Multiplier(number, c) ==
  IF ~c.dynamic_enabled THEN Unit
  ELSE IF number <= c.early_rounds THEN c.early_multiplier
  ELSE IF number >= c.late_start_round THEN c.late_multiplier
  ELSE Unit

\* apply_dynamic_scoring_to_round: int() of the product.
Scaled(points, number, c) == IntProduct(points, Multiplier(number, c), Unit)

\* The phase the dynamic-scoring page names, whether or not it applies.
Phase(number, c) ==
  IF number <= c.early_rounds THEN "early"
  ELSE IF number >= c.late_start_round THEN "late" ELSE "normal"

\* Python's round() of a/b: the nearest whole number, ties to the even one.
RoundHalfEven(a, b) ==
  LET down == a \div b
      rest == 2 * (a % b)
  IN  IF rest > b \/ (rest = b /\ down % 2 = 1) THEN down + 1 ELSE down

\* int(round(x * (parts / whole))): a half that is not met exactly is no tie.
RoundProduct(x, parts, whole) ==
  LET half == 2 * ((x * parts) % whole) = whole
      down == (x * parts) \div whole
  IN  CASE half /\ <<x, parts, whole>> \in FallsShort -> down
        [] half /\ <<x, parts, whole>> \in Exceeds -> down + 1
        [] OTHER -> RoundHalfEven(x * parts, whole)

Weighted(score, weight, c) ==
  IF c.weighted_scoring_enabled THEN RoundProduct(score, weight, Unit) ELSE score

-----------------------------------------------------------------------------
(* Ranks *)

\* The (id, score) pairs of a dict, best first; equal scores in either order.
Sorted(score, order) ==
  /\ order \in [1..Cardinality(DOMAIN score) -> DOMAIN score]
  /\ \A i, j \in DOMAIN order :
       i < j => order[i] # order[j] /\ score[order[i]] >= score[order[j]]

\* Mutant: equal scores have different ranks.
RunningRankUntied(score, order) == [i \in DOMAIN order |-> i]

\* The rank in effect at each place of the list.
RunningRank(score, order) ==
  LET rank[i \in DOMAIN order] ==
        IF i = 1 THEN 1
        ELSE IF score[order[i]] < score[order[i - 1]] THEN i ELSE rank[i - 1]
  IN  rank

\* The list sorted() makes.
SomeOrder(score) ==
  CHOOSE order \in [1..Cardinality(DOMAIN score) -> DOMAIN score] : Sorted(score, order)

\* calculate_ranks
Ranks(score) ==
  LET order == SomeOrder(score)
      rank  == RunningRank(score, order)
  IN  [x \in DOMAIN score |-> rank[CHOOSE i \in DOMAIN order : order[i] = x]]

\* What is meant: one more than those who are strictly better.
Place(score, x) == 1 + Cardinality({y \in DOMAIN score : score[y] > score[x]})

-----------------------------------------------------------------------------
(* The sampled rounds of a line chart *)

\* Mutant: the step is too short.
SampleShort(n, points) ==
  IF n <= points THEN 0..(n - 1) ELSE {(i * (n - 1)) \div points : i \in 0..(points - 1)}

\* _downsample_indices(n, points): evenly spaced, each rounded.
Sample(n, points) ==
  IF n <= points THEN 0..(n - 1)
  ELSE LET evenly == {RoundHalfEven(i * (n - 1), points - 1) : i \in 0..(points - 1)}
       IN  IF Max(evenly) = n - 1 THEN evenly ELSE evenly \cup {n - 1}

=============================================================================

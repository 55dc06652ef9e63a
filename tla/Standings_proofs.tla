--------------------------- MODULE Standings_proofs ---------------------------
(***************************************************************************)
(* Proofs about the standings, for every set of services and teams, every  *)
(* configuration and every limit.                                          *)
(*                                                                         *)
(* The invariant says what the tables hold: a check of a service in a      *)
(* round at most, scores that are those of the checks, and counts of       *)
(* failures that are those of the checks.  What the pages show then agrees *)
(* because a sum may be taken by service, by round, by phase or by row.    *)
(***************************************************************************)
EXTENDS ScorePages, Sums, TLAPS

-----------------------------------------------------------------------------
(* Arithmetic *)

\* A whole quotient and its rest.
LEMMA QuotientBounds ==
  ASSUME NEW a \in Int, NEW b \in Nat \ {0}
  PROVE  /\ a \div b \in Int /\ a % b \in 0..(b - 1) /\ a = b * (a \div b) + (a % b)
  OBVIOUS

\* There is only one such quotient and rest.
LEMMA Quotient ==
  ASSUME NEW a \in Int, NEW b \in Nat \ {0}, NEW q \in Int, NEW r \in 0..(b - 1), a = q * b + r
  PROVE  a \div b = q /\ a % b = r
  OBVIOUS

\* Nothing is rounded if the division leaves no rest.
LEMMA RoundedWhole ==
  ASSUME NEW q \in Int, NEW b \in Nat \ {0}
  PROVE  RoundHalfEven(q * b, b) = q
  <1>1. (q * b) \div b = q /\ (q * b) % b = 0
    BY q * b \in Int, q * b = q * b + 0, 0 \in 0..(b-1), Quotient
  <1> QED
    BY <1>1 DEF RoundHalfEven

\* A quotient that is at most m is rounded to at most m.
LEMMA RoundedWithin ==
  ASSUME NEW m \in Int, NEW b \in Nat \ {0}, NEW a \in Nat, a <= m * b
  PROVE  RoundHalfEven(a, b) \in 0..m
  <1> DEFINE q == a \div b
             r == a % b
  <1>1. q \in Int /\ r \in 0..(b - 1) /\ a = b * q + r
    BY QuotientBounds
  <1> HIDE DEF q, r
  <1>2. 0 <= q
    <2>1. CASE q < 0
      <3>1. b * q <= -b
        BY <1>1, <2>1
      <3> QED
        BY <3>1, <1>1
    <2> QED
      BY <2>1, <1>1
  <1>3. q < m \/ (q = m /\ r = 0)
    <2>1. CASE q > m
      <3>1. b * q >= b * m + b
        BY <2>1, <1>1
      <3> QED
        BY <3>1, <1>1
    <2>2. CASE q = m
      BY <2>2, <1>1
    <2> QED
      BY <2>1, <2>2, <1>1
  <1>4. RoundHalfEven(a, b) = IF 2 * r > b \/ (2 * r = b /\ q % 2 = 1) THEN q + 1 ELSE q
    BY DEF RoundHalfEven, q, r
  <1> QED
    BY <1>1, <1>2, <1>3, <1>4

\* The product of floats, truncated: the exact quotient, or one less if it
\* falls short of a whole number.
LEMMA IntProductIs ==
  ASSUME NEW x \in Nat, NEW parts \in Nat, NEW whole \in Nat \ {0}
  PROVE  LET exact == (x * parts) \div whole
             got   == IntProduct(x, parts, whole)
         IN  /\ exact \in Nat /\ got \in Nat /\ got <= exact /\ exact <= got + 1
             /\ <<x, parts, whole>> \notin FallsShort => got = exact
             /\ parts % whole = 0 => got = exact
             /\ x = 0 => got = 0
  <1> DEFINE a == x * parts
             f == <<x, parts, whole>>
  <1>1. a \in Nat
    OBVIOUS
  <1>2. \A y \in Nat : /\ y \div whole \in Nat
                       /\ y > 0 /\ y % whole = 0 => y \div whole > 0
    <2> TAKE y \in Nat
    <2>1. y \div whole \in Nat /\ y = whole * (y \div whole) + (y % whole)
      OBVIOUS
    <2>2. y \div whole = 0 => whole * (y \div whole) = 0
      OBVIOUS
    <2> QED
      BY <2>1, <2>2
  <1>3. f \in FallsShort => x > 0 /\ parts % whole # 0
    BY f[1] = x, f[2] = parts, f[3] = whole, FloatAssumption
  <1>4. x > 0 /\ parts % whole # 0 => a > 0
    <2>1. 0 % whole = 0
      OBVIOUS
    <2>2. parts > 0 /\ x > 0 => x * parts > 0
      OBVIOUS
    <2> QED
      BY <2>1, <2>2
  <1>5. x = 0 => a = 0
    OBVIOUS
  <1>6. IntProduct(x, parts, whole)
          = (a \div whole) - (IF a % whole = 0 /\ f \in FallsShort THEN 1 ELSE 0)
    BY <1>1 DEF IntProduct, Truncated
  <1>7. 0 \div whole = 0
    OBVIOUS
  <1> HIDE DEF a, f
  <1>8. /\ a \div whole \in Nat
        /\ a > 0 /\ a % whole = 0 => a \div whole > 0
    BY <1>1, <1>2
  <1> QED
    BY <1>3, <1>4, <1>5, <1>6, <1>7, <1>8 DEF a, f

\* Times one.
LEMMA WholeProduct ==
  ASSUME NEW x \in Nat
  PROVE  IntProduct(x, Unit, Unit) = x
  <1> USE UnitAssumption
  <1>1. x * Unit = x * Unit + 0 /\ x * Unit \in Int /\ Unit = 1 * Unit + 0
    OBVIOUS
  <1>2. (x * Unit) \div Unit = x /\ Unit % Unit = 0
    BY <1>1, Quotient
  <1>3. LET exact == (x * Unit) \div Unit
            got   == IntProduct(x, Unit, Unit)
        IN  Unit % Unit = 0 => got = exact
    BY IntProductIs
  <1> QED
    BY <1>2, <1>3

\* What a multiplier makes of points is a natural number: the truncated
\* product, and the points themselves while multipliers are off.
LEMMA ScaledIs ==
  ASSUME NEW p \in Nat, NEW k, NEW c \in SLAConfig
  PROVE  /\ Multiplier(k, c) \in Nat
         /\ Scaled(p, k, c) \in Nat
         /\ Scaled(p, k, c) = IntProduct(p, Multiplier(k, c), Unit)
         /\ (p * Multiplier(k, c)) \div Unit \in Nat
         /\ Scaled(p, k, c) <= (p * Multiplier(k, c)) \div Unit
         /\ (p * Multiplier(k, c)) \div Unit
              <= Scaled(p, k, c)
                 + (IF <<p, Multiplier(k, c), Unit>> \in FallsShort THEN 1 ELSE 0)
         /\ ~c.dynamic_enabled => Scaled(p, k, c) = p
         /\ p = 0 => Scaled(p, k, c) = 0
  <1> DEFINE m == Multiplier(k, c)
  <1> USE UnitAssumption
  <1>1. m \in Nat
    BY DEF Multiplier, SLAConfig
  <1>2. ~c.dynamic_enabled => m = Unit
    BY DEF Multiplier
  <1> HIDE DEF m
  <1>3. p * Unit = p * Unit + 0 /\ p * Unit \in Int /\ Unit = 1 * Unit + 0
    OBVIOUS
  <1>4. (p * Unit) \div Unit = p /\ Unit % Unit = 0
    BY <1>3, Quotient
  <1>5. Scaled(p, k, c) = IntProduct(p, m, Unit)
    BY DEF Scaled, m
  <1>6. LET exact == (p * m) \div Unit
            got   == IntProduct(p, m, Unit)
        IN  /\ exact \in Nat /\ got \in Nat /\ got <= exact /\ exact <= got + 1
            /\ <<p, m, Unit>> \notin FallsShort => got = exact
            /\ m % Unit = 0 => got = exact
            /\ p = 0 => got = 0
    BY <1>1, IntProductIs
  <1> QED
    BY <1>1, <1>2, <1>4, <1>5, <1>6 DEF m

\* So a scaled sum is one of natural numbers.
LEMMA ScaledType ==
  ASSUME NEW p \in Nat, NEW k, NEW c \in SLAConfig
  PROVE  Scaled(p, k, c) \in Nat
  BY ScaledIs

\* Two to a natural number is one.
LEMMA PowerType == ASSUME NEW n \in Nat PROVE 2^n \in Nat
  <1>1. IsFiniteSet(1..n) /\ Cardinality(1..n) = n
    BY FS_Interval
  <1>2. IsFiniteSet(SUBSET (1..n)) /\ Cardinality(SUBSET (1..n)) = 2^n
    BY <1>1, FS_SUBSET
  <1> QED
    BY <1>2, FS_CardinalityType

\* The percentage of a streak: a natural number, zero while penalties are off,
\* and within the cap unless scores may turn negative.
LEMMA PenaltyPercentType ==
  ASSUME NEW n \in Nat, NEW c \in SLAConfig
  PROVE  /\ PenaltyPercent(n, c) \in Nat
         /\ ~c.sla_enabled => PenaltyPercent(n, c) = 0
         /\ ~c.allow_negative => PenaltyPercent(n, c) <= c.penalty_max_percent
  <1> DEFINE over == n - c.penalty_threshold
             p == c.penalty_percent
             x == c.penalty_max_percent
  <1>1. p \in Nat /\ x \in Nat /\ c.penalty_threshold \in Nat
    BY DEF SLAConfig
  <1>2. ASSUME n >= c.penalty_threshold PROVE ModePenalty(n, c) \in Nat
    <2>1. over \in Nat
      BY <1>1, <1>2
    <2>2. 2^over \in Nat
      BY <2>1, PowerType
    <2> HIDE DEF over
    <2>3. over * p \in Nat /\ p * 2^over \in Nat /\ (over + 1) * p \in Nat
      <3>1. ASSUME NEW a \in Nat, NEW b \in Nat PROVE a * b \in Nat
        OBVIOUS
      <3> HIDE DEF p
      <3> QED
        BY <1>1, <2>1, <2>2, <3>1
    <2>4. AtMost((over + 1) * p, x) \in Nat
      BY <1>1, <2>3 DEF AtMost
    <2> QED
      BY <2>3, <2>4 DEF ModePenalty, over
  <1>3. ASSUME NEW y \in Nat PROVE Capped(y, c) \in Nat /\ (~c.allow_negative => Capped(y, c) <= x)
    BY <1>1 DEF Capped, AtMost
  <1> QED
    BY <1>1, <1>2, <1>3 DEF PenaltyPercent

\* A part of a base is a natural number, and no more than the base if it is at
\* most 100 percent.
LEMMA PercentType ==
  ASSUME NEW base \in Nat, NEW percent \in Nat
  PROVE  /\ PercentOf(base, percent) \in Nat
         /\ percent = 0 => PercentOf(base, percent) = 0
         /\ percent <= 100 => PercentOf(base, percent) <= base
  <1> DEFINE exact == (base * percent) \div 100
             got == PercentOf(base, percent)
  <1>1. exact \in Nat /\ got \in Nat /\ got <= exact
    <2>1. 100 \in Nat \ {0}
      OBVIOUS
    <2>2. LET e == (base * percent) \div 100
              g == IntProduct(base, percent, 100)
          IN  e \in Nat /\ g \in Nat /\ g <= e
      BY <2>1, IntProductIs
    <2> QED
      BY <2>2 DEF PercentOf
  <1>2. percent = 0 => exact = 0
    <2>1. percent = 0 => base * percent = 0
      OBVIOUS
    <2>2. 0 \div 100 = 0
      OBVIOUS
    <2> QED
      BY <2>1, <2>2
  <1>3. percent <= 100 => exact <= base
    <2>1. percent <= 100 => base * percent <= base * 100
      OBVIOUS
    <2>2. \A a \in Nat : a <= base * 100 => a \div 100 <= base
      OBVIOUS
    <2>3. base * percent \in Nat
      OBVIOUS
    <2> QED
      BY <2>1, <2>2, <2>3
  <1> HIDE DEF exact, got
  <1> QED
    BY <1>1, <1>2, <1>3 DEF got

\* A penalty makes nothing larger.
LEMMA AdjustedWithin ==
  ASSUME NEW base \in Nat, NEW penalty \in Nat, NEW c
  PROVE  Adjusted(base, penalty, c) <= base
  BY DEF Adjusted, NotNegative

\* The sampled rounds
LEMMA SampleGood ==
  ASSUME NEW n \in Nat \ {0}, NEW p \in Nat \ {0, 1}
  PROVE  /\ Sample(n, p) \in SUBSET (0..(n - 1))
         /\ n - 1 \in Sample(n, p)
         /\ IsFiniteSet(Sample(n, p)) /\ Cardinality(Sample(n, p)) <= p
  <1>1. CASE n <= p
    <2>1. Sample(n, p) = 0..(n - 1)
      BY <1>1 DEF Sample
    <2>2. IsFiniteSet(0..(n - 1)) /\ Cardinality(0..(n - 1)) = n
      BY FS_Interval
    <2> QED
      BY <1>1, <2>1, <2>2
  <1>2. CASE n > p
    <2> DEFINE at == [i \in 0..(p - 1) |-> RoundHalfEven(i * (n - 1), p - 1)]
               evenly == {at[i] : i \in 0..(p - 1)}
    <2>1. at[p - 1] = n - 1
      <3>1. RoundHalfEven((n - 1) * (p - 1), p - 1) = n - 1
        BY RoundedWhole
      <3>2. (p - 1) * (n - 1) = (n - 1) * (p - 1)
        OBVIOUS
      <3> QED
        BY <3>1, <3>2
    <2>2. \A i \in 0..(p - 1) : at[i] \in 0..(n - 1)
      <3> SUFFICES ASSUME NEW i \in 0..(p - 1) PROVE RoundHalfEven(i * (n - 1), p - 1) \in 0..(n - 1)
        OBVIOUS
      <3>1. i * (n - 1) \in Nat /\ i * (n - 1) <= (n - 1) * (p - 1)
        <4>1. \A a \in Nat, b \in Nat, d \in Nat : a <= b => a * d \in Nat /\ a * d <= d * b
          OBVIOUS
        <4> QED
          BY <4>1
      <3>2. n - 1 \in Int /\ p - 1 \in Nat \ {0}
        OBVIOUS
      <3> QED
        BY <3>1, <3>2, RoundedWithin, Zenon
    <2> HIDE DEF at
    <2>3. evenly \in SUBSET (0..(n - 1)) /\ n - 1 \in evenly
      BY <2>1, <2>2
    <2>4. IsFiniteSet(evenly) /\ Cardinality(evenly) <= p
      <3>1. IsFiniteSet(0..(p - 1)) /\ Cardinality(0..(p - 1)) = p
        BY FS_Interval
      <3> QED
        BY <3>1, FiniteImage, Zenon
    <2>5. Max(evenly) = n - 1
      <3>1. \A y \in evenly : n - 1 >= y
        BY <2>3
      <3> HIDE DEF evenly
      <3>2. \A x \in evenly : x >= n - 1 => x = n - 1
        BY <2>3
      <3> QED
        BY <2>3, <3>1, <3>2 DEF Max
    <2>6. Sample(n, p) = evenly
      <3>1. evenly = {RoundHalfEven(i * (n - 1), p - 1) : i \in 0..(p - 1)}
        BY DEF at
      <3> HIDE DEF evenly
      <3> QED
        BY <1>2, <2>5, <3>1 DEF Sample
    <2> QED
      BY <2>3, <2>4, <2>6
  <1> QED
    BY <1>1, <1>2

-----------------------------------------------------------------------------
(* Ranks *)

\* A finite set that is not empty has an element of the least value.
LEMMA LeastExists ==
  ASSUME NEW f, NEW S, Summable(f, S), S # {}
  PROVE  \E x \in S : \A y \in S : f[x] <= f[y]
  <1> DEFINE Has(T) == \E x \in T : \A y \in T : f[x] <= f[y]
             B == {T \in SUBSET S : T # {} /\ ~Has(T)}
  <1>1. SUFFICES ASSUME B # {} PROVE FALSE
    OBVIOUS
  <1>2. PICK T \in B : \A U \in B : U \subseteq T => U = T
    <2> B \in SUBSET SUBSET S
      OBVIOUS
    <2> HIDE DEF B
    <2> QED
      BY <1>1, Smallest DEF Summable
  <1>3. PICK x : x \in T
    BY <1>2
  <1> DEFINE U == T \ {x}
  <1>4. U # {}
    <2>1. U = {} => \A y \in T : y = x
      OBVIOUS
    <2>2. f[x] \in Int /\ f[x] <= f[x]
      BY <1>2, <1>3 DEF Summable
    <2> QED
      BY <1>2, <1>3, <2>1, <2>2
  <1>5. Has(U)
    <2>1. U \in SUBSET S /\ U \subseteq T /\ U # T
      BY <1>2, <1>3
    <2> HIDE DEF U, Has
    <2> QED
      BY <1>2, <1>4, <2>1
  <1>6. PICK z \in U : \A y \in U : f[z] <= f[y]
    BY <1>5
  <1>7. \A y \in T : f[y] \in Int
    BY <1>2 DEF Summable
  <1>8. CASE f[x] <= f[z]
    <2>1. \A y \in T : f[x] <= f[y]
      BY <1>3, <1>6, <1>7, <1>8
    <2> QED
      BY <1>2, <1>3, <2>1
  <1>9. CASE f[z] < f[x]
    <2>1. \A y \in T : f[z] <= f[y]
      BY <1>3, <1>6, <1>7, <1>9
    <2> QED
      BY <1>2, <1>6, <2>1
  <1> QED
    BY <1>3, <1>6, <1>7, <1>8, <1>9

InOrder(f, o, n) == \A i, j \in 1..n : i < j => o[i] # o[j] /\ f[o[i]] >= f[o[j]]

\* A finite set can be sorted.
LEMMA OrderExists ==
  ASSUME NEW f, NEW S, Summable(f, S)
  PROVE  \E o \in [1..Cardinality(S) -> S] : InOrder(f, o, Cardinality(S))
  <1> DEFINE Has(T) == \E o \in [1..Cardinality(T) -> T] : InOrder(f, o, Cardinality(T))
             B == {T \in SUBSET S : ~Has(T)}
  <1>1. ASSUME B # {} PROVE FALSE
    <2>1. PICK T \in B : \A U \in B : U \subseteq T => U = T
      <3> B \in SUBSET SUBSET S
        OBVIOUS
      <3> HIDE DEF B
      <3> QED
        BY <1>1, Smallest DEF Summable
    <2>2. T \in SUBSET S /\ ~Has(T) /\ Summable(f, T) /\ Cardinality(T) \in Nat
      BY <2>1, FS_Subset, FS_CardinalityType DEF Summable
    <2>3. T # {}
      <3>1. Has({})
        <4>1. Cardinality({}) = 0 /\ 1..0 = {}
          BY FS_EmptySet
        <4>2. [i \in {} |-> i] \in [1..Cardinality({}) -> {}]
          BY <4>1
        <4> QED
          BY <4>1, <4>2 DEF InOrder
      <3> HIDE DEF Has
      <3> QED
        BY <2>2, <3>1
    <2>4. PICK x \in T : \A y \in T : f[x] <= f[y]
      BY <2>2, <2>3, LeastExists
    <2> DEFINE U == T \ {x}
               n == Cardinality(T)
    <2>5. Cardinality(U) = n - 1
      BY <2>2, <2>4, FS_RemoveElement DEF Summable
    <2>6. Has(U)
      <3>1. U \in SUBSET S /\ U \subseteq T /\ U # T
        BY <2>2, <2>4
      <3> HIDE DEF U, Has
      <3> QED
        BY <2>1, <3>1
    <2>7. PICK o \in [1..(n - 1) -> U] : InOrder(f, o, n - 1)
      BY <2>5, <2>6
    <2> DEFINE p == [i \in 1..n |-> IF i = n THEN x ELSE o[i]]
    <2>8. \A i \in 1..n : i # n => i \in 1..(n - 1)
      BY <2>2
    <2>9. p \in [1..n -> T]
      BY <2>4, <2>7, <2>8
    <2>10. InOrder(f, p, n)
      <3> SUFFICES ASSUME NEW i \in 1..n, NEW j \in 1..n, i < j
                   PROVE  p[i] # p[j] /\ f[p[i]] >= f[p[j]]
        BY DEF InOrder
      <3>1. i \in 1..(n - 1)
        BY <2>2
      <3>2. p[i] = o[i] /\ o[i] \in T /\ o[i] # x
        BY <2>2, <2>7, <3>1
      <3>3. CASE j = n
        <4>1. p[j] = x
          BY <3>3
        <4>2. f[x] <= f[o[i]] /\ f[x] \in Int /\ f[o[i]] \in Int
          BY <2>2, <2>4, <3>2 DEF Summable
        <4> HIDE DEF p
        <4> QED
          BY <3>2, <4>1, <4>2
      <3>4. CASE j # n
        <4>1. j \in 1..(n - 1)
          BY <2>8, <3>4
        <4>2. p[j] = o[j]
          BY <3>4
        <4> HIDE DEF p
        <4> QED
          BY <2>7, <3>1, <3>2, <4>1, <4>2 DEF InOrder
      <3> QED
        BY <3>3, <3>4
    <2>11. Has(T)
      <3> HIDE DEF p
      <3> QED
        BY <2>9, <2>10
    <2> QED
      BY <2>2, <2>11
  <1>2. S \notin B
    BY <1>1
  <1> QED
    BY <1>2

\* The places of a list with a better score than place i.
Ahead(score, order, i) == {j \in DOMAIN order : score[order[j]] > score[order[i]]}

\* The rank at a place of a sorted list is one more than those better.
LEMMA RankIs ==
  ASSUME NEW score, Summable(score, DOMAIN score), NEW order, Sorted(score, order)
  PROVE  \A i \in DOMAIN order :
           RunningRank(score, order)[i] = 1 + Cardinality(Ahead(score, order, i))
  <1> DEFINE n == Cardinality(DOMAIN score)
             v(i) == score[order[i]]
             better(i) == {j \in 1..n : v(j) > v(i)}
             E(g) == [i \in DOMAIN order |-> IF i = 1 THEN 1 ELSE IF v(i) < v(i - 1) THEN i ELSE g[i - 1]]
             R == [i \in 1..n |-> 1 + Cardinality(better(i))]
  <1>1. n \in Nat
    BY FS_CardinalityType DEF Summable
  <1>2. DOMAIN order = 1..n /\ \A i \in 1..n : v(i) \in Int
    BY DEF Sorted, Summable
  <1>3. \A i, j \in 1..n : i < j => v(i) >= v(j)
    BY <1>2 DEF Sorted
  <1>4. RunningRank(score, order) = CHOOSE g : g = E(g)
    BY Zenon DEF RunningRank
  <1> HIDE DEF n, v
  <1>5. R = E(R)
    <2>1. ASSUME NEW i \in 1..n
          PROVE  R[i] = IF i = 1 THEN 1 ELSE IF v(i) < v(i - 1) THEN i ELSE R[i - 1]
      <3>1. CASE i = 1
        <4>1. better(1) = {}
          <5> SUFFICES ASSUME NEW j \in 1..n, v(j) > v(1) PROVE FALSE
            OBVIOUS
          <5>1. 1 \in 1..n
            BY <3>1
          <5> QED
            BY <1>2, <1>3, <5>1
        <4> HIDE DEF better
        <4> QED
          BY <3>1, <4>1, FS_EmptySet
      <3>2. CASE i # 1
        <4>1. i - 1 \in 1..n /\ i - 1 < i /\ i - 1 \in Nat
          BY <1>1, <3>2
        <4>2. CASE v(i) < v(i - 1)
          <5>1. better(i) = 1..(i - 1)
            <6>1. \A j \in 1..n : j >= i => ~(v(j) > v(i))
              BY <1>2, <1>3
            <6>2. \A j \in 1..(i - 1) : j \in 1..n /\ v(j) > v(i)
              <7> TAKE j \in 1..(i - 1)
              <7>1. j \in 1..n /\ (j < i - 1 \/ j = i - 1)
                BY <1>1
              <7>2. v(j) >= v(i - 1)
                BY <1>2, <1>3, <4>1, <7>1
              <7> QED
                BY <1>2, <4>1, <4>2, <7>1, <7>2
            <6> QED
              BY <1>1, <6>1, <6>2
          <5>2. Cardinality(1..(i - 1)) = i - 1
            BY <4>1, FS_Interval
          <5> HIDE DEF better
          <5> QED
            BY <3>2, <4>1, <4>2, <5>1, <5>2
        <4>3. CASE ~(v(i) < v(i - 1))
          <5>1. v(i) = v(i - 1)
            BY <1>2, <1>3, <4>1, <4>3
          <5>2. better(i) = better(i - 1)
            BY <5>1
          <5> HIDE DEF better
          <5> QED
            BY <3>2, <4>1, <4>3, <5>2
        <4> QED
          BY <4>2, <4>3
      <3> QED
        BY <3>1, <3>2
    <2> HIDE DEF better
    <2> QED
      BY <1>2, <2>1
  <1>6. ASSUME NEW g, g = E(g) PROVE \A i \in 1..n : g[i] = R[i]
    <2> DEFINE D == {i \in 1..n : g[i] # R[i]}
               id == [i \in 1..n |-> i]
    <2>1. SUFFICES ASSUME D # {} PROVE FALSE
      OBVIOUS
    <2>2. PICK i \in D : \A j \in D : i <= j
      <3>1. Summable(id, D) /\ \A j \in D : id[j] = j
        <4>1. IsFiniteSet(1..n) /\ D \in SUBSET (1..n)
          BY <1>1, FS_Interval
        <4>2. \A j \in D : id[j] = j /\ id[j] \in Int
          OBVIOUS
        <4> HIDE DEF D, id
        <4> QED
          BY <4>1, <4>2, FS_Subset DEF Summable
      <3> HIDE DEF D, id
      <3> QED
        BY <2>1, <3>1, LeastExists
    <2> HIDE DEF R
    <2>3. /\ g[i] = IF i = 1 THEN 1 ELSE IF v(i) < v(i - 1) THEN i ELSE g[i - 1]
          /\ R[i] = IF i = 1 THEN 1 ELSE IF v(i) < v(i - 1) THEN i ELSE R[i - 1]
      BY <1>2, <1>5, <1>6
    <2>4. i # 1
      BY <2>2, <2>3
    <2>5. i - 1 \in 1..n /\ i - 1 \notin D
      BY <1>1, <2>2, <2>4
    <2> QED
      BY <2>2, <2>3, <2>5
  <1>7. RunningRank(score, order) = E(RunningRank(score, order))
    <2> HIDE DEF E, R
    <2> QED
      BY <1>4, <1>5
  <1>8. \A i \in 1..n : RunningRank(score, order)[i] = R[i]
    <2> HIDE DEF E, R
    <2> QED
      BY <1>6, <1>7
  <1>9. \A i \in 1..n : better(i) = Ahead(score, order, i)
    BY <1>2 DEF Ahead, v
  <1> QED
    BY <1>2, <1>8, <1>9

\* The ranks of a page are places.
LEMMA RanksArePlaces ==
  ASSUME NEW score, Summable(score, DOMAIN score)
  PROVE  /\ DOMAIN Ranks(score) = DOMAIN score
         /\ \A x \in DOMAIN score : Ranks(score)[x] = Place(score, x)
  <1> DEFINE D == DOMAIN score
             n == Cardinality(D)
             order == SomeOrder(score)
  <1>1. n \in Nat /\ IsFiniteSet(1..n) /\ Cardinality(1..n) = n
    BY FS_CardinalityType, FS_Interval DEF Summable
  <1>2. order \in [1..n -> D] /\ Sorted(score, order)
    <2>1. PICK o \in [1..n -> D] : InOrder(score, o, n)
      BY OrderExists
    <2>2. Sorted(score, o)
      BY <2>1 DEF Sorted, InOrder
    <2> QED
      BY <2>1, <2>2 DEF SomeOrder
  <1> HIDE DEF order
  <1>3. order \in Injection(1..n, D)
    <2>1. \A i, j \in 1..n : order[i] = order[j] => i = j
      BY <1>1, <1>2 DEF Sorted
    <2> QED
      BY <1>2, <2>1 DEF Injection, IsInjective
  <1>4. \A x \in D : \E i \in 1..n : order[i] = x
    <2>1. order \in Surjection(1..n, D)
      BY <1>1, <1>3, FS_Injection DEF Summable
    <2> QED
      BY <2>1 DEF Surjection
  <1>5. ASSUME NEW x \in D PROVE Ranks(score)[x] = Place(score, x)
    <2> DEFINE i == CHOOSE j \in 1..n : order[j] = x
               J == {j \in 1..n : score[order[j]] > score[x]}
               Y == {y \in D : score[y] > score[x]}
               h == [j \in J |-> order[j]]
    <2>1. i \in 1..n /\ order[i] = x
      BY <1>4
    <2>2. Ranks(score)[x] = RunningRank(score, order)[i]
      BY <1>2 DEF Ranks, order
    <2> HIDE DEF i
    <2>3. Ranks(score)[x] = 1 + Cardinality(J)
      <3>1. DOMAIN order = 1..n /\ i \in DOMAIN order
        BY <1>2, <2>1
      <3>2. RunningRank(score, order)[i] = 1 + Cardinality(Ahead(score, order, i))
        <4>1. \A k \in DOMAIN order :
                RunningRank(score, order)[k] = 1 + Cardinality(Ahead(score, order, k))
          BY <1>2, RankIs, Zenon
        <4> QED
          BY <3>1, <4>1
      <3>3. Ahead(score, order, i) = J
        BY <2>1, <3>1 DEF Ahead
      <3> HIDE DEF J
      <3> QED
        BY <2>2, <3>2, <3>3
    <2>4. h \in Bijection(J, Y)
      <3>1. h \in [J -> Y]
        BY <1>2
      <3>2. \A j, k \in J : h[j] = h[k] => j = k
        BY <1>3 DEF Injection, IsInjective
      <3>3. \A y \in Y : \E j \in J : h[j] = y
        BY <1>4
      <3> HIDE DEF h, J, Y
      <3> QED
        BY <3>1, <3>2, <3>3 DEF Bijection, Injection, Surjection, IsInjective
    <2>5. IsFiniteSet(J)
      BY <1>1, FS_Subset
    <2> HIDE DEF h, J
    <2>6. Cardinality(Y) = Cardinality(J)
      <3> HIDE DEF Y
      <3> QED
        BY <2>4, <2>5, FS_Bijection DEF ExistsBijection
    <2> QED
      BY <2>3, <2>6 DEF Place
  <1>6. DOMAIN Ranks(score) = D
    BY DEF Ranks
  <1> QED
    BY <1>5, <1>6

-----------------------------------------------------------------------------
(* The invariant *)

NumbersTo(n) == {r.number : r \in rounds} = 1..n

\* The services that passed round k, and what they earned their team, by the
\* checks C and the points P.
Passing(k, s) == [number |-> k, service |-> s, result |-> TRUE]
Passed(C, k)  == {s \in Services : Passing(k, s) \in C}
Earned(P, C, t, k) == SumOver(P, {s \in Passed(C, k) : TeamOf[s] = t})

\* The failures of a service since it last passed.
Recent(C, s) ==
  {c \in C : /\ c.service = s /\ ~c.result
             /\ \A p \in C : p.service = s /\ p.result => p.number < c.number}

CheckRows(n) == [number : 1..n, service : Services, result : BOOLEAN]
ScoreRows(n) == [number : 1..n, team : Teams, service_points : Nat]

\* A round has one check of a service.
OneEach(C) == \A c, d \in C : c.number = d.number /\ c.service = d.service => c = d

\* The stored sums are of what was earned, and all of it.
Exact(W, P, C, n) ==
  /\ \A w \in W : w.service_points # 0 /\ w.service_points = Earned(P, C, w.team, w.number)
  /\ \A k \in 1..n, t \in Teams : Earned(P, C, t, k) # 0 => \E w \in W : w.number = k /\ w.team = t

Types ==
  /\ now \in Nat \ {0} /\ freeze \in Nat /\ config \in SLAConfig
  /\ points \in [Services -> Nat] /\ failures \in [Services -> Nat]
  /\ tampered \in SUBSET Services /\ repriced \in BOOLEAN

\* A number is that of one row.
OneRow(R) == \A q, r \in R : q.number = r.number => q = r

\* A stored score is of a round that is closed.
OfClosed(W, R) == \A w \in W : \E r \in R : r.number = w.number /\ r.round_end # Open

Rounds(n) ==
  /\ NumbersTo(n) /\ OneRow(rounds) /\ OfClosed(round_score, rounds)
  /\ IsFiniteSet(checks) /\ checks \in SUBSET CheckRows(n) /\ OneEach(checks)
  /\ IsFiniteSet(round_score) /\ round_score \in SUBSET ScoreRows(n)

Kept(n) ==
  /\ ~repriced => Exact(round_score, points, checks, n)
  /\ \A s \in Services \ tampered : failures[s] = Cardinality(Recent(checks, s))

\* The round about to be committed is the last and has nothing stored yet, and
\* earned what it would earn now; or its row was deleted, with those after it.
Pending(n) ==
  /\ \A q, r \in closing : q = r
  /\ \A r \in closing :
       /\ r.number \in Nat /\ r.passed \in SUBSET Services
       /\ r.earned \in [Teams -> Nat] /\ r.round_end \in Nat \ {0}
       /\ r.number = n \/ r.number > n
       /\ r.number = n =>
            /\ OpenRow(r) \in rounds
            /\ checks \in SUBSET CheckRows(n - 1) /\ round_score \in SUBSET ScoreRows(n - 1)
            /\ ~repriced => \A t \in Teams : r.earned[t] = EarnedBy(t, r.passed)

IInv == Types /\ \E n \in Nat : Rounds(n) /\ Kept(n) /\ Pending(n)

\* The numbers of the rounds when one is added.
LEMMA NumbersAdded ==
  ASSUME NEW R, NEW n \in Nat, NEW x, x.number = n + 1, {r.number : r \in R} = 1..n
  PROVE  {r.number : r \in R \cup {x}} = 1..(n + 1)
  <1>1. {r.number : r \in R \cup {x}} = {r.number : r \in R} \cup {n + 1}
    OBVIOUS
  <1>2. (1..n) \cup {n + 1} = 1..(n + 1)
    OBVIOUS
  <1> QED
    BY <1>1, <1>2

\* The numbers of the rounds when the last are deleted.
LEMMA NumbersBefore ==
  ASSUME NEW R, NEW n \in Nat, NEW k \in 1..n, {r.number : r \in R} = 1..n
  PROVE  {r.number : r \in {q \in R : q.number < k}} = 1..(k - 1)
  <1>1. {r.number : r \in {q \in R : q.number < k}} = {m \in {r.number : r \in R} : m < k}
    OBVIOUS
  <1>2. {m \in 1..n : m < k} = 1..(k - 1)
    OBVIOUS
  <1> QED
    BY <1>1, <1>2

\* The last number of rounds numbered 1..n is n.
LEMMA LastIs ==
  ASSUME NEW n \in Nat, NumbersTo(n)
  PROVE  LastRound = n
  <1>1. {0} \cup {r.number : r \in rounds} = 0..n
    BY DEF NumbersTo
  <1>2. n \in 0..n /\ \A y \in 0..n : n >= y
    OBVIOUS
  <1>3. \A x \in 0..n : (\A y \in 0..n : x >= y) => x = n
    OBVIOUS
  <1>4. Max(0..n) = n
    BY <1>2, <1>3 DEF Max
  <1> QED
    BY <1>1, <1>4 DEF LastRound

\* The invariant holds before the first round.
LEMMA StandingsInit == ASSUME Init PROVE IInv
  <1>1. {r.number : r \in rounds} = 1..0
    BY DEF Init
  <1>2. Types
    <2>1. config \in SLAConfig /\ points \in [Services -> Nat]
      BY StandingsAssumption DEF Init
    <2>2. now \in Nat \ {0} /\ freeze \in Nat
      BY DEF Init, NotFrozen
    <2>3. failures \in [Services -> Nat]
      BY DEF Init
    <2>4. tampered \in SUBSET Services /\ repriced \in BOOLEAN
      BY DEF Init
    <2> QED
      BY <2>1, <2>2, <2>3, <2>4 DEF Types
  <1>3. Rounds(0) /\ Pending(0)
    BY <1>1, FS_EmptySet DEF Init, Rounds, NumbersTo, OneEach, OneRow, OfClosed, Pending
  <1>4. Kept(0)
    <2>1. \A s : Recent({}, s) = {}
      BY DEF Recent
    <2>2. Exact({}, points, {}, 0)
      BY DEF Exact
    <2> QED
      BY <2>1, <2>2, FS_EmptySet DEF Init, Kept
  <1> QED
    BY <1>2, <1>3, <1>4 DEF IInv

\* The checks and scores of a closing round.
NewChecks(n, passed) == {[number |-> n, service |-> s, result |-> s \in passed] : s \in Services}
NewScores(n, earned) ==
  {[number |-> n, team |-> t, service_points |-> earned[t]] :
     t \in {u \in Teams : earned[u] # 0}}

\* A closing round adds finitely many rows.
LEMMA FiniteNew ==
  ASSUME NEW n \in Nat, NEW passed \in SUBSET Services, NEW earned
  PROVE  IsFiniteSet(NewChecks(n, passed)) /\ IsFiniteSet(NewScores(n, earned))
  <1> DEFINE e == [s \in Services |-> [number |-> n, service |-> s, result |-> s \in passed]]
             T == {u \in Teams : earned[u] # 0}
             f == [t \in T |-> [number |-> n, team |-> t, service_points |-> earned[t]]]
  <1>1. IsFiniteSet(Services) /\ IsFiniteSet(T)
    BY StandingsAssumption, FS_Subset
  <1>2. NewChecks(n, passed) = {e[s] : s \in Services}
    BY DEF NewChecks
  <1>3. NewScores(n, earned) = {f[t] : t \in T}
    BY DEF NewScores
  <1> HIDE DEF e, f, T
  <1> QED
    BY <1>1, <1>2, <1>3, FiniteImage

\* What a team earned in a round is a natural number.
LEMMA EarnedType ==
  ASSUME points \in [Services -> Nat], NEW passed \in SUBSET Services, NEW t
  PROVE  EarnedBy(t, passed) \in Nat
  <1> DEFINE S == {s \in passed : TeamOf[s] = t}
  <1>1. Summable(points, S) /\ \A s \in S : points[s] >= 0
    BY StandingsAssumption, FS_Subset DEF Summable
  <1>2. EarnedBy(t, passed) = SumOver(points, S)
    BY DEF EarnedBy, SumOver
  <1> HIDE DEF S
  <1>3. SumOver(points, S) \in Int /\ 0 <= SumOver(points, S)
    BY <1>1, SumInt, SumOfPart
  <1> QED
    BY <1>2, <1>3

\* It depends on nothing but the points.
LEMMA EarnedIsSum ==
  ASSUME NEW passed, NEW t
  PROVE  /\ EarnedBy(t, passed) = SumOver(points, {s \in passed : TeamOf[s] = t})
         /\ EarnedBy(t, passed)' = SumOver(points', {s \in passed : TeamOf[s] = t})
  <1>1. EarnedBy(t, passed) = SumOver(points, {s \in passed : TeamOf[s] = t})
    BY Zenon DEF EarnedBy, SumOver
  <1>2. EarnedBy(t, passed)' = SumOver(points', {s \in passed : TeamOf[s] = t})
    BY Zenon DEF EarnedBy, SumOver, MapThenSumSet, MapThenFoldSet
  <1> QED
    BY <1>1, <1>2

\* What passed in the rounds before, and in the closing one.
LEMMA PassedThen ==
  ASSUME NEW n \in Nat, NEW C \in SUBSET CheckRows(n), NEW passed \in SUBSET Services
  PROVE  /\ \A k \in 1..n : Passed(C \cup NewChecks(n + 1, passed), k) = Passed(C, k)
         /\ Passed(C \cup NewChecks(n + 1, passed), n + 1) = passed
  <1> DEFINE N == NewChecks(n + 1, passed)
  <1>1. ASSUME NEW k \in 1..n, NEW s PROVE Passing(k, s) \notin N
    <2>1. \A c \in N : c.number = n + 1
      BY DEF NewChecks
    <2>2. Passing(k, s).number = k /\ k # n + 1
      BY DEF Passing
    <2> HIDE DEF N
    <2> QED
      BY <2>1, <2>2
  <1>2. ASSUME NEW s \in Services PROVE Passing(n + 1, s) \in N <=> s \in passed
    BY DEF NewChecks, Passing
  <1>3. ASSUME NEW s PROVE Passing(n + 1, s) \notin C
    BY DEF CheckRows, Passing
  <1> HIDE DEF N
  <1>4. ASSUME NEW k \in 1..n PROVE Passed(C \cup N, k) = Passed(C, k)
    BY <1>1 DEF Passed
  <1>5. Passed(C \cup N, n + 1) = passed
    BY <1>2, <1>3 DEF Passed
  <1> QED
    BY <1>4, <1>5 DEF N

\* A closing round begins, ends or prolongs a streak.
LEMMA StreakThen ==
  ASSUME NEW n \in Nat, NEW C \in SUBSET CheckRows(n), IsFiniteSet(C),
         NEW passed \in SUBSET Services, NEW s \in Services
  PROVE  Cardinality(Recent(C \cup NewChecks(n + 1, passed), s))
           = IF s \in passed THEN 0 ELSE Cardinality(Recent(C, s)) + 1
  <1> DEFINE N == NewChecks(n + 1, passed)
             new == [number |-> n + 1, service |-> s, result |-> s \in passed]
  <1>1. new \in N /\ \A c \in N : c.service = s => c = new
    BY DEF NewChecks
  <1>2. new.number = n + 1 /\ new.service = s /\ new.result = (s \in passed)
    OBVIOUS
  <1>3. \A c \in C : c.number \in Nat /\ c.number < n + 1
    BY DEF CheckRows
  <1> HIDE DEF N, new
  <1>4. CASE s \in passed
    <2>1. Recent(C \cup N, s) = {}
      <3> SUFFICES ASSUME NEW c \in Recent(C \cup N, s) PROVE FALSE
        OBVIOUS
      <3>1. /\ c \in C \cup N /\ c.service = s /\ ~c.result
            /\ \A p \in C \cup N : p.service = s /\ p.result => p.number < c.number
        BY DEF Recent
      <3>2. n + 1 < c.number
        BY <1>1, <1>2, <1>4, <3>1
      <3>3. c.number <= n + 1 /\ c.number \in Nat
        BY <1>1, <1>2, <1>3, <3>1
      <3> QED
        BY <3>2, <3>3
    <2> QED
      BY <1>4, <2>1, FS_EmptySet DEF N
  <1>5. CASE s \notin passed
    <2>1. Recent(C \cup N, s) = Recent(C, s) \cup {new}
      <3>1. \A p \in N : p.service = s => ~p.result
        BY <1>1, <1>2, <1>5
      <3>2. new \in Recent(C \cup N, s)
        BY <1>1, <1>2, <1>3, <1>5, <3>1 DEF Recent
      <3>3. \A c \in C : c \in Recent(C \cup N, s) <=> c \in Recent(C, s)
        BY <3>1 DEF Recent
      <3>4. \A c \in Recent(C \cup N, s) : c \in C \/ c = new
        BY <1>1 DEF Recent
      <3>5. Recent(C, s) \subseteq C
        BY DEF Recent
      <3> QED
        BY <3>2, <3>3, <3>4, <3>5
    <2>2. new \notin Recent(C, s)
      BY <1>2, <1>3 DEF Recent
    <2>3. IsFiniteSet(Recent(C, s))
      <3>1. Recent(C, s) \in SUBSET C
        BY DEF Recent
      <3> QED
        BY <3>1, FS_Subset
    <2> QED
      BY <1>5, <2>1, <2>2, <2>3, FS_AddElement DEF N
  <1> QED
    BY <1>4, <1>5

\* The row of the next round, and what it earned, keep the invariant.
LEMMA OpenKeeps ==
  ASSUME IInv, NEW passed \in Outcomes, OpenRound(passed)
  PROVE  IInv'
  <1>1. PICK n \in Nat : Rounds(n) /\ Kept(n)
    BY DEF IInv
  <1>2. LastRound = n
    BY <1>1, LastIs DEF Rounds
  <1> DEFINE r == [number |-> n + 1, passed |-> passed,
                   earned |-> [t \in Teams |-> EarnedBy(t, passed)], round_end |-> now]
             x == OpenRow(r)
  <1>3. /\ closing' = {r} /\ rounds' = rounds \cup {x}
        /\ UNCHANGED <<now, checks, round_score, failures, points, config, freeze, tampered, repriced>>
    BY <1>2 DEF OpenRound, settings, history
  <1>4. Types /\ Types'
    BY <1>3 DEF IInv, Types
  <1>5. x.number = n + 1
    BY DEF OpenRow
  <1>6. {q.number : q \in rounds} = 1..n /\ OneRow(rounds)
    BY <1>1 DEF Rounds, NumbersTo
  <1>7. /\ r.number = n + 1 /\ r.passed \in SUBSET Services /\ r.earned \in [Teams -> Nat]
        /\ r.round_end \in Nat \ {0}
        /\ \A t \in Teams : r.earned[t] = EarnedBy(t, passed) /\ r.passed = passed
    <2>1. passed \in SUBSET Services
      BY StandingsAssumption
    <2>2. \A t : EarnedBy(t, passed) \in Nat
      BY <1>4, <2>1, EarnedType DEF Types
    <2> QED
      BY <1>4, <2>1, <2>2 DEF Types
  <1>8. \A t \in Teams : EarnedBy(t, passed)' = EarnedBy(t, passed)
    BY <1>3, EarnedIsSum
  <1> HIDE DEF r, x
  <1>9. Rounds(n + 1)'
    <2>1. {q.number : q \in rounds'} = 1..(n + 1)
      BY <1>3, <1>5, <1>6, NumbersAdded
    <2>2. OneRow(rounds')
      <3>1. \A q \in rounds : q.number \in 1..n
        BY <1>6
      <3>2. \A q \in rounds : q.number # n + 1
        BY <3>1
      <3> QED
        BY <1>3, <1>5, <1>6, <3>2 DEF OneRow
    <2>3. checks' \in SUBSET CheckRows(n + 1) /\ round_score' \in SUBSET ScoreRows(n + 1)
      BY <1>1, <1>3 DEF Rounds, CheckRows, ScoreRows
    <2>4. OfClosed(round_score', rounds')
      BY <1>1, <1>3 DEF Rounds, OfClosed
    <2> QED
      BY <1>1, <1>3, <2>1, <2>2, <2>3, <2>4 DEF Rounds, NumbersTo
  <1>10. Kept(n + 1)'
    <2>1. ASSUME ~repriced' PROVE Exact(round_score', points', checks', n + 1)
      <3>1. Exact(round_score, points, checks, n)
        BY <1>1, <1>3, <2>1 DEF Kept
      <3>2. \A t : Earned(points, checks, t, n + 1) = 0
        <4>1. Passed(checks, n + 1) = {}
          BY <1>1 DEF Rounds, CheckRows, Passed, Passing
        <4> QED
          BY <4>1, SumEmpty DEF Earned
      <3>3. \A k \in 1..(n + 1) : k \in 1..n \/ k = n + 1
        OBVIOUS
      <3> QED
        BY <1>3, <3>1, <3>2, <3>3 DEF Exact
    <2> QED
      BY <1>1, <1>3, <2>1 DEF Kept
  <1>11. Pending(n + 1)'
    <2>1. (n + 1) - 1 = n
      OBVIOUS
    <2>2. checks' \in SUBSET CheckRows(n) /\ round_score' \in SUBSET ScoreRows(n)
      BY <1>1, <1>3 DEF Rounds
    <2>3. OpenRow(r) \in rounds'
      BY <1>3 DEF x
    <2> QED
      BY <1>3, <1>7, <1>8, <2>1, <2>2, <2>3 DEF Pending, OpenRow
  <1> QED
    BY <1>4, <1>9, <1>10, <1>11 DEF IInv

\* When the row of the closing round is there, it is the last one, and the rest
\* is as it was before that.
LEMMA ClosingIsLast ==
  ASSUME NEW m \in Nat, Rounds(m), Kept(m), Pending(m), NEW r \in closing, OpenRow(r) \in rounds
  PROVE  /\ closing = {r} /\ r.number = m /\ m - 1 \in Nat
         /\ checks \in SUBSET CheckRows(m - 1) /\ round_score \in SUBSET ScoreRows(m - 1)
         /\ ~repriced => Exact(round_score, points, checks, m - 1)
  <1>1. OpenRow(r).number \in 1..m /\ OpenRow(r).number = r.number
    BY DEF Rounds, NumbersTo, OpenRow
  <1>2. r.number = m /\ m - 1 \in Nat
    BY <1>1 DEF Pending
  <1>3. closing = {r}
    BY DEF Pending
  <1>4. \A k \in 1..(m - 1) : k \in 1..m
    BY <1>2
  <1>5. ~repriced => Exact(round_score, points, checks, m - 1)
    BY <1>4 DEF Kept, Exact
  <1> QED
    BY <1>2, <1>3, <1>5 DEF Pending

\* The closing commit keeps the invariant.
LEMMA CloseKeeps ==
  ASSUME IInv, CloseRound
  PROVE  IInv'
  <1>a. PICK m \in Nat : Rounds(m) /\ Kept(m) /\ Pending(m)
    BY DEF IInv
  <1>b. PICK r \in closing :
          /\ OpenRow(r) \in rounds
          /\ rounds' = (rounds \ {OpenRow(r)}) \cup {ClosedRow(r)}
          /\ checks' = checks \cup
               {[number |-> r.number, service |-> s, result |-> s \in r.passed] : s \in Services}
          /\ round_score' = round_score \cup
               {[number |-> r.number, team |-> t, service_points |-> r.earned[t]] :
                  t \in {u \in Teams : r.earned[u] # 0}}
          /\ failures' = Counts(r.passed)
          /\ tampered' = tampered \ r.passed
          /\ closing' = {}
          /\ UNCHANGED <<now, points, settings, adjustments, injects, changes, repriced>>
    BY DEF CloseRound
  <1> DEFINE n == m - 1
             passed == r.passed
             earned == r.earned
             N == NewChecks(n + 1, passed)
             M == NewScores(n + 1, earned)
  <1>1. /\ n \in Nat /\ m = n + 1 /\ r.number = n + 1
        /\ passed \in SUBSET Services /\ earned \in [Teams -> Nat]
        /\ ~repriced => Exact(round_score, points, checks, n)
        /\ ~repriced => \A t \in Teams : earned[t] = EarnedBy(t, passed)
        /\ checks \in SUBSET CheckRows(n) /\ round_score \in SUBSET ScoreRows(n)
    BY <1>a, <1>b, ClosingIsLast DEF Pending
  <1>3. /\ rounds' = (rounds \ {OpenRow(r)}) \cup {ClosedRow(r)}
        /\ checks' = checks \cup N /\ round_score' = round_score \cup M
        /\ failures' = Counts(passed) /\ tampered' = tampered \ passed /\ closing' = {}
        /\ UNCHANGED <<now, points, config, freeze, repriced>>
    BY <1>1, <1>b DEF settings, NewChecks, NewScores
  <1> HIDE DEF n, passed, earned
  <1>4. /\ checks \in SUBSET CheckRows(n) /\ IsFiniteSet(checks) /\ OneEach(checks)
        /\ round_score \in SUBSET ScoreRows(n) /\ IsFiniteSet(round_score)
    BY <1>1, <1>a DEF Rounds
  <1>5. Types
    BY DEF IInv
  <1>6. \A t \in Teams : earned[t] \in Nat
    BY <1>1
  <1>7. /\ \A c \in N : c \in CheckRows(n + 1) /\ c.number = n + 1
        /\ \A c, d \in N : c.service = d.service => c = d
        /\ \A c \in CheckRows(n) : c \in CheckRows(n + 1) /\ c.number # n + 1
    <2> DEFINE new(s) == [number |-> n + 1, service |-> s, result |-> s \in passed]
    <2>1. \A s \in Services :
            new(s) \in CheckRows(n + 1) /\ new(s).number = n + 1 /\ new(s).service = s
      BY <1>1 DEF CheckRows
    <2>2. \A c \in CheckRows(n) : c \in CheckRows(n + 1) /\ c.number # n + 1
      BY <1>1 DEF CheckRows
    <2>3. N = {new(s) : s \in Services}
      BY DEF NewChecks
    <2> HIDE DEF N, new
    <2> QED
      BY <2>1, <2>2, <2>3
  <1>8. /\ \A w \in M : /\ w \in ScoreRows(n + 1) /\ w.number = n + 1
                        /\ w.team \in Teams /\ w.service_points = earned[w.team] /\ w.service_points # 0
        /\ \A w \in ScoreRows(n) : w \in ScoreRows(n + 1) /\ w.number \in 1..n
    BY <1>1, <1>6 DEF NewScores, ScoreRows
  <1>9. \A t \in Teams : earned[t] # 0 => \E w \in M : w.number = n + 1 /\ w.team = t
    <2> TAKE t \in Teams
    <2> HAVE earned[t] # 0
    <2> DEFINE w == [number |-> n + 1, team |-> t, service_points |-> earned[t]]
    <2>1. w \in M /\ w.number = n + 1 /\ w.team = t
      BY DEF NewScores
    <2> QED
      BY <2>1
  <1>10. IsFiniteSet(N) /\ IsFiniteSet(M)
    BY <1>1, FiniteNew
  <1>11. /\ \A k \in 1..n : Passed(checks', k) = Passed(checks, k)
         /\ Passed(checks', n + 1) = passed
    <2>1. n \in Nat /\ checks \in SUBSET CheckRows(n) /\ passed \in SUBSET Services
      BY <1>1
    <2>2. /\ \A k \in 1..n : Passed(checks \cup NewChecks(n + 1, passed), k) = Passed(checks, k)
          /\ Passed(checks \cup NewChecks(n + 1, passed), n + 1) = passed
      BY <2>1, PassedThen
    <2> QED
      BY <1>3, <2>2
  <1>12. \A s \in Services : Cardinality(Recent(checks', s))
                               = IF s \in passed THEN 0 ELSE Cardinality(Recent(checks, s)) + 1
    BY <1>1, <1>3, <1>4, StreakThen
  <1> HIDE DEF N, M
  <1>13. Rounds(n + 1)'
    <2>0. /\ {q.number : q \in rounds} = 1..(n + 1) /\ OneRow(rounds)
          /\ OpenRow(r) \in rounds
          /\ OpenRow(r).number = n + 1 /\ ClosedRow(r).number = n + 1
      BY <1>1, <1>a, <1>b DEF Rounds, NumbersTo, OpenRow, ClosedRow
    <2>1. {q.number : q \in rounds'} = 1..(n + 1)
      BY <1>3, <2>0
    <2>5. OneRow(rounds')
      BY <1>3, <2>0 DEF OneRow
    <2>6. OfClosed(round_score', rounds')
      <3>1. ClosedRow(r) \in rounds' /\ ClosedRow(r).round_end # Open
        BY <1>a, <1>3 DEF Pending, ClosedRow, Open
      <3>2. \A w \in M : w.number = ClosedRow(r).number
        BY <1>8, <2>0
      <3>3. \A q \in rounds : q.round_end # Open => q \in rounds'
        BY <1>3 DEF OpenRow
      <3>4. OfClosed(round_score, rounds)
        BY <1>a DEF Rounds
      <3> QED
        BY <1>3, <3>1, <3>2, <3>3, <3>4 DEF OfClosed
    <2>2. OneEach(checks')
      BY <1>3, <1>4, <1>7 DEF OneEach
    <2>3. IsFiniteSet(checks') /\ IsFiniteSet(round_score')
      BY <1>3, <1>4, <1>10, FS_Union
    <2>4. checks' \in SUBSET CheckRows(n + 1) /\ round_score' \in SUBSET ScoreRows(n + 1)
      BY <1>3, <1>4, <1>7, <1>8
    <2> QED
      BY <2>1, <2>2, <2>3, <2>4, <2>5, <2>6 DEF Rounds, NumbersTo
  <1>14. Types'
    <2>1. Counts(passed) \in [Services -> Nat]
      BY <1>5 DEF Types, Counts
    <2> QED
      BY <1>3, <1>5, <2>1 DEF Types
  <1>15. ASSUME ~repriced' PROVE Exact(round_score', points', checks', n + 1)
    <2>1. Exact(round_score, points, checks, n)
      BY <1>1, <1>3, <1>15
    <2>2. \A k \in 1..n : \A t : Earned(points', checks', t, k) = Earned(points, checks, t, k)
      BY <1>3, <1>11 DEF Earned
    <2>3. \A t \in Teams : Earned(points', checks', t, n + 1) = earned[t]
      <3>1. \A t : Earned(points', checks', t, n + 1)
                      = SumOver(points, {s \in passed : TeamOf[s] = t})
        BY <1>3, <1>11 DEF Earned
      <3>2. \A t : EarnedBy(t, passed) = SumOver(points, {s \in passed : TeamOf[s] = t})
        BY EarnedIsSum
      <3>3. \A t \in Teams : earned[t] = EarnedBy(t, passed)
        BY <1>1, <1>3, <1>15
      <3> QED
        BY <3>1, <3>2, <3>3
    <2>4. \A w \in round_score' :
            w.service_points # 0 /\ w.service_points = Earned(points', checks', w.team, w.number)
      <3> TAKE w \in round_score'
      <3>1. CASE w \in round_score
        BY <1>4, <1>8, <2>1, <2>2, <3>1 DEF Exact
      <3>2. CASE w \in M
        BY <1>8, <2>3, <3>2
      <3> QED
        BY <1>3, <3>1, <3>2
    <2>5. ASSUME NEW k \in 1..(n + 1), NEW t \in Teams, Earned(points', checks', t, k) # 0
          PROVE  \E w \in round_score' : w.number = k /\ w.team = t
      <3>1. CASE k = n + 1
        BY <1>3, <1>9, <2>3, <2>5, <3>1
      <3>2. CASE k \in 1..n
        BY <1>3, <2>1, <2>2, <2>5, <3>2 DEF Exact
      <3> QED
        BY <1>1, <3>1, <3>2
    <2> QED
      BY <2>4, <2>5 DEF Exact
  <1>16. \A s \in Services \ tampered' : failures'[s] = Cardinality(Recent(checks', s))
    BY <1>a, <1>3, <1>12 DEF Kept, Counts
  <1>17. Kept(n + 1)'
    BY <1>15, <1>16 DEF Kept
  <1>18. Pending(n + 1)'
    BY <1>3 DEF Pending
  <1>19. n + 1 \in Nat
    BY <1>1
  <1> QED
    BY <1>13, <1>14, <1>17, <1>18, <1>19 DEF IInv

\* So does a round that fails, whose row is removed or stays without checks.
LEMMA FailKeeps ==
  ASSUME IInv, FailRound
  PROVE  IInv'
  <1>1. PICK n \in Nat : Rounds(n) /\ Kept(n) /\ Pending(n)
    BY DEF IInv
  <1>2. /\ closing' = {} /\ rounds' \in {rounds, rounds \ {OpenRow(r) : r \in closing}}
        /\ UNCHANGED <<now, checks, round_score, failures, points, config, freeze, tampered, repriced>>
    BY DEF FailRound, settings, history
  <1>3. Types' /\ \A k \in Nat : Pending(k)'
    BY <1>2 DEF IInv, Types, Pending
  <1>4. CASE rounds' = rounds
    <2>1. Rounds(n)' /\ Kept(n)'
      BY <1>1, <1>2, <1>4 DEF Rounds, NumbersTo, Kept
    <2> QED
      BY <1>3, <2>1 DEF IInv
  <1>5. CASE rounds' # rounds
    <2>1. PICK r \in closing : OpenRow(r) \in rounds
      BY <1>2, <1>5
    <2>2. /\ closing = {r} /\ r.number = n /\ n - 1 \in Nat
          /\ checks \in SUBSET CheckRows(n - 1) /\ round_score \in SUBSET ScoreRows(n - 1)
          /\ ~repriced => Exact(round_score, points, checks, n - 1)
      BY <1>1, <2>1, ClosingIsLast
    <2>3. rounds' = rounds \ {OpenRow(r)}
      BY <1>2, <1>5, <2>2
    <2>4. /\ {q.number : q \in rounds} = 1..n /\ OneRow(rounds)
          /\ OpenRow(r) \in rounds /\ OpenRow(r).number = n
      BY <1>1, <2>1, <2>2 DEF Rounds, NumbersTo, OpenRow
    <2>5. {q.number : q \in rounds'} = 1..(n - 1)
      <3>1. {q.number : q \in rounds'} = {k \in 1..n : k # n}
        BY <2>3, <2>4 DEF OneRow
      <3>2. {k \in 1..n : k # n} = 1..(n - 1)
        OBVIOUS
      <3> QED
        BY <3>1, <3>2
    <2>6. OfClosed(round_score, rounds')
      BY <1>1, <2>3 DEF Rounds, OfClosed, OpenRow
    <2>7. Rounds(n - 1)'
      BY <1>1, <1>2, <2>2, <2>3, <2>5, <2>6 DEF Rounds, NumbersTo, OneRow
    <2>8. Kept(n - 1)'
      BY <1>1, <1>2, <2>2 DEF Kept
    <2> QED
      BY <1>3, <2>2, <2>7, <2>8 DEF IInv
  <1> QED
    BY <1>4, <1>5

\* Deleting the last rounds keeps the invariant.
LEMMA RollbackKeeps ==
  ASSUME IInv, NEW k \in 1..LastRound, Rollback(k)
  PROVE  IInv'
  <1>1. PICK n \in Nat : Rounds(n) /\ Kept(n) /\ Pending(n)
    BY DEF IInv
  <1>2. k \in 1..n
    BY <1>1, LastIs DEF Rounds
  <1>3. /\ rounds' = {r \in rounds : r.number < k}
        /\ checks' = {c \in checks : c.number < k}
        /\ round_score' = {w \in round_score : w.number < k}
        /\ tampered' = Services
        /\ UNCHANGED <<now, points, config, freeze, repriced, failures, closing>>
    BY DEF Rollback, ScoresBefore, settings
  <1>4. k - 1 \in Nat
    BY <1>2
  <1>5. Rounds(k - 1)'
    <2>1. {r.number : r \in rounds'} = 1..(k - 1)
      BY <1>1, <1>2, <1>3, NumbersBefore DEF Rounds, NumbersTo
    <2>2. IsFiniteSet(checks') /\ IsFiniteSet(round_score')
      BY <1>1, <1>3, FS_Subset DEF Rounds
    <2>3. checks' \in SUBSET CheckRows(k - 1) /\ round_score' \in SUBSET ScoreRows(k - 1)
      BY <1>1, <1>2, <1>3 DEF Rounds, CheckRows, ScoreRows
    <2>4. OneEach(checks')
      BY <1>1, <1>3 DEF Rounds, OneEach
    <2>5. OneRow(rounds')
      BY <1>1, <1>3 DEF Rounds, OneRow
    <2>6. OfClosed(round_score', rounds')
      BY <1>1, <1>3 DEF Rounds, OfClosed
    <2> QED
      BY <2>1, <2>2, <2>3, <2>4, <2>5, <2>6 DEF Rounds, NumbersTo
  <1>6. Types'
    BY <1>3 DEF IInv, Types
  <1>7. ASSUME ~repriced' PROVE Exact(round_score', points', checks', k - 1)
    <2>1. Exact(round_score, points, checks, n)
      BY <1>1, <1>3, <1>7 DEF Kept
    <2>2. \A j \in 1..(k - 1) : Passed(checks', j) = Passed(checks, j)
      BY <1>2, <1>3 DEF Passed, Passing
    <2>3. \A j \in 1..(k - 1) : \A t : Earned(points', checks', t, j) = Earned(points, checks, t, j)
      BY <1>3, <2>2 DEF Earned
    <2>4. \A w \in round_score' : w \in round_score /\ w.number \in 1..(k - 1)
      BY <1>1, <1>2, <1>3 DEF Rounds, ScoreRows
    <2>5. \A j \in 1..(k - 1) : j \in 1..n /\ j < k
      BY <1>2
    <2> QED
      BY <1>3, <2>1, <2>3, <2>4, <2>5 DEF Exact
  <1>8. Kept(k - 1)'
    BY <1>3, <1>7 DEF Kept
  <1>9. Pending(k - 1)'
    <2>1. \A r \in closing : r.number \in Nat /\ r.number > k - 1 /\ r.number # k - 1
      BY <1>1, <1>2 DEF Pending
    <2> QED
      BY <1>1, <1>3, <1>4, <2>1 DEF Pending
  <1> QED
    BY <1>4, <1>5, <1>6, <1>8, <1>9 DEF IInv

\* Changing a setting leaves the rounds and their scores alone.
LEMMA SettingsLeaveRounds ==
  ASSUME UpdateSettings
  PROVE  /\ UNCHANGED <<now, rounds, round_score, adjustments>>
         /\ UNCHANGED <<checks, failures, points, tampered, repriced, closing>>
         /\ freeze' = freeze \/ freeze' \in {NotFrozen} \cup 1..MaxTime
  BY DEF UpdateSettings, UpdateSlaEnabled, UpdateAllowNegative, UpdateDynamicEnabled,
         UpdateThreshold, UpdatePercent, UpdateMaxPercent, UpdatePenaltyMode,
         UpdateEarlyRounds, UpdateEarlyMultiplier, UpdateLateStart, UpdateLateMultiplier,
         SetWeightedScoring, ToggleInjectScoresVisible, SetFreeze, Toggle, Enter,
         Configure, tables, settings, history

\* What is written to the configuration is one.
LEMMA SettingsTyped ==
  ASSUME config \in SLAConfig, UpdateSettings
  PROVE  config' \in SLAConfig
  <1>1. ASSUME NEW name \in {"sla_enabled", "allow_negative", "dynamic_enabled"}, Toggle(name)
        PROVE  config' \in SLAConfig
    BY <1>1 DEF Toggle, Configure, SLAConfig
  <1>2. ASSUME NEW name \in Numbers, Enter(name)
        PROVE  config' \in SLAConfig
    <2>1. PICK v \in Values[name] : Accepted(v) /\ config' = [config EXCEPT ![name] = v]
      BY <1>2 DEF Enter, Configure
    <2>2. v \in Nat \ {0}
      BY <2>1, StandingsAssumption DEF Accepted
    <2> QED
      BY <2>1, <2>2 DEF Numbers, SLAConfig
  <1>3. ASSUME UpdatePenaltyMode PROVE config' \in SLAConfig
    BY <1>3 DEF UpdatePenaltyMode, Configure, SLAConfig
  <1>4. ASSUME SetWeightedScoring PROVE config' \in SLAConfig
    <2>1. PICK enabled \in BOOLEAN, asked \in Weights :
            LET good(i) == \A j \in 1..i : asked[j] >= 0
                written == [config EXCEPT !["weighted_scoring_enabled"] = enabled]
            IN  config' = [name \in DOMAIN written |->
                  IF \E i \in 1..3 : WeightNames[i] = name /\ good(i)
                  THEN asked[CHOOSE i \in 1..3 : WeightNames[i] = name]
                  ELSE written[name]]
      BY <1>4 DEF SetWeightedScoring, Configure
    <2> DEFINE written == [config EXCEPT !["weighted_scoring_enabled"] = enabled]
               good(name) == \E i \in 1..3 : WeightNames[i] = name /\ \A j \in 1..i : asked[j] >= 0
               entered(name) == asked[CHOOSE i \in 1..3 : WeightNames[i] = name]
    <2>2. config' = [name \in DOMAIN written |-> IF good(name) THEN entered(name) ELSE written[name]]
      BY <2>1, Zenon
    <2>3. written \in SLAConfig
      BY DEF SLAConfig
    <2>4. ASSUME NEW name, good(name)
          PROVE  /\ name \in {"service_weight", "inject_weight", "flag_weight"}
                 /\ entered(name) \in Nat
      <3>1. PICK i \in 1..3 : WeightNames[i] = name /\ \A j \in 1..i : asked[j] >= 0
        BY <2>4
      <3>2. \A j \in 1..3 : WeightNames[j] = name => j = i
        BY <3>1 DEF WeightNames
      <3>3. (CHOOSE j \in 1..3 : WeightNames[j] = name) = i
        BY <3>1, <3>2
      <3>4. asked[i] \in Nat
        BY <3>1, StandingsAssumption
      <3> QED
        BY <3>1, <3>3, <3>4 DEF WeightNames
    <2> HIDE DEF written, good, entered
    <2> QED
      BY <2>2, <2>3, <2>4 DEF SLAConfig
  <1>5. CASE UNCHANGED config
    BY <1>5
  <1> QED
    BY <1>1, <1>2, <1>3, <1>4, <1>5
    DEF UpdateSettings, UpdateSlaEnabled, UpdateAllowNegative, UpdateDynamicEnabled,
        UpdateThreshold, UpdatePercent, UpdateMaxPercent,
        UpdateEarlyRounds, UpdateEarlyMultiplier, UpdateLateStart, UpdateLateMultiplier,
        ToggleInjectScoresVisible, SetFreeze, Numbers

\* Correcting a check keeps the invariant: the scores are marked as no longer
\* those of the checks, and the counts of the service as well.
LEMMA CorrectionKeeps ==
  ASSUME IInv, NEW c \in checks, UpdateCheck(c)
  PROVE  IInv'
  <1>1. PICK n \in Nat : Rounds(n) /\ Kept(n) /\ Pending(n)
    BY DEF IInv
  <1> DEFINE d == [c EXCEPT !.result = ~c.result]
  <1>2. /\ checks' = (checks \ {c}) \cup {d}
        /\ tampered' = tampered \cup {c.service} /\ repriced' = TRUE
        /\ UNCHANGED <<now, rounds, round_score, points, config, freeze, failures, closing>>
    BY DEF UpdateCheck, settings
  <1>3. /\ d \in CheckRows(n) /\ d.number = c.number /\ d.service = c.service
        /\ c.service \in Services
        /\ checks \in SUBSET CheckRows(n - 1) => d \in CheckRows(n - 1)
    BY <1>1 DEF Rounds, CheckRows
  <1> HIDE DEF d
  <1>4. Rounds(n)'
    <2>1. OneEach(checks')
      BY <1>1, <1>2, <1>3 DEF Rounds, OneEach
    <2>2. IsFiniteSet(checks')
      BY <1>1, <1>2, FS_RemoveElement, FS_AddElement DEF Rounds
    <2> QED
      BY <1>1, <1>2, <1>3, <2>1, <2>2 DEF Rounds, NumbersTo
  <1>5. ASSUME NEW s \in Services \ tampered'
        PROVE  failures'[s] = Cardinality(Recent(checks', s))
    <2>1. s \in Services \ tampered /\ s # c.service
      BY <1>2
    <2>2. \A x : x.service = s => (x \in checks' <=> x \in checks)
      BY <1>2, <1>3, <2>1
    <2>3. Recent(checks', s) = Recent(checks, s)
      BY <2>2 DEF Recent
    <2> QED
      BY <1>1, <1>2, <2>1, <2>3 DEF Kept
  <1>6. Types'
    BY <1>2, <1>3 DEF IInv, Types
  <1>7. Pending(n)'
    BY <1>1, <1>2, <1>3 DEF Pending
  <1> QED
    BY <1>2, <1>4, <1>5, <1>6, <1>7 DEF IInv, Kept

\* Every step keeps the invariant.
LEMMA StandingsStep ==
  ASSUME IInv, [Next]_vars
  PROVE  IInv'
  <1>1. PICK n \in Nat : Rounds(n) /\ Kept(n) /\ Pending(n)
    BY DEF IInv
  <1>2. ASSUME UNCHANGED <<rounds, checks, round_score, failures, points, tampered, repriced, closing>>,
               Types'
        PROVE  IInv'
    <2>1. \A t, p : EarnedBy(t, p)' = EarnedBy(t, p)
      BY <1>2, EarnedIsSum
    <2>2. Pending(n)'
      BY <1>1, <1>2, <2>1 DEF Pending
    <2>3. Rounds(n)' /\ Kept(n)'
      BY <1>1, <1>2 DEF Rounds, NumbersTo, Kept
    <2> QED
      BY <1>2, <2>2, <2>3 DEF IInv
  <1>3. CASE UNCHANGED vars \/ Tick
    <2>1. Types'
      BY <1>3 DEF IInv, Types, vars, tables, settings, history, Tick
    <2> QED
      BY <1>2, <1>3, <2>1 DEF vars, tables, settings, history, Tick
  <1>4. CASE UpdateSettings
    <2>1. config' \in SLAConfig
      BY <1>4, SettingsTyped DEF IInv, Types
    <2>2. Types'
      BY <1>4, <2>1, SettingsLeaveRounds, StandingsAssumption DEF IInv, Types, NotFrozen
    <2> QED
      BY <1>2, <1>4, <2>2, SettingsLeaveRounds
  <1>5. ASSUME NEW t \in Teams, Adjust(t) \/ Grade(t) \/ Reopen(t)
        PROVE  IInv'
    <2>1. Types'
      BY <1>5 DEF IInv, Types, Adjust, Grade, Reopen, tables, settings, history
    <2> QED
      BY <1>2, <1>5, <2>1 DEF Adjust, Grade, Reopen, tables, settings, history
  <1>6. ASSUME NEW s \in Services, UpdatePoints(s)
        PROVE  IInv'
    <2>1. PICK p \in PointValues : points' = [points EXCEPT ![s] = p]
      BY <1>6 DEF UpdatePoints
    <2>2. /\ repriced' = (repriced \/ rounds # {})
          /\ UNCHANGED <<now, config, freeze, rounds, checks, round_score, failures, tampered, closing>>
      BY <1>6 DEF UpdatePoints, tables, settings
    <2>3. Types'
      BY <2>1, <2>2, StandingsAssumption DEF IInv, Types
    <2>4. ASSUME ~repriced' PROVE Exact(round_score', points', checks', n)
      <3>1. n = 0
        <4>1. rounds = {}
          BY <2>2, <2>4
        <4>2. 1..n = {}
          BY <1>1, <4>1 DEF Rounds, NumbersTo
        <4> QED
          BY <4>2
      <3>2. 1..n = {} /\ round_score = {}
        BY <1>1, <3>1 DEF Rounds, ScoreRows
      <3> QED
        BY <2>2, <3>2 DEF Exact
    <2>5. Rounds(n)' /\ Kept(n)'
      BY <1>1, <2>2, <2>4 DEF Rounds, NumbersTo, Kept
    <2>6. Pending(n)'
      <3>1. ASSUME NEW r \in closing, OpenRow(r) \in rounds PROVE repriced'
        BY <2>2, <3>1
      <3> QED
        BY <1>1, <2>2, <3>1 DEF Pending
    <2> QED
      BY <2>3, <2>5, <2>6 DEF IInv
  <1> QED
    BY <1>3, <1>4, <1>5, <1>6, OpenKeeps, CloseKeeps, FailKeeps, RollbackKeeps, CorrectionKeeps
    DEF Next, ChangeRecords

-----------------------------------------------------------------------------
(* The charts *)

\* The total of a function is the sum over its domain.
LEMMA TotalIs == ASSUME NEW f PROVE Total(f) = SumOver(f, DOMAIN f)
  BY Zenon DEF Total, SumOver

\* What the invariant says of the last round.
LEMMA LastKept ==
  ASSUME IInv
  PROVE  LastRound \in Nat /\ Rounds(LastRound) /\ Kept(LastRound)
  <1>1. PICK n \in Nat : Rounds(n) /\ Kept(n)
    BY DEF IInv
  <1>2. LastRound = n
    BY <1>1, LastIs DEF Rounds
  <1> QED
    BY <1>1, <1>2

\* The score of a team without a row is zero, and so is the sum over its rows.
LEMMA EntryIsSum ==
  ASSUME NEW f, NEW t
  PROVE  /\ Entry(TeamServiceScores(f), t) = ScaledSum(Of(t, RowsBy(f)), config)
         /\ Entry(AllTeamServiceScores(f), t) = StoredSum(Of(t, RowsBy(f)))
  <1> DEFINE T == {w.team : w \in RowsBy(f)}
             W == Of(t, RowsBy(f))
  <1>1. t \notin T => W = {}
    BY DEF Of
  <1>2. ScaledSum({}, config) = 0 /\ StoredSum({}) = 0
    BY TotalIs, SumEmpty DEF ScaledSum, StoredSum
  <1>3. /\ DOMAIN TeamServiceScores(f) = T /\ DOMAIN AllTeamServiceScores(f) = T
        /\ t \in T => /\ TeamServiceScores(f)[t] = ScaledSum(W, config)
                      /\ AllTeamServiceScores(f)[t] = StoredSum(W)
    BY DEF TeamServiceScores, AllTeamServiceScores
  <1> HIDE DEF T, W
  <1> QED
    BY <1>1, <1>2, <1>3 DEF Entry, W

\* Without multipliers a row counts as it is stored.
LEMMA ScaledAsStored ==
  ASSUME IInv, ~config.dynamic_enabled, NEW W \in SUBSET round_score
  PROVE  ScaledSum(W, config) = StoredSum(W)
  <1>1. config \in SLAConfig /\ \A w \in W : w.service_points \in Nat
    BY LastKept DEF IInv, Types, Rounds, ScoreRows
  <1>2. \A w \in W : Scaled(w.service_points, w.number, config) = w.service_points
    BY <1>1, ScaledIs
  <1>3. [w \in W |-> Scaled(w.service_points, w.number, config)] = [w \in W |-> w.service_points]
    BY <1>2
  <1> QED
    BY <1>3 DEF ScaledSum, StoredSum

\* The line chart ends at the bar.
LEMMA LineAndBar == IInv => LineMeetsBar
  <1> SUFFICES ASSUME IInv, NEW t \in Teams, NEW white \in {TRUE, freeze = NotFrozen}
               PROVE  /\ Cardinality(DOMAIN Line(t, white)) <= ChartPoints
                      /\ LastRound \in DOMAIN Line(t, white)
                      /\ Line(t, white)[LastRound] = Bar(t, white).raw_service
                      /\ white /\ ~config.dynamic_enabled =>
                           \A n \in DOMAIN Line(t, white) : Line(t, white)[n] = ArrayOfScores(t)[n]
    BY DEF LineMeetsBar
  <1> DEFINE f == EffectiveFreeze(white)
             rows == Of(t, RowsBy(f))
             upto(n) == {w \in rows : w.number <= n}
             S == Sample(LastRound + 1, ChartPoints)
  <1>1. LastRound \in Nat /\ rows \in SUBSET round_score /\ \A w \in rows : w.number \in 1..LastRound
    BY LastKept DEF Rounds, ScoreRows, Of, RowsBy
  <1>2. /\ S \in SUBSET (0..LastRound) /\ LastRound \in S /\ Cardinality(S) <= ChartPoints
    BY <1>1, SampleGood, ChartAssumption
  <1>3. Line(t, white) = [n \in S |-> ScaledSum(upto(n), config)]
    BY DEF Line
  <1>4. upto(LastRound) = rows
    BY <1>1
  <1>5. Bar(t, white).raw_service = ScaledSum(rows, config)
    <2>1. Bar(t, white).raw_service = Entry(TeamServiceScores(f), t)
      BY DEF Bar
    <2> QED
      BY <2>1, EntryIsSum
  <1>6. ASSUME white, ~config.dynamic_enabled, NEW n \in S
        PROVE  ScaledSum(upto(n), config) = ArrayOfScores(t)[n]
    <2>1. rows = Of(t, round_score)
      BY <1>6 DEF EffectiveFreeze, RowsBy, ClosedBy, Of, NotFrozen
    <2>2. ScaledSum(upto(n), config) = StoredSum(upto(n))
      BY <1>1, <1>6, ScaledAsStored
    <2>3. ArrayOfScores(t)[n] = StoredSum({w \in Of(t, round_score) : w.number <= n})
      BY <1>2 DEF ArrayOfScores
    <2> QED
      BY <2>1, <2>2, <2>3
  <1> HIDE DEF S, rows, upto
  <1> QED
    BY <1>2, <1>3, <1>4, <1>5, <1>6

-----------------------------------------------------------------------------
(* Penalties *)

\* The check rows and the services are finite.
LEMMA FiniteTables ==
  ASSUME IInv
  PROVE  /\ IsFiniteSet(checks) /\ IsFiniteSet(round_score)
         /\ \A s : IsFiniteSet(PassesOf(s)) /\ IsFiniteSet(FailuresOf(s))
         /\ \A t : IsFiniteSet(ServicesOf(t))
  <1>1. IsFiniteSet(checks) /\ IsFiniteSet(round_score)
    BY LastKept DEF Rounds
  <1>2. \A s : PassesOf(s) \in SUBSET checks /\ FailuresOf(s) \in SUBSET checks
    BY DEF PassesOf, FailuresOf
  <1>3. \A t : ServicesOf(t) \in SUBSET Services
    BY DEF ServicesOf
  <1> QED
    BY <1>1, <1>2, <1>3, StandingsAssumption, FS_Subset

\* What the checks of a service earned, each scaled for itself.
EarnedOf(s) == [c \in PassesOf(s) |-> Scaled(points[s], c.number, config)]

\* The base of a service is the sum of what its passing checks earned.
LEMMA BaseIsSum ==
  ASSUME IInv, NEW s \in Services
  PROVE  /\ Summable(EarnedOf(s), PassesOf(s))
         /\ \A c \in PassesOf(s) : EarnedOf(s)[c] \in Nat
         /\ ServiceBase(s) = SumOver(EarnedOf(s), PassesOf(s))
         /\ ServiceBase(s) \in Nat
  <1> DEFINE P == PassesOf(s)
             f == EarnedOf(s)
  <1>1. points[s] \in Nat /\ config \in SLAConfig /\ IsFiniteSet(P)
    BY FiniteTables DEF IInv, Types
  <1>2. DOMAIN f = P /\ \A c \in P : f[c] \in Nat /\ (~config.dynamic_enabled => f[c] = points[s])
    BY <1>1, ScaledIs DEF EarnedOf
  <1> HIDE DEF P, f
  <1>3. Summable(f, P) /\ (\A c \in P : f[c] >= 0)
    BY <1>1, <1>2 DEF Summable
  <1>4. SumOver(f, P) \in Int /\ 0 <= SumOver(f, P)
    BY <1>3, SumInt, SumOfPart
  <1>5. CASE config.dynamic_enabled
    <2>1. ServiceBase(s) = Total(f)
      BY <1>5 DEF ServiceBase, EarnedOf, f
    <2> QED
      BY <1>2, <1>3, <1>4, <2>1, TotalIs DEF P, f
  <1>6. CASE ~config.dynamic_enabled
    <2>1. SumOver(f, P) = Cardinality(P) * points[s]
      BY <1>1, <1>2, <1>6, SumOfEqual
    <2>2. ServiceBase(s) = Cardinality(P) * points[s]
      BY <1>6 DEF ServiceBase, ScoreEarned, P
    <2> QED
      BY <1>2, <1>3, <1>4, <2>1, <2>2 DEF P, f
  <1> QED
    BY <1>5, <1>6

\* Counting the passing checks in three buckets comes to the same.
LEMMA BucketsAgree ==
  ASSUME IInv, NEW s \in Services
  PROVE  BatchedBase(s) = ServiceBase(s)
  <1>1. CASE ~config.dynamic_enabled
    BY <1>1 DEF BatchedBase, ServiceBase
  <1>2. CASE config.dynamic_enabled
    <2> DEFINE P == PassesOf(s)
               f == EarnedOf(s)
               p == points[s]
               early == config.early_rounds
               late == config.late_start_round
               at(m) == IntProduct(p, m, Unit)
               first == {c \in P : c.number <= early}
               middle == {c \in P : c.number > early /\ c.number < late}
               last == {c \in P : c.number > early /\ c.number >= late}
    <2>1. /\ p \in Nat /\ config \in SLAConfig /\ IsFiniteSet(P) /\ Unit \in Nat \ {0}
          /\ \A c \in P : c.number \in Nat
      <3>1. \A c \in P : c.number \in Nat
        BY LastKept DEF Rounds, CheckRows, PassesOf
      <3>2. p \in Nat /\ config \in SLAConfig
        BY DEF IInv, Types
      <3> QED
        BY <3>1, <3>2, FiniteTables, UnitAssumption
    <2>2. /\ early \in Nat /\ late \in Nat
          /\ config.early_multiplier \in Nat /\ config.late_multiplier \in Nat
      BY <2>1 DEF SLAConfig
    <2>3. \A c \in P : f[c] = at(Multiplier(c.number, config))
      BY DEF EarnedOf, Scaled
    <2>4. at(Unit) = p
      BY <2>1, WholeProduct
    <2>5. \A a \in Nat : at(a) \in Int
      <3> TAKE a \in Nat
      <3>1. LET got == IntProduct(p, a, Unit) IN got \in Nat
        BY <2>1, IntProductIs
      <3> QED
        BY <3>1
    <2> HIDE DEF at, f, P, p
    <2>6. /\ \A c \in first : f[c] = at(config.early_multiplier)
          /\ \A c \in middle : f[c] = p
          /\ \A c \in last : f[c] = at(config.late_multiplier)
      BY <1>2, <2>1, <2>2, <2>3, <2>4 DEF Multiplier
    <2>7. /\ IsFiniteSet(first) /\ IsFiniteSet(middle) /\ IsFiniteSet(last)
      BY <2>1, FS_Subset
    <2>8. /\ P = first \cup (middle \cup last)
          /\ first \cap (middle \cup last) = {} /\ middle \cap last = {}
      BY <2>1, <2>2
    <2> HIDE DEF first, middle, last
    <2>9. /\ Summable(f, first) /\ SumOver(f, first) = Cardinality(first) * at(config.early_multiplier)
          /\ Summable(f, middle) /\ SumOver(f, middle) = Cardinality(middle) * p
          /\ Summable(f, last) /\ SumOver(f, last) = Cardinality(last) * at(config.late_multiplier)
      BY <2>1, <2>2, <2>5, <2>6, <2>7, SumOfEqual
    <2>10. /\ Summable(f, middle \cup last)
           /\ SumOver(f, middle \cup last) = SumOver(f, middle) + SumOver(f, last)
      BY <2>8, <2>9, SumOfUnion
    <2>11. SumOver(f, P) = SumOver(f, first) + SumOver(f, middle \cup last)
      BY <2>8, <2>9, <2>10, SumOfUnion
    <2>12. Bucketed(s) = Cardinality(first) * at(config.early_multiplier)
                         + Cardinality(middle) * p + Cardinality(last) * at(config.late_multiplier)
      BY Zenon DEF Bucketed, first, middle, last, at, p, P
    <2>13. SumOver(f, first) \in Int /\ SumOver(f, middle) \in Int /\ SumOver(f, last) \in Int
      BY <2>9, SumInt
    <2>14. ServiceBase(s) = SumOver(f, P)
      BY BaseIsSum DEF f, P
    <2>15. BatchedBase(s) = Bucketed(s)
      BY <1>2 DEF BatchedBase
    <2> QED
      BY <2>9, <2>10, <2>11, <2>12, <2>13, <2>14, <2>15
  <1> QED
    BY <1>1, <1>2

\* The streak of a service, and its penalty.
LEMMA StreakType ==
  ASSUME IInv, NEW s \in Services
  PROVE  /\ ConsecutiveFailures(s) = Cardinality(Recent(checks, s))
         /\ ConsecutiveFailures(s) \in Nat
         /\ ConsecutiveFailures(s) <= Cardinality(FailuresOf(s))
         /\ s \notin tampered => failures[s] = ConsecutiveFailures(s)
         /\ failures[s] \in Nat
  <1> DEFINE R == {c \in FailuresOf(s) : \A p \in PassesOf(s) : p.number < c.number}
  <1>1. R = Recent(checks, s)
    BY DEF FailuresOf, PassesOf, Recent
  <1>2. R \in SUBSET FailuresOf(s)
    OBVIOUS
  <1>3. ConsecutiveFailures(s) = Cardinality(R)
    BY DEF ConsecutiveFailures
  <1> HIDE DEF R
  <1>4. Cardinality(R) \in Nat /\ Cardinality(R) <= Cardinality(FailuresOf(s))
    BY <1>2, FiniteTables, FS_Subset, FS_CardinalityType
  <1> QED
    BY <1>1, <1>3, <1>4, LastKept DEF Kept, IInv, Types

\* The penalty of a service and its percentage are natural numbers.
LEMMA PenaltyType ==
  ASSUME IInv, NEW s \in Services
  PROVE  /\ ServicePenalty(s) \in Nat
         /\ PenaltyPercent(ConsecutiveFailures(s), config) \in Nat
         /\ PenaltyPercent(ConsecutiveFailures(s), config) = 0 => ServicePenalty(s) = 0
  <1>1. config \in SLAConfig
    BY DEF IInv, Types
  <1> QED
    BY <1>1, BaseIsSum, StreakType, PenaltyPercentType, PercentType DEF ServicePenalty

\* Which services of a team are charged, and what for.
Percent(s) == PenaltyPercent(failures[s], config)
Penalty(s) == PercentOf(BatchedBase(s), Percent(s))
Charged(t) == {s \in ServicesOf(t) : Percent(s) > 0 /\ Penalty(s) # 0}
PenaltiesOf(S) == [s \in S |-> Penalty(s)]

\* team_penalties has for every team the sum over the services it charges.
LEMMA ChargeIsSum ==
  ASSUME IInv, NEW t \in Teams
  PROVE  /\ Entry(TeamPenalties, t) = SumOver(PenaltiesOf(Charged(t)), Charged(t))
         /\ IsFiniteSet(Charged(t)) /\ Charged(t) \in SUBSET ServicesOf(t)
  <1> DEFINE charged == {s \in Services : Percent(s) > 0 /\ Penalty(s) # 0}
             of(u) == {s \in charged : TeamOf[s] = u}
             T == {TeamOf[s] : s \in charged}
  <1>1. of(t) = Charged(t)
    BY DEF Charged, ServicesOf
  <1>2. TeamPenalties = [u \in T |-> Total([s \in of(u) |-> Penalty(s)])]
    BY Zenon DEF TeamPenalties, Percent, Penalty
  <1>3. t \notin T => of(t) = {}
    OBVIOUS
  <1>4. Total([s \in of(t) |-> Penalty(s)]) = SumOver(PenaltiesOf(of(t)), of(t))
    BY TotalIs DEF PenaltiesOf
  <1>5. IsFiniteSet(Charged(t)) /\ Charged(t) \in SUBSET ServicesOf(t)
    <2>1. Charged(t) \in SUBSET ServicesOf(t)
      BY DEF Charged
    <2> QED
      BY <2>1, FiniteTables, FS_Subset
  <1> HIDE DEF charged, of, T
  <1>6. Entry(TeamPenalties, t) = IF t \in T THEN Total([s \in of(t) |-> Penalty(s)]) ELSE 0
    BY <1>2 DEF Entry
  <1> QED
    BY <1>1, <1>3, <1>4, <1>5, <1>6, SumEmpty

\* The services that are skipped would be charged nothing, and the others are
\* charged the same.
LEMMA BatchAgrees == IInv => PenaltiesAgree
  <1> SUFFICES ASSUME IInv, NEW t \in Teams, ServicesOf(t) \cap tampered = {}
               PROVE  Entry(TeamPenalties, t) = TeamTotalPenalties(t)
    BY DEF PenaltiesAgree
  <1> DEFINE S == ServicesOf(t)
             f == [s \in S |-> ServicePenalty(s)]
             g == PenaltiesOf(Charged(t))
  <1>1. S \in SUBSET Services /\ IsFiniteSet(S)
    BY FiniteTables DEF ServicesOf
  <1>2. ASSUME NEW s \in S
        PROVE  Percent(s) = PenaltyPercent(ConsecutiveFailures(s), config) /\ Penalty(s) = ServicePenalty(s)
    <2>1. failures[s] = ConsecutiveFailures(s)
      BY <1>1, StreakType
    <2>2. BatchedBase(s) = ServiceBase(s)
      BY <1>1, BucketsAgree
    <2> QED
      BY <2>1, <2>2 DEF Percent, Penalty, ServicePenalty
  <1>3. \A s \in S : /\ ServicePenalty(s) \in Nat /\ Percent(s) \in Nat
                     /\ Percent(s) = 0 => ServicePenalty(s) = 0
    BY <1>1, <1>2, PenaltyType
  <1>4. Summable(f, S)
    BY <1>1, <1>3 DEF Summable
  <1>5. Charged(t) \in SUBSET S /\ \A s \in S \ Charged(t) : f[s] = 0
    BY <1>2, <1>3 DEF Charged
  <1>6. \A s \in Charged(t) : f[s] = g[s]
    BY <1>2, <1>5 DEF PenaltiesOf
  <1>7. Entry(TeamPenalties, t) = SumOver(g, Charged(t)) /\ IsFiniteSet(Charged(t))
    BY ChargeIsSum
  <1>8. config.sla_enabled => TeamTotalPenalties(t) = SumOver(f, S)
    BY TotalIs DEF TeamTotalPenalties
  <1>9. ~config.sla_enabled => TeamTotalPenalties(t) = 0 /\ Charged(t) = {}
    <2>1. config \in SLAConfig
      BY DEF IInv, Types
    <2>2. \A s \in S : ~config.sla_enabled => Percent(s) = 0
      BY <1>1, <2>1, StreakType, PenaltyPercentType DEF Percent
    <2> QED
      BY <2>2 DEF TeamTotalPenalties, Charged
  <1> HIDE DEF S, f, g
  <1>10. SumOver(f, Charged(t)) = SumOver(g, Charged(t))
    <2>1. Summable(f, Charged(t))
      BY <1>4, <1>5, <1>7 DEF Summable
    <2> QED
      BY <1>6, <2>1, SumAgree
  <1>11. SumOver(f, Charged(t)) = SumOver(f, S)
    BY <1>4, <1>5, SumOfNonzero
  <1>12. SumOver(g, {}) = 0
    BY SumEmpty
  <1> QED
    BY <1>7, <1>8, <1>9, <1>10, <1>11, <1>12

\* The statistics, the checks and the rows of a round.

PassesIn(t, n) == {c \in checks : c.number = n /\ c.result /\ TeamOf[c.service] = t}
WorthOf(C) == [c \in C |-> points[c.service]]
RoundEarned(t, n) == Earned(points, checks, t, n)

\* What a team earned in a round, counted on checks and on services.
LEMMA RoundIsEarned ==
  ASSUME IInv, NEW t, NEW n \in 1..LastRound
  PROVE  /\ SumOver(WorthOf(PassesIn(t, n)), PassesIn(t, n)) = RoundEarned(t, n)
         /\ RoundEarned(t, n) \in Nat
         /\ IsFiniteSet(PassesIn(t, n))
  <1> DEFINE C == PassesIn(t, n)
             f == WorthOf(C)
             h == [c \in C |-> c.service]
             S == {s \in Passed(checks, n) : TeamOf[s] = t}
  <1>1. /\ C \in SUBSET checks /\ IsFiniteSet(C)
        /\ checks \in SUBSET CheckRows(LastRound) /\ OneEach(checks)
        /\ points \in [Services -> Nat]
    <2>1. C \in SUBSET checks
      BY DEF PassesIn
    <2> QED
      BY <2>1, LastKept, FiniteTables, FS_Subset DEF Rounds, IInv, Types
  <1>2. \A c \in C : c.service \in Services /\ f[c] \in Nat /\ f[c] = points[h[c]]
    BY <1>1 DEF WorthOf, CheckRows
  <1>3. Summable(f, C) /\ \A c \in C : f[c] >= 0
    BY <1>1, <1>2 DEF Summable
  <1>4. \A c, d \in C : h[c] = h[d] => c = d
    BY <1>1 DEF PassesIn, OneEach
  <1>5. S = {h[c] : c \in C}
    <2>1. \A c \in C : h[c] \in S
      <3> TAKE c \in C
      <3>1. c \in CheckRows(LastRound) /\ c \in checks /\ c.number = n /\ c.result /\ TeamOf[c.service] = t
        BY <1>1 DEF PassesIn
      <3>2. c = Passing(n, c.service)
        BY <3>1 DEF CheckRows, Passing
      <3> QED
        BY <1>2, <3>1, <3>2 DEF Passed
    <2>2. ASSUME NEW s \in S PROVE \E c \in C : h[c] = s
      <3>1. Passing(n, s) \in checks /\ TeamOf[s] = t
        BY DEF Passed
      <3>2. /\ Passing(n, s).number = n /\ Passing(n, s).result = TRUE
            /\ Passing(n, s).service = s
        BY DEF Passing
      <3>3. Passing(n, s) \in C
        BY <3>1, <3>2 DEF PassesIn
      <3> QED
        BY <3>2, <3>3
    <2> HIDE DEF S, C
    <2> QED
      BY <2>1, <2>2
  <1>6. SumOver(f, C) \in Int /\ 0 <= SumOver(f, C)
    <2> HIDE DEF C, f
    <2> QED
      BY <1>3, SumInt, SumOfPart
  <1>7. SumOver(f, C) = SumOver(points, S)
    <2> DOMAIN h = C
      OBVIOUS
    <2> HIDE DEF C, f, h, S
    <2> QED
      BY <1>2, <1>3, <1>4, <1>5, SumImage
  <1> QED
    BY <1>1, <1>6, <1>7 DEF RoundEarned, Earned

-----------------------------------------------------------------------------
(* Statistics *)

\* What a team earned, round by round, each round scaled.
RoundsOf(t) == [n \in 1..LastRound |-> Scaled(RoundEarned(t, n), n, config)]

\* The stored rows of a team add up to what it earned round by round: a round
\* without a row is one in which it earned nothing.
LEMMA RowsAreRounds ==
  ASSUME IInv, ~repriced, NEW t \in Teams
  PROVE  ScaledSum(Of(t, round_score), config) = SumOver(RoundsOf(t), 1..LastRound)
  <1> DEFINE W == Of(t, round_score)
             N == 1..LastRound
             f == [w \in W |-> Scaled(w.service_points, w.number, config)]
             g == RoundsOf(t)
             h == [w \in W |-> w.number]
             K == {h[w] : w \in W}
  <1>1. /\ round_score \in SUBSET ScoreRows(LastRound) /\ IsFiniteSet(round_score)
        /\ Exact(round_score, points, checks, LastRound)
        /\ config \in SLAConfig /\ LastRound \in Nat
    BY LastKept DEF Rounds, Kept, IInv, Types
  <1>2. W \in SUBSET round_score /\ \A w \in W : w.team = t
    BY DEF Of
  <1>3. \A w \in W : /\ w.number \in N /\ w.service_points \in Nat
                     /\ w.service_points = RoundEarned(t, w.number)
                     /\ w = [number |-> w.number, team |-> t, service_points |-> w.service_points]
    BY <1>1, <1>2 DEF ScoreRows, Exact, RoundEarned
  <1>4. IsFiniteSet(W) /\ IsFiniteSet(N)
    BY <1>1, <1>2, FS_Subset, FS_Interval
  <1>5. \A n \in N : g[n] \in Nat /\ (RoundEarned(t, n) = 0 => g[n] = 0)
    <2>1. \A n \in N : RoundEarned(t, n) \in Nat
      BY RoundIsEarned
    <2> QED
      BY <1>1, <2>1, ScaledIs DEF RoundsOf
  <1>6. \A w \in W : f[w] = g[h[w]] /\ h[w] \in N
    BY <1>3 DEF RoundsOf
  <1>7. \A v, w \in W : h[v] = h[w] => v = w
    BY <1>3
  <1>8. \A n \in N \ K : g[n] = 0
    <2> TAKE n \in N \ K
    <2>1. \A w \in round_score : ~(w.number = n /\ w.team = t)
      BY <1>2 DEF Of
    <2>2. RoundEarned(t, n) = 0
      BY <1>1, <2>1 DEF Exact, RoundEarned
    <2> QED
      BY <1>5, <2>2
  <1>9. ScaledSum(W, config) = SumOver(f, W)
    BY TotalIs DEF ScaledSum
  <1>10. Summable(f, W) /\ Summable(g, N) /\ K \in SUBSET N /\ DOMAIN h = W
    <2>1. Summable(g, N)
      BY <1>4, <1>5 DEF Summable
    <2>2. \A w \in W : f[w] \in Int
      BY <1>5, <1>6
    <2>3. K \in SUBSET N /\ DOMAIN h = W
      BY <1>6
    <2> HIDE DEF f, W, K, N
    <2> QED
      BY <1>4, <2>1, <2>2, <2>3 DEF Summable
  <1> HIDE DEF W, N, f, g, h
  <1>11. SumOver(f, W) = SumOver(g, K)
    BY <1>6, <1>7, <1>10, SumImage
  <1> HIDE DEF K
  <1>12. SumOver(g, K) = SumOver(g, N)
    BY <1>8, <1>10, SumOfNonzero
  <1> QED
    BY <1>9, <1>11, <1>12 DEF W, N, g

\* Without a freeze every row counts.
LEMMA LiveRows == RowsBy(NotFrozen) = round_score
  BY DEF RowsBy, ClosedBy

\* The overview shows the sum over a team's rows, less its penalties.
LEMMA OverviewEntry ==
  ASSUME NEW t \in Teams
  PROVE  Entry(OverviewScores(TRUE), t) =
           IF config.sla_enabled
           THEN Adjusted(ScaledSum(Of(t, round_score), config), Entry(TeamPenalties, t), config)
           ELSE ScaledSum(Of(t, round_score), config)
  <1>1. Entry(TeamServiceScores(NotFrozen), t) = ScaledSum(Of(t, round_score), config)
    BY EntryIsSum, LiveRows
  <1>2. OverviewScores(TRUE) =
          IF config.sla_enabled
          THEN [u \in Teams |-> Adjusted(Entry(TeamServiceScores(NotFrozen), u),
                                       Entry(TeamPenalties, u), config)]
          ELSE TeamServiceScores(NotFrozen)
    BY DEF OverviewScores, EffectiveFreeze
  <1>3. CASE config.sla_enabled
    <2>1. /\ DOMAIN OverviewScores(TRUE) = Teams
          /\ OverviewScores(TRUE)[t]
               = Adjusted(Entry(TeamServiceScores(NotFrozen), t), Entry(TeamPenalties, t), config)
      BY <1>2, <1>3
    <2> QED
      BY <1>1, <1>3, <2>1 DEF Entry
  <1>4. CASE ~config.sla_enabled
    BY <1>1, <1>2, <1>4
  <1> QED
    BY <1>3, <1>4

\* The statistics show what the overview shows.
LEMMA StatisticsAgreeKept == IInv => StatisticsAgree
  <1> SUFFICES ASSUME IInv, NEW t \in Teams
               PROVE  /\ ~repriced /\ ServicesOf(t) \cap tampered = {} =>
                           ScoringOverview(t).service = Entry(OverviewScores(TRUE), t)
                      /\ injects[t].status = "Graded" =>
                           ScoringOverview(t).inject = CurrentInjectScore(t)
                      /\ UpDown(t).up = Total([name \in {NameOf[s] : s \in Services} |->
                                                Breakdown(name, LastRound, {t}).up])
    BY Zenon DEF StatisticsAgree
  <1>1. ASSUME ~repriced, ServicesOf(t) \cap tampered = {}
        PROVE  ScoringOverview(t).service = Entry(OverviewScores(TRUE), t)
    <2> DEFINE passed(n) == {c \in checks : c.number = n /\ c.result /\ TeamOf[c.service] = t}
               round(n) == Total([c \in passed(n) |-> points[c.service]])
               base == Total([n \in 1..LastRound |-> Scaled(round(n), n, config)])
    <2>1. \A n \in 1..LastRound : round(n) = RoundEarned(t, n)
      <3> TAKE n \in 1..LastRound
      <3>1. round(n) = SumOver(WorthOf(PassesIn(t, n)), PassesIn(t, n))
        BY TotalIs DEF WorthOf, PassesIn
      <3> QED
        BY <3>1, RoundIsEarned
    <2> HIDE DEF round
    <2>2. [n \in 1..LastRound |-> Scaled(round(n), n, config)] = RoundsOf(t)
      BY <2>1 DEF RoundsOf
    <2>3. DOMAIN RoundsOf(t) = 1..LastRound
      BY DEF RoundsOf
    <2>4. base = ScaledSum(Of(t, round_score), config)
      BY <1>1, <2>2, <2>3, TotalIs, RowsAreRounds
    <2>5. ScoringOverview(t).service =
            IF config.sla_enabled THEN Adjusted(base, TeamTotalPenalties(t), config) ELSE base
      BY DEF ScoringOverview, round
    <2>6. Entry(TeamPenalties, t) = TeamTotalPenalties(t)
      BY <1>1, BatchAgrees DEF PenaltiesAgree
    <2> QED
      BY <2>4, <2>5, <2>6, OverviewEntry
  <1>2. injects[t].status = "Graded" => ScoringOverview(t).inject = CurrentInjectScore(t)
    BY DEF ScoringOverview, CurrentInjectScore
  <1>3. UpDown(t).up = Total([name \in {NameOf[s] : s \in Services} |-> Breakdown(name, LastRound, {t}).up])
    <2> DEFINE X == {NameOf[s] : s \in Services}
               C == {c \in LastResults(t) : c.result}
               k == [c \in C |-> NameOf[c.service]]
               g == [name \in X |-> Breakdown(name, LastRound, {t}).up]
    <2>1. checks \in SUBSET CheckRows(LastRound)
      BY LastKept DEF Rounds
    <2>2. IsFiniteSet(C)
      <3>1. C \in SUBSET checks
        BY DEF LastResults
      <3> QED
        BY <3>1, FiniteTables, FS_Subset
    <2>3. IsFiniteSet(X)
      BY StandingsAssumption, FiniteImage
    <2>4. \A c \in C : k[c] \in X
      BY <2>1 DEF LastResults, CheckRows
    <2>5. ASSUME NEW y \in X PROVE g[y] = Cardinality(WithKey(C, k, y))
      <3> DEFINE D == {c \in checks : /\ c.number = LastRound /\ c.result = TRUE
                                      /\ NameOf[c.service] = y /\ TeamOf[c.service] \in {t}}
      <3>1. D = WithKey(C, k, y)
        BY <2>1 DEF WithKey, LastResults, CheckRows
      <3>2. Breakdown(y, LastRound, {t}).up = Cardinality(D)
        BY DEF Breakdown
      <3> HIDE DEF D
      <3> QED
        BY <3>1, <3>2
    <2>6. UpDown(t).up = Cardinality(C)
      BY DEF UpDown
    <2>7. DOMAIN g = X
      OBVIOUS
    <2> HIDE DEF C, k, g, X
    <2>8. SumOver(g, X) = Cardinality(C)
      BY <2>2, <2>3, <2>4, <2>5, CountByKey
    <2>9. UpDown(t).up = Total(g)
      BY <2>6, <2>7, <2>8, TotalIs
    <2> QED
      BY <2>9 DEF g, X
  <1> QED
    BY <1>1, <1>2, <1>3

-----------------------------------------------------------------------------
(* What penalties leave *)

\* All that the checks of a team passed, each scaled for itself.
PassesOfTeam(t) == {c \in checks : c.result /\ TeamOf[c.service] = t}
EachScaled(C) == [c \in C |-> Scaled(points[c.service], c.number, config)]

\* What single checks earned are natural numbers.
LEMMA EachType ==
  ASSUME IInv, NEW C \in SUBSET checks
  PROVE  /\ IsFiniteSet(C) /\ Summable(EachScaled(C), C)
         /\ \A c \in C : /\ c.service \in Services /\ c.number \in 1..LastRound
                         /\ c.result \in BOOLEAN
                         /\ points[c.service] \in Nat
                         /\ Multiplier(c.number, config) \in Nat
                         /\ EachScaled(C)[c] \in Nat
                         /\ EachScaled(C)[c]
                              <= (points[c.service] * Multiplier(c.number, config)) \div Unit
  <1>1. \A c \in C : /\ c.service \in Services /\ c.number \in 1..LastRound
                     /\ c.result \in BOOLEAN
    BY LastKept DEF Rounds, CheckRows
  <1>2. IsFiniteSet(C)
    BY FiniteTables, FS_Subset
  <1>3. config \in SLAConfig /\ points \in [Services -> Nat]
    BY DEF IInv, Types
  <1>4. \A c \in C : /\ points[c.service] \in Nat
                     /\ Multiplier(c.number, config) \in Nat
                     /\ EachScaled(C)[c] \in Nat
                     /\ EachScaled(C)[c]
                          <= (points[c.service] * Multiplier(c.number, config)) \div Unit
    BY <1>1, <1>3, ScaledIs DEF EachScaled
  <1> QED
    BY <1>1, <1>2, <1>4 DEF Summable

\* The bases of a team's services add up to what its checks earned.
LEMMA BasesAreChecks ==
  ASSUME IInv, NEW t \in Teams
  PROVE  LET b == [s \in ServicesOf(t) |-> ServiceBase(s)]
             C == PassesOfTeam(t)
         IN  /\ Summable(b, ServicesOf(t)) /\ \A s \in ServicesOf(t) : b[s] \in Nat
             /\ SumOver(b, ServicesOf(t)) = SumOver(EachScaled(C), C)
  <1> DEFINE S == ServicesOf(t)
             C == PassesOfTeam(t)
             b == [s \in S |-> ServiceBase(s)]
             f == EachScaled(C)
             k == [c \in C |-> c.service]
  <1>1. C \in SUBSET checks
    BY DEF PassesOfTeam
  <1>2. Summable(f, C) /\ \A c \in C : k[c] \in S
    BY <1>1, EachType DEF PassesOfTeam, ServicesOf
  <1>3. IsFiniteSet(S)
    BY FiniteTables
  <1>4. ASSUME NEW s \in S PROVE b[s] = SumOver(f, WithKey(C, k, s)) /\ b[s] \in Nat
    <2>1. s \in Services
      BY DEF ServicesOf
    <2>2. WithKey(C, k, s) = PassesOf(s)
      BY <1>1 DEF WithKey, PassesOfTeam, PassesOf, ServicesOf
    <2>3. \A c \in PassesOf(s) : EarnedOf(s)[c] = f[c]
      BY <2>2 DEF EarnedOf, EachScaled, PassesOf, WithKey
    <2>4. SumOver(EarnedOf(s), PassesOf(s)) = SumOver(f, PassesOf(s))
      BY <2>1, <2>3, BaseIsSum, SumAgree
    <2> QED
      BY <2>1, <2>2, <2>4, BaseIsSum
  <1> HIDE DEF S, C, f, k, b
  <1>5. Summable(b, S) /\ SumOver(b, S) = SumOver(f, C)
    BY <1>2, <1>3, <1>4, SumByKey
  <1> QED
    BY <1>4, <1>5 DEF S, C, f, b

\* Whether the product of a round fell short.
ShortBy(t) ==
  [n \in 1..LastRound |->
     IF <<RoundEarned(t, n), Multiplier(n, config), Unit>> \in FallsShort THEN 1 ELSE 0]

\* A round, scaled at once, is worth no less than its checks, each scaled, but
\* for the point it may fall short.
LEMMA ChecksWithinRounds ==
  ASSUME IInv, NEW t \in Teams
  PROVE  SumOver(EachScaled(PassesOfTeam(t)), PassesOfTeam(t))
           <= SumOver(RoundsOf(t), 1..LastRound) + SumOver(ShortBy(t), 1..LastRound)
  <1> DEFINE C == PassesOfTeam(t)
             N == 1..LastRound
             f == EachScaled(C)
             k == [c \in C |-> c.number]
             g == [n \in N |-> SumOver(f, WithKey(C, k, n))]
  <1>1. C \in SUBSET checks
    BY DEF PassesOfTeam
  <1>2. Summable(f, C) /\ (\A c \in C : k[c] \in N) /\ \A c \in C : f[c] \in Nat
    BY <1>1, EachType
  <1>3. IsFiniteSet(N)
    BY LastKept, FS_Interval
  <1>4. ASSUME NEW n \in N
        PROVE  /\ RoundsOf(t)[n] \in Nat /\ ShortBy(t)[n] \in 0..1
               /\ g[n] <= RoundsOf(t)[n] + ShortBy(t)[n]
    <2> DEFINE D == WithKey(C, k, n)
               p == WorthOf(PassesIn(t, n))
               m == Multiplier(n, config)
    <2>1. D = PassesIn(t, n) /\ D \in SUBSET C
      BY DEF WithKey, PassesOfTeam, PassesIn
    <2>2. config \in SLAConfig
      BY DEF IInv, Types
    <2>3. /\ RoundEarned(t, n) \in Nat /\ IsFiniteSet(D)
          /\ SumOver(p, D) = RoundEarned(t, n)
      BY <2>1, RoundIsEarned
    <2>4. /\ m \in Nat /\ (RoundEarned(t, n) * m) \div Unit <= RoundsOf(t)[n] + ShortBy(t)[n]
          /\ RoundsOf(t)[n] \in Nat /\ ShortBy(t)[n] \in 0..1
          /\ (RoundEarned(t, n) * m) \div Unit \in Nat
      BY <2>2, <2>3, ScaledIs DEF RoundsOf, ShortBy
    <2>5. \A c \in D : p[c] \in Nat /\ f[c] \in Nat /\ f[c] <= (p[c] * m) \div Unit
      <3> TAKE c \in D
      <3>1. c \in C /\ c.number = n /\ p[c] = points[c.service]
        BY <2>1 DEF WithKey, WorthOf, PassesIn
      <3> QED
        BY <1>1, <3>1, EachType
    <2> HIDE DEF D, p, m, f
    <2>6. SumOver(f, D) <= (SumOver(p, D) * m) \div Unit
      BY <2>3, <2>4, <2>5, UnitAssumption, SumOfQuotients
    <2>7. g[n] = SumOver(f, D)
      BY DEF D
    <2>8. SumOver(f, D) \in Int
      BY <2>3, <2>5, SumInt DEF Summable
    <2> QED
      BY <2>3, <2>4, <2>6, <2>7, <2>8
  <1>5. \A n \in N : g[n] = SumOver(f, WithKey(C, k, n))
    OBVIOUS
  <1> HIDE DEF C, f, k, g, N
  <1>6. Summable(g, N) /\ SumOver(g, N) = SumOver(f, C)
    BY <1>2, <1>3, <1>5, SumByKey
  <1>7. Summable(RoundsOf(t), N) /\ Summable(ShortBy(t), N)
    BY <1>3, <1>4 DEF Summable
  <1>8. SumOver(g, N) <= SumOver(RoundsOf(t), N) + SumOver(ShortBy(t), N)
    BY <1>4, <1>6, <1>7, SumWithin
  <1> QED
    BY <1>6, <1>8 DEF N, f, C

\* The rounds that fell short are those of the rows that did.
LEMMA ShortOnes ==
  ASSUME IInv, ~repriced, NEW t \in Teams
  PROVE  SumOver(ShortBy(t), 1..LastRound) = Cardinality(ShortRounds(t))
  <1> DEFINE V == ShortRounds(t)
             N == 1..LastRound
             e == [w \in V |-> 1]
             h == [w \in V |-> w.number]
             K == {h[w] : w \in V}
             g == ShortBy(t)
  <1>1. /\ round_score \in SUBSET ScoreRows(LastRound) /\ IsFiniteSet(round_score)
        /\ Exact(round_score, points, checks, LastRound) /\ LastRound \in Nat
    BY LastKept DEF Rounds, Kept
  <1>2. V \in SUBSET round_score /\ \A w \in V : w.team = t
    BY DEF ShortRounds, Of
  <1>3. \A w \in V : /\ w.number \in N /\ w.service_points = RoundEarned(t, w.number)
                     /\ w = [number |-> w.number, team |-> t, service_points |-> w.service_points]
                     /\ <<w.service_points, Multiplier(w.number, config), Unit>> \in FallsShort
    BY <1>1, <1>2 DEF ScoreRows, Exact, RoundEarned, ShortRounds
  <1>4. IsFiniteSet(V) /\ IsFiniteSet(N)
    BY <1>1, <1>2, FS_Subset, FS_Interval
  <1>5. \A w \in V : e[w] = g[h[w]] /\ h[w] \in N /\ e[w] = 1
    BY <1>3 DEF ShortBy
  <1>6. \A v, w \in V : h[v] = h[w] => v = w
    BY <1>3
  <1>7. \A n \in N \ K : g[n] = 0
    <2> SUFFICES ASSUME NEW n \in N, g[n] # 0 PROVE n \in K
      OBVIOUS
    <2>1. <<RoundEarned(t, n), Multiplier(n, config), Unit>> \in FallsShort
      BY DEF ShortBy
    <2>2. RoundEarned(t, n) # 0
      BY <2>1, FloatAssumption
    <2>3. PICK w \in round_score : w.number = n /\ w.team = t
      BY <1>1, <2>2 DEF Exact, RoundEarned
    <2>4. w.service_points = RoundEarned(t, n)
      BY <1>1, <2>3 DEF Exact, RoundEarned
    <2>5. w \in V
      BY <2>1, <2>3, <2>4 DEF ShortRounds, Of
    <2> QED
      BY <2>3, <2>5
  <1>8. \A n \in N : g[n] \in Int
    BY DEF ShortBy
  <1>9. DOMAIN h = V
    OBVIOUS
  <1> HIDE DEF V, N, e, h, g
  <1>10. Summable(e, V) /\ SumOver(e, V) = Cardinality(V) * 1
    BY <1>4, <1>5, SumOfEqual
  <1>11. SumOver(e, V) = SumOver(g, K)
    BY <1>5, <1>6, <1>9, <1>10, SumImage
  <1>12. Summable(g, N) /\ K \in SUBSET N
    BY <1>4, <1>5, <1>8 DEF Summable
  <1> HIDE DEF K
  <1>13. SumOver(g, K) = SumOver(g, N)
    BY <1>7, <1>12, SumOfNonzero
  <1>14. Cardinality(V) \in Nat
    BY <1>4, FS_CardinalityType
  <1> QED
    BY <1>10, <1>11, <1>13, <1>14 DEF V, N, g

\* Penalties within 100 percent of each service's base are within the team's,
\* but for what its rounds fell short.
LEMMA PenaltiesBounded == IInv => PenaltiesWithinBase
  <1> SUFFICES ASSUME IInv, ~config.allow_negative, config.penalty_max_percent <= 100, ~repriced,
                      NEW t \in Teams
               PROVE  Entry(TeamPenalties, t) <= TeamBase(t) + Cardinality(ShortRounds(t))
    BY DEF PenaltiesWithinBase
  <1> DEFINE S == ServicesOf(t)
             R == Charged(t)
             p == PenaltiesOf(R)
             b == [s \in S |-> ServiceBase(s)]
             C == PassesOfTeam(t)
  <1>1. config \in SLAConfig /\ config.penalty_max_percent \in Nat
    BY DEF IInv, Types, SLAConfig
  <1>2. S \in SUBSET Services /\ IsFiniteSet(R) /\ R \in SUBSET S
    BY ChargeIsSum DEF ServicesOf
  <1>3. ASSUME NEW s \in S PROVE Penalty(s) \in Nat /\ Penalty(s) <= b[s]
    <2>1. BatchedBase(s) = b[s] /\ b[s] \in Nat
      BY <1>2, BucketsAgree, BaseIsSum
    <2>2. failures[s] \in Nat
      BY <1>2, StreakType
    <2>3. Percent(s) \in Nat /\ Percent(s) <= 100
      BY <1>1, <2>2, PenaltyPercentType DEF Percent
    <2> HIDE DEF b
    <2> QED
      BY <2>1, <2>3, PercentType DEF Penalty
  <1>4. /\ Summable(b, S) /\ \A s \in S : b[s] \in Nat
        /\ SumOver(b, S) = SumOver(EachScaled(C), C)
    BY BasesAreChecks
  <1>5. \A s \in R : p[s] \in Nat /\ p[s] <= b[s]
    BY <1>2, <1>3 DEF PenaltiesOf
  <1>6. Entry(TeamPenalties, t) = SumOver(p, R)
    BY ChargeIsSum
  <1>7. SumOver(EachScaled(C), C)
          <= SumOver(RoundsOf(t), 1..LastRound) + Cardinality(ShortRounds(t))
    BY ChecksWithinRounds, ShortOnes
  <1>8. SumOver(RoundsOf(t), 1..LastRound) = TeamBase(t)
    <2>1. Of(t, round_score) \in SUBSET round_score
      BY DEF Of
    <2>2. ~config.dynamic_enabled =>
            ScaledSum(Of(t, round_score), config) = StoredSum(Of(t, round_score))
      BY <2>1, ScaledAsStored
    <2> QED
      BY <2>2, RowsAreRounds DEF TeamBase, TeamDynamicScore, CurrentScore
  <1>9. SumOver(RoundsOf(t), 1..LastRound) \in Int
    <2>1. IsFiniteSet(1..LastRound)
      BY LastKept, FS_Interval
    <2>2. \A n \in 1..LastRound : RoundsOf(t)[n] \in Int
      BY <1>1, RoundIsEarned, ScaledType DEF RoundsOf
    <2> QED
      BY <2>1, <2>2, SumInt DEF Summable
  <1> HIDE DEF S, R, p, b, C
  <1>10. Summable(p, R) /\ Summable(b, R)
    BY <1>2, <1>4, <1>5 DEF Summable
  <1>11. SumOver(p, R) <= SumOver(b, R)
    BY <1>5, <1>10, SumCompare
  <1>12. \A s \in S : b[s] >= 0
    BY <1>4
  <1>13. SumOver(b, R) <= SumOver(b, S)
    BY <1>2, <1>4, <1>12, SumOfPart
  <1>14. SumOver(p, R) \in Int /\ SumOver(b, R) \in Int /\ SumOver(b, S) \in Int
    BY <1>4, <1>10, SumInt
  <1>15. Cardinality(ShortRounds(t)) \in Int
    <2>1. ShortRounds(t) \in SUBSET round_score
      BY DEF ShortRounds, Of
    <2> QED
      BY <2>1, FiniteTables, FS_Subset, FS_CardinalityType
  <1> QED
    BY <1>4, <1>6, <1>7, <1>8, <1>9, <1>11, <1>13, <1>14, <1>15

-----------------------------------------------------------------------------
(* The pages of a service *)

\* Every check of a service, counted round by round.
LEMMA SummaryCounts ==
  ASSUME IInv, NEW s \in Services
  PROVE  /\ Summary(NameOf[s], {TeamOf[s]}).up = Cardinality(PassesOf(s))
         /\ Summary(NameOf[s], {TeamOf[s]}).down = Cardinality(FailuresOf(s))
  <1> DEFINE name == NameOf[s]
             T == {TeamOf[s]}
             N == 1..LastRound
             of(n, result) == {c \in checks : /\ c.number = n /\ c.result = result
                                              /\ NameOf[c.service] = name /\ TeamOf[c.service] \in T}
             up == [n \in N |-> Breakdown(name, n, T).up]
             down == [n \in N |-> Breakdown(name, n, T).down]
             P == PassesOf(s)
             F == FailuresOf(s)
             kp == [c \in P |-> c.number]
             kf == [c \in F |-> c.number]
  <1>1. \A c \in checks : /\ c.service \in Services /\ c.number \in N /\ c.result \in BOOLEAN
    BY LastKept DEF Rounds, CheckRows
  <1>2. \A c \in checks : c.service = s <=> NameOf[c.service] = name /\ TeamOf[c.service] \in T
    BY <1>1, StandingsAssumption
  <1>3. \A n \in N : of(n, TRUE) = WithKey(P, kp, n) /\ of(n, FALSE) = WithKey(F, kf, n)
    BY <1>1, <1>2 DEF WithKey, PassesOf, FailuresOf
  <1>4. \A n \in N : /\ up[n] = Cardinality(of(n, TRUE))
                     /\ down[n] = Cardinality(of(n, FALSE))
    BY DEF Breakdown
  <1>5. IsFiniteSet(N) /\ IsFiniteSet(P) /\ IsFiniteSet(F)
    BY LastKept, FiniteTables, FS_Interval
  <1>6. (\A c \in P : kp[c] \in N) /\ (\A c \in F : kf[c] \in N)
    BY <1>1 DEF PassesOf, FailuresOf
  <1>7. Summary(name, T).up = Total(up) /\ Summary(name, T).down = Total(down)
    BY DEF Summary
  <1>8. DOMAIN up = N /\ DOMAIN down = N
    OBVIOUS
  <1> HIDE DEF N, P, F, kp, kf, up, down, of
  <1>9. SumOver(up, N) = Cardinality(P) /\ SumOver(down, N) = Cardinality(F)
    <2>1. \A n \in N : up[n] = Cardinality(WithKey(P, kp, n)) /\ down[n] = Cardinality(WithKey(F, kf, n))
      BY <1>3, <1>4
    <2> QED
      BY <1>5, <1>6, <2>1, CountByKey
  <1> QED
    BY <1>7, <1>8, <1>9, TotalIs DEF P, F

\* A service's page shows what its passing checks earned.
LEMMA EarnedAsBase ==
  ASSUME IInv, NEW s \in Services
  PROVE  EarnedAs(NameOf[s], TeamOf[s]) = ServiceBase(s)
  <1> DEFINE C == {c \in checks : /\ c.result
                                  /\ TeamOf[c.service] = TeamOf[s] /\ NameOf[c.service] = NameOf[s]}
  <1>1. C = PassesOf(s)
    <2>1. \A c \in checks : c.service \in Services
      BY LastKept DEF Rounds, CheckRows
    <2> QED
      BY <2>1, StandingsAssumption DEF PassesOf
  <1>2. \A c \in PassesOf(s) : c.service = s
    BY DEF PassesOf
  <1>3. [c \in C |-> Scaled(points[c.service], c.number, config)] = EarnedOf(s)
    BY <1>1, <1>2 DEF EarnedOf
  <1>4. EarnedAs(NameOf[s], TeamOf[s]) = Total([c \in C |-> Scaled(points[c.service], c.number, config)])
    BY DEF EarnedAs
  <1>5. DOMAIN EarnedOf(s) = PassesOf(s)
    BY DEF EarnedOf
  <1> HIDE DEF C
  <1> QED
    BY <1>3, <1>4, <1>5, TotalIs, BaseIsSum

\* Without penalties the checks of a service's page add up to its base.
LEMMA ChecksAddUp ==
  ASSUME IInv, NEW s \in Services, ~config.sla_enabled
  PROVE  Total([c \in PassesOf(s) \cup FailuresOf(s) |-> CheckEarned(c)]) = ServiceBase(s)
  <1> DEFINE P == PassesOf(s)
             F == FailuresOf(s)
             f == [c \in P \cup F |-> CheckEarned(c)]
  <1>1. \A n : PenaltyPercent(n, config) = 0
    BY DEF PenaltyPercent
  <1>2. ASSUME NEW c \in P PROVE f[c] = EarnedOf(s)[c]
    <2> DEFINE base == Scaled(points[c.service], c.number, config)
               since == {d \in FailuresOf(c.service) :
                           /\ d.number < c.number
                           /\ \A p \in PassesOf(c.service) : p.number < c.number => p.number < d.number}
    <2>1. c.service = s /\ c.result
      BY DEF PassesOf
    <2>2. base = EarnedOf(s)[c] /\ base \in Nat
      <3>1. base = EarnedOf(s)[c]
        BY <2>1 DEF EarnedOf
      <3> QED
        BY <3>1, BaseIsSum
    <2>3. CheckEarned(c) = Truncated(base * (100 - PenaltyPercent(Cardinality(since), config)), 100)
      BY <2>1, Zenon DEF CheckEarned
    <2>4. CheckEarned(c) = Truncated(base * (100 - 0), 100)
      <3> HIDE DEF since, base
      <3> QED
        BY <1>1, <2>3
    <2> HIDE DEF base
    <2>5. Truncated(base * (100 - 0), 100) = base
      BY <2>2 DEF Truncated
    <2> QED
      BY <2>2, <2>4, <2>5
  <1>3. ASSUME NEW c \in F PROVE f[c] = 0
    <2>1. ~c.result
      BY DEF FailuresOf
    <2>2. CheckEarned(c) = 0
      BY <2>1 DEF CheckEarned
    <2> QED
      BY <2>2
  <1>4. Summable(EarnedOf(s), P)
    BY BaseIsSum
  <1>5. IsFiniteSet(P \cup F)
    BY FiniteTables, FS_Union
  <1>6. DOMAIN f = P \cup F
    OBVIOUS
  <1> HIDE DEF P, F, f
  <1>7. Summable(f, P \cup F)
    BY <1>2, <1>3, <1>4, <1>5 DEF Summable
  <1>8. SumOver(f, P) = SumOver(f, P \cup F)
    BY <1>3, <1>7, SumOfNonzero
  <1>9. SumOver(EarnedOf(s), P) = SumOver(f, P)
    BY <1>2, <1>4, SumAgree
  <1>10. Total(f) = ServiceBase(s)
    BY <1>6, <1>8, <1>9, TotalIs, BaseIsSum DEF P
  <1> QED
    BY <1>10 DEF P, F, f

\* The pages of a service agree.
LEMMA PagesAgree == IInv => ServicePagesAgree
  <1> SUFFICES ASSUME IInv, NEW s \in Services
               PROVE  LET status  == SlaStatus(s)
                          summary == Summary(NameOf[s], {TeamOf[s]})
                      IN  /\ EarnedAs(NameOf[s], TeamOf[s]) = status.base_score
                          /\ ~config.sla_enabled =>
                               Total([c \in PassesOf(s) \cup FailuresOf(s) |-> CheckEarned(c)])
                                 = status.base_score
                          /\ status.adjusted_score <= status.base_score
                          /\ summary.up * points[s] = ScoreEarned(s)
                          /\ summary.down >= status.consecutive_failures
    BY Zenon DEF ServicePagesAgree
  <1>1. /\ SlaStatus(s).base_score = ServiceBase(s)
        /\ SlaStatus(s).adjusted_score = Adjusted(ServiceBase(s), ServicePenalty(s), config)
        /\ SlaStatus(s).consecutive_failures = ConsecutiveFailures(s)
    BY DEF SlaStatus, ServiceAdjusted
  <1>2. Adjusted(ServiceBase(s), ServicePenalty(s), config) <= ServiceBase(s)
    BY BaseIsSum, PenaltyType, AdjustedWithin
  <1>3. Summary(NameOf[s], {TeamOf[s]}).up * points[s] = ScoreEarned(s)
    BY SummaryCounts DEF ScoreEarned
  <1>4. Summary(NameOf[s], {TeamOf[s]}).down >= ConsecutiveFailures(s)
    <2>1. Cardinality(FailuresOf(s)) \in Nat
      BY FiniteTables, FS_CardinalityType
    <2> QED
      BY <2>1, SummaryCounts, StreakType
  <1> QED
    BY <1>1, <1>2, <1>3, <1>4, EarnedAsBase, ChecksAddUp

-----------------------------------------------------------------------------
(* Places *)

\* The scores teams are ranked by are whole numbers, of finitely many teams.
LEMMA ScoresSummable ==
  ASSUME IInv
  PROVE  /\ Summable(OverviewScores(TRUE), DOMAIN OverviewScores(TRUE))
         /\ ~config.sla_enabled => OverviewScores(TRUE) = TeamServiceScores(NotFrozen)
  <1> DEFINE T == {w.team : w \in RowsBy(NotFrozen)}
  <1>1. OverviewScores(TRUE) =
          IF config.sla_enabled
          THEN [u \in Teams |-> Adjusted(Entry(TeamServiceScores(NotFrozen), u),
                                       Entry(TeamPenalties, u), config)]
          ELSE TeamServiceScores(NotFrozen)
    BY DEF OverviewScores, EffectiveFreeze
  <1>2. config \in SLAConfig
    BY DEF IInv, Types
  <1>3. ASSUME NEW t PROVE ScaledSum(Of(t, RowsBy(NotFrozen)), config) \in Int
    <2> DEFINE W == Of(t, RowsBy(NotFrozen))
               f == [w \in W |-> Scaled(w.service_points, w.number, config)]
    <2>1. W \in SUBSET round_score
      BY LiveRows DEF Of
    <2>2. IsFiniteSet(W)
      BY <2>1, FiniteTables, FS_Subset
    <2>3. \A w \in W : w.service_points \in Nat
      BY <2>1, LastKept DEF Rounds, ScoreRows
    <2>4. Summable(f, W) /\ DOMAIN f = W
      BY <1>2, <2>2, <2>3, ScaledType DEF Summable
    <2>5. ScaledSum(W, config) = Total(f)
      BY DEF ScaledSum
    <2> HIDE DEF f, W
    <2> QED
      BY <2>4, <2>5, TotalIs, SumInt DEF W
  <1>4. T \in SUBSET Teams /\ IsFiniteSet(T)
    <2>1. T \in SUBSET Teams
      BY LiveRows, LastKept DEF Rounds, ScoreRows
    <2> QED
      BY <2>1, StandingsAssumption, FS_Subset
  <1>5. CASE ~config.sla_enabled
    <2>1. DOMAIN TeamServiceScores(NotFrozen) = T
      BY DEF TeamServiceScores
    <2>2. \A t \in T : TeamServiceScores(NotFrozen)[t] = ScaledSum(Of(t, RowsBy(NotFrozen)), config)
      BY DEF TeamServiceScores
    <2> HIDE DEF T
    <2> QED
      BY <1>1, <1>3, <1>4, <1>5, <2>1, <2>2 DEF Summable
  <1>6. CASE config.sla_enabled
    <2>1. \A t \in Teams : Entry(TeamServiceScores(NotFrozen), t) \in Int
      BY <1>3, EntryIsSum
    <2>2. \A t \in Teams : Entry(TeamPenalties, t) \in Int
      <3> TAKE t \in Teams
      <3>1. Charged(t) \in SUBSET Services /\ IsFiniteSet(Charged(t))
        BY ChargeIsSum DEF ServicesOf
      <3>2. \A s \in Charged(t) : PenaltiesOf(Charged(t))[s] \in Int
        <4> TAKE s \in Charged(t)
        <4>1. s \in Services
          BY <3>1
        <4>2. BatchedBase(s) \in Nat /\ Percent(s) \in Nat
          BY <1>2, <4>1, BucketsAgree, BaseIsSum, StreakType, PenaltyPercentType DEF Percent
        <4> QED
          BY <4>2, PercentType DEF PenaltiesOf, Penalty
      <3> QED
        BY <3>1, <3>2, ChargeIsSum, SumInt DEF Summable
    <2>3. \A a \in Int, b \in Int : Adjusted(a, b, config) \in Int
      BY DEF Adjusted, NotNegative
    <2>4. DOMAIN OverviewScores(TRUE) = Teams
      BY <1>1, <1>6
    <2>5. \A t \in Teams : OverviewScores(TRUE)[t] \in Int
      BY <1>1, <1>6, <2>1, <2>2, <2>3
    <2> QED
      BY <1>6, <2>4, <2>5, StandingsAssumption DEF Summable
  <1> QED
    BY <1>5, <1>6

\* Places are ranks, and a team's own page shows the place of the overview.
LEMMA PlacesKept == IInv => PlacesAgree
  <1> SUFFICES ASSUME IInv, NEW t \in DOMAIN Ranks(OverviewScores(TRUE))
               PROVE  /\ Ranks(OverviewScores(TRUE))[t] = Place(OverviewScores(TRUE), t)
                      /\ ~config.sla_enabled /\ ~config.dynamic_enabled =>
                           TeamPlace(t) = Ranks(OverviewScores(TRUE))[t]
    BY DEF PlacesAgree
  <1> DEFINE scores == OverviewScores(TRUE)
  <1>1. Summable(scores, DOMAIN scores)
    BY ScoresSummable
  <1>2. t \in DOMAIN scores /\ Ranks(scores)[t] = Place(scores, t)
    BY <1>1, RanksArePlaces
  <1>3. ASSUME ~config.sla_enabled, ~config.dynamic_enabled
        PROVE  TeamPlace(t) = Ranks(scores)[t]
    <2> DEFINE T == {w.team : w \in RowsBy(NotFrozen)}
    <2>1. scores = [u \in T |-> ScaledSum(Of(u, RowsBy(NotFrozen)), config)]
      BY <1>3, ScoresSummable DEF TeamServiceScores
    <2>2. \A u : ScaledSum(Of(u, RowsBy(NotFrozen)), config) = StoredSum(Of(u, RowsBy(NotFrozen)))
      <3> TAKE u
      <3>1. Of(u, RowsBy(NotFrozen)) \in SUBSET round_score
        BY LiveRows DEF Of
      <3> QED
        BY <1>3, <3>1, ScaledAsStored
    <2>3. AllTeamServiceScores(NotFrozen) = [u \in T |-> StoredSum(Of(u, RowsBy(NotFrozen)))]
      BY DEF AllTeamServiceScores
    <2> HIDE DEF T, scores
    <2>4. AllTeamServiceScores(NotFrozen) = scores
      BY <2>1, <2>2, <2>3
    <2> QED
      BY <1>2, <2>4 DEF TeamPlace
  <1> QED
    BY <1>2, <1>3

-----------------------------------------------------------------------------
(* The freeze *)

\* Rounds are numbered without a gap, and a stored score is of one of them.
RoundsInv ==
  /\ now \in Nat /\ freeze \in Nat
  /\ \E n \in Nat : NumbersTo(n) /\ \A w \in round_score : w.number \in 1..n

\* The invariant says so.
LEMMA RoundsFollow == IInv => RoundsInv
  BY DEF IInv, Types, Rounds, ScoreRows, RoundsInv

\* The scores of some rows are natural numbers, and so is their sum.
LEMMA ScaledSumType ==
  ASSUME IInv, NEW W \in SUBSET round_score
  PROVE  /\ Summable([w \in W |-> Scaled(w.service_points, w.number, config)], W)
         /\ ScaledSum(W, config) \in Int
  <1> DEFINE f == [w \in W |-> Scaled(w.service_points, w.number, config)]
  <1>1. config \in SLAConfig /\ \A w \in W : w.service_points \in Nat
    BY LastKept DEF IInv, Types, Rounds, ScoreRows
  <1>2. IsFiniteSet(W)
    BY FiniteTables, FS_Subset
  <1>3. Summable(f, W) /\ DOMAIN f = W
    BY <1>1, <1>2, ScaledType DEF Summable
  <1>4. ScaledSum(W, config) = Total(f)
    BY DEF ScaledSum
  <1> HIDE DEF f
  <1> QED
    BY <1>3, <1>4, TotalIs, SumInt DEF f

\* The sum over one element.
LEMMA SumOfOne ==
  ASSUME NEW f, NEW x, f[x] \in Int
  PROVE  Summable(f, {x}) /\ SumOver(f, {x}) = f[x]
  <1>1. IsFiniteSet({x}) /\ Cardinality({x}) = 1
    BY FS_Singleton
  <1>2. SumOver(f, {x}) = Cardinality({x}) * f[x]
    BY <1>1, SumOfEqual
  <1> QED
    BY <1>1, <1>2 DEF Summable

\* The scores of a new round add what the team earned in it.
LEMMA NewScoreAdds ==
  ASSUME IInv, NEW m \in Nat, NEW earned \in [Teams -> Nat], NEW t \in Teams, NEW R,
         Of(t, R) \in SUBSET round_score, \A w \in round_score : w.number # m
  PROVE  ScaledSum(Of(t, R \cup NewScores(m, earned)), config)
           = ScaledSum(Of(t, R), config) + Scaled(earned[t], m, config)
  <1> DEFINE N == NewScores(m, earned)
             W == Of(t, R)
             w0 == [number |-> m, team |-> t, service_points |-> earned[t]]
             g(w) == Scaled(w.service_points, w.number, config)
             x == Scaled(earned[t], m, config)
  <1>1. x \in Nat /\ (earned[t] = 0 => x = 0)
    BY ScaledIs DEF IInv, Types
  <1>2. w0.number = m /\ w0.team = t /\ g(w0) = x
    OBVIOUS
  <1>3. Of(t, R \cup N) = W \cup Of(t, N)
    BY DEF Of
  <1>4. Of(t, N) = IF earned[t] = 0 THEN {} ELSE {w0}
    BY DEF Of, NewScores
  <1>5. w0 \notin W
    BY <1>2
  <1>6. Summable([w \in W |-> g(w)], W) /\ ScaledSum(W, config) \in Int
    BY ScaledSumType
  <1> HIDE DEF N, x, w0
  <1>7. CASE earned[t] = 0
    BY <1>1, <1>3, <1>4, <1>6, <1>7 DEF W, N, x
  <1>8. CASE earned[t] # 0
    <2> DEFINE V == W \cup {w0}
               f == [w \in V |-> g(w)]
               e == [w \in W |-> g(w)]
    <2>1. \A w \in W : f[w] = e[w]
      OBVIOUS
    <2>2. f[w0] = x /\ DOMAIN f = V /\ DOMAIN e = W
      BY <1>2
    <2>3. ScaledSum(V, config) = Total(f) /\ ScaledSum(W, config) = Total(e)
      BY DEF ScaledSum
    <2>4. Of(t, R \cup N) = V
      BY <1>3, <1>4, <1>8
    <2>5. Summable(e, W)
      BY <1>6
    <2> HIDE DEF f, e, W, V
    <2>6. Summable(f, W) /\ SumOver(f, W) = SumOver(e, W)
      BY <2>1, <2>5, SumAgree DEF Summable
    <2>7. Summable(f, {w0}) /\ SumOver(f, {w0}) = x
      BY <1>1, <2>2, SumOfOne
    <2>8. SumOver(f, W \cup {w0}) = SumOver(f, W) + SumOver(f, {w0})
      BY <1>5, <2>6, <2>7, SumOfUnion
    <2> QED
      BY <2>2, <2>3, <2>4, <2>6, <2>7, <2>8, TotalIs DEF V, W, N, x
  <1> QED
    BY <1>7, <1>8

\* The score of a team by the rows it has, or has none.
LEMMA ScoreByRows ==
  ASSUME NEW d, NEW R, NEW c, NEW t, d = [u \in {w.team : w \in R} |-> ScaledSum(Of(u, R), c)]
  PROVE  Entry(d, t) = ScaledSum(Of(t, R), c)
  <1>1. t \notin {w.team : w \in R} => Of(t, R) = {}
    BY DEF Of
  <1>2. ScaledSum({}, c) = 0
    BY TotalIs, SumEmpty DEF ScaledSum
  <1> QED
    BY <1>1, <1>2 DEF Entry

\* What the public sees of a team, before a step and after.
LEMMA FrozenBar ==
  ASSUME NEW t
  PROVE  /\ Bar(t, FALSE).raw_service = ScaledSum(Of(t, RowsBy(freeze)), config)
         /\ Bar(t, FALSE)'.raw_service = ScaledSum(Of(t, RowsBy(freeze)'), config')
         /\ Bar(t, FALSE).service
              = Weighted(Bar(t, FALSE).raw_service, config.service_weight, config)
         /\ Bar(t, FALSE)'.service
              = Weighted(Bar(t, FALSE)'.raw_service, config'.service_weight, config')
         /\ Bar(t, FALSE).adjustment = Entry(AdjustmentTotals(freeze), t)
         /\ Bar(t, FALSE)'.adjustment = Entry(AdjustmentTotals(freeze)', t)
  <1>1. /\ Bar(t, FALSE).raw_service = Entry(TeamServiceScores(freeze), t)
        /\ Bar(t, FALSE)'.raw_service = Entry(TeamServiceScores(freeze)', t)
    BY DEF Bar, EffectiveFreeze, Entry
  <1>2. TeamServiceScores(freeze)
          = [u \in {w.team : w \in RowsBy(freeze)} |-> ScaledSum(Of(u, RowsBy(freeze)), config)]
    BY DEF TeamServiceScores
  <1>3. TeamServiceScores(freeze)'
          = [u \in {w.team : w \in RowsBy(freeze)'} |-> ScaledSum(Of(u, RowsBy(freeze)'), config')]
    BY DEF TeamServiceScores, ScaledSum, Of
  <1>4. Entry(TeamServiceScores(freeze), t) = ScaledSum(Of(t, RowsBy(freeze)), config)
    BY <1>2, ScoreByRows
  <1>5. Entry(TeamServiceScores(freeze)', t) = ScaledSum(Of(t, RowsBy(freeze)'), config')
    BY <1>3, ScoreByRows
  <1>6. /\ Bar(t, FALSE).service
             = Weighted(Bar(t, FALSE).raw_service, config.service_weight, config)
        /\ Bar(t, FALSE)'.service
             = Weighted(Bar(t, FALSE)'.raw_service, config'.service_weight, config')
    BY DEF Bar
  <1>7. /\ Bar(t, FALSE).adjustment = Entry(AdjustmentTotals(freeze), t)
        /\ Bar(t, FALSE)'.adjustment = Entry(AdjustmentTotals(freeze)', t)
    BY DEF Bar, EffectiveFreeze, Entry
  <1> QED
    BY <1>1, <1>4, <1>5, <1>6, <1>7

\* The round being closed has no row that is closed already.
LEMMA NotYetClosed ==
  ASSUME IInv, NEW r \in closing
  PROVE  ClosedRow(r) \notin ClosedRounds
  <1> SUFFICES ASSUME ClosedRow(r) \in ClosedRounds PROVE FALSE
    OBVIOUS
  <1>1. PICK n \in Nat : Rounds(n) /\ Pending(n)
    BY DEF IInv
  <1>2. /\ ClosedRow(r) \in rounds /\ ClosedRow(r).number = r.number
        /\ ClosedRow(r).round_end # Open
    BY DEF ClosedRounds, ClosedRow
  <1>3. r.number \in 1..n
    BY <1>1, <1>2 DEF Rounds, NumbersTo
  <1>4. OpenRow(r) \in rounds
    BY <1>1, <1>3 DEF Pending
  <1>5. OpenRow(r).number = r.number /\ OpenRow(r).round_end = Open
    BY DEF OpenRow
  <1> QED
    BY <1>1, <1>2, <1>4, <1>5 DEF Rounds, OneRow

\* Where no round is closed and no score is lost, the public's bars stay.
LEMMA QuietStep ==
  ASSUME IInv, freeze' = freeze, config' = config,
         ClosedRounds' = ClosedRounds, round_score' = round_score,
         AdjustmentsBy(freeze)' = AdjustmentsBy(freeze), NEW t
  PROVE  /\ Bar(t, FALSE)'.raw_service = Bar(t, FALSE).raw_service + LandsUnderFreeze(t)
         /\ Bar(t, FALSE)'.service = Bar(t, FALSE).service
         /\ Bar(t, FALSE)'.adjustment = Bar(t, FALSE).adjustment
  <1>1. RowsBy(freeze)' = RowsBy(freeze)
    BY DEF RowsBy, ClosedBy
  <1>2. AdjustmentTotals(freeze)' = AdjustmentTotals(freeze)
    BY DEF AdjustmentTotals, Of, AwardSum
  <1>3. LandsUnderFreeze(t) = 0
    <2> DEFINE late == {r \in closing : ClosedRow(r) \in rounds' /\ r.round_end <= freeze}
    <2>1. \A r \in closing : r.round_end # Open
      BY DEF IInv, Pending, Open
    <2>2. \A r \in closing : ClosedRow(r) \in rounds' => ClosedRow(r) \in ClosedRounds'
      BY <2>1 DEF ClosedRounds, ClosedRow
    <2>3. late = {}
      BY <2>2, NotYetClosed
    <2>4. LandsUnderFreeze(t) = Total([r \in late |-> Scaled(r.earned[t], r.number, config)])
      BY DEF LandsUnderFreeze
    <2>5. DOMAIN [r \in late |-> Scaled(r.earned[t], r.number, config)] = {}
      BY <2>3
    <2> HIDE DEF late
    <2> QED
      BY <2>4, <2>5, TotalIs, SumEmpty
  <1>4. Bar(t, FALSE).raw_service \in Int
    <2> DEFINE W == Of(t, RowsBy(freeze))
    <2>1. W \in SUBSET round_score
      BY DEF Of, RowsBy
    <2> QED
      BY <2>1, FrozenBar, ScaledSumType
  <1>5. Bar(t, FALSE)'.raw_service = Bar(t, FALSE).raw_service
    BY <1>1, FrozenBar
  <1>6. Bar(t, FALSE)'.service = Bar(t, FALSE).service
    BY <1>5, FrozenBar
  <1>7. Bar(t, FALSE)'.adjustment = Bar(t, FALSE).adjustment
    BY <1>2, FrozenBar
  <1>8. Bar(t, FALSE).raw_service + LandsUnderFreeze(t) = Bar(t, FALSE).raw_service
    <2>1. \A i \in Int : i + 0 = i
      OBVIOUS
    <2> QED
      BY <1>3, <1>4, <2>1, Zenon
  <1> QED
    BY <1>5, <1>6, <1>7, <1>8, Zenon

\* The closing commit adds its own scores to the public's, if it was stamped by
\* the freeze, and else nothing.
LEMMA LandingStep ==
  ASSUME IInv, CloseRound, freeze # NotFrozen, freeze' = freeze, config' = config, NEW t \in Teams
  PROVE  /\ Bar(t, FALSE)'.raw_service = Bar(t, FALSE).raw_service + LandsUnderFreeze(t)
         /\ LandsUnderFreeze(t) = 0 => Bar(t, FALSE)'.service = Bar(t, FALSE).service
         /\ Bar(t, FALSE)'.adjustment = Bar(t, FALSE).adjustment
  <1>1. PICK m \in Nat : Rounds(m) /\ Kept(m) /\ Pending(m)
    BY DEF IInv
  <1>2. PICK r \in closing :
          /\ OpenRow(r) \in rounds
          /\ rounds' = (rounds \ {OpenRow(r)}) \cup {ClosedRow(r)}
          /\ round_score' = round_score \cup NewScores(r.number, r.earned)
          /\ adjustments' = adjustments
    BY DEF CloseRound, NewScores
  <1>3. /\ closing = {r} /\ r.number = m /\ m \in Nat
        /\ round_score \in SUBSET ScoreRows(m - 1) /\ OfClosed(round_score, rounds)
        /\ OneRow(rounds) /\ r.earned \in [Teams -> Nat] /\ r.round_end \in Nat \ {0}
        /\ config \in SLAConfig
    BY <1>1, <1>2, ClosingIsLast DEF Rounds, Pending, IInv, Types
  <1>4. AdjustmentTotals(freeze)' = AdjustmentTotals(freeze)
    BY <1>2 DEF AdjustmentTotals, AdjustmentsBy, Of, AwardSum
  <1> DEFINE x == Scaled(r.earned[t], r.number, config)
             R == RowsBy(freeze)
             N == NewScores(r.number, r.earned)
             y == ClosedRow(r)
  <1>5. x \in Nat /\ (r.earned[t] = 0 => x = 0)
    BY <1>3, ScaledIs
  <1>6. /\ y.number = m /\ y.round_end = r.round_end
        /\ OpenRow(r).number = m /\ OpenRow(r).round_end = Open
    BY <1>3 DEF OpenRow, ClosedRow
  <1>7. \A q \in rounds : q.number = m => q = OpenRow(r)
    BY <1>2, <1>3, <1>6 DEF OneRow
  <1>8. \A w \in round_score : w.number # m
    BY <1>3 DEF ScoreRows
  <1>9. \A w \in N : w.number = m
    BY <1>3 DEF NewScores
  <1> HIDE DEF x, N, y
  <1>10. ClosedRounds' = ClosedRounds \cup {y}
    BY <1>2, <1>3, <1>6 DEF ClosedRounds, Open, y
  <1>11. \A w \in round_score : ClosedBy(w.number, freeze)' <=> ClosedBy(w.number, freeze)
    BY <1>6, <1>8, <1>10 DEF ClosedBy
  <1>12. ClosedBy(m, freeze)' <=> r.round_end <= freeze
    BY <1>3, <1>6, <1>7, <1>10 DEF ClosedBy, ClosedRounds
  <1>13. Of(t, R) \in SUBSET round_score
    BY DEF Of, RowsBy
  <1>14. ScaledSum(Of(t, R), config) \in Int
    BY <1>13, ScaledSumType
  <1>15. CASE ~(r.round_end <= freeze)
    <2>1. RowsBy(freeze)' = R
      BY <1>2, <1>9, <1>11, <1>12, <1>15 DEF RowsBy, N
    <2>2. LandsUnderFreeze(t) = 0
      <3>1. {q \in closing : ClosedRow(q) \in rounds' /\ q.round_end <= freeze} = {}
        BY <1>3, <1>15
      <3> QED
        BY <3>1, TotalIs, SumEmpty DEF LandsUnderFreeze
    <2>3. Bar(t, FALSE)'.raw_service = Bar(t, FALSE).raw_service
      BY <2>1, FrozenBar
    <2>4. Bar(t, FALSE)'.service = Bar(t, FALSE).service
      BY <2>3, FrozenBar
    <2>5. Bar(t, FALSE)'.adjustment = Bar(t, FALSE).adjustment
      BY <1>4, FrozenBar
    <2>6. Bar(t, FALSE).raw_service \in Int
      BY <1>14, FrozenBar
    <2>7. Bar(t, FALSE).raw_service + LandsUnderFreeze(t) = Bar(t, FALSE).raw_service
      <3>1. \A i \in Int : i + 0 = i
        OBVIOUS
      <3> QED
        BY <2>2, <2>6, <3>1, Zenon
    <2> QED
      BY <2>3, <2>4, <2>5, <2>7, Zenon
  <1>16. CASE r.round_end <= freeze
    <2>1. RowsBy(freeze)' = R \cup N
      BY <1>2, <1>9, <1>11, <1>12, <1>16 DEF RowsBy, N
    <2>2. LandsUnderFreeze(t) = x
      <3>1. {q \in closing : ClosedRow(q) \in rounds' /\ q.round_end <= freeze} = {r}
        BY <1>2, <1>3, <1>16
      <3> DEFINE f == [q \in {r} |-> Scaled(q.earned[t], q.number, config)]
      <3>2. LandsUnderFreeze(t) = Total(f)
        BY <3>1 DEF LandsUnderFreeze
      <3>3. DOMAIN f = {r} /\ f[r] = x
        BY DEF x
      <3> HIDE DEF f
      <3> QED
        BY <1>5, <3>2, <3>3, TotalIs, SumOfOne
    <2>3. ScaledSum(Of(t, R \cup N), config) = ScaledSum(Of(t, R), config) + x
      BY <1>3, <1>5, <1>8, <1>13, NewScoreAdds DEF N, x
    <2>4. Bar(t, FALSE)'.raw_service = Bar(t, FALSE).raw_service + x
      BY <2>1, <2>3, FrozenBar
    <2>5. ASSUME x = 0 PROVE Bar(t, FALSE)'.service = Bar(t, FALSE).service
      <3>1. Bar(t, FALSE).raw_service \in Int
        BY <1>14, FrozenBar
      <3>2. \A i \in Int : i + 0 = i
        OBVIOUS
      <3>3. Bar(t, FALSE)'.raw_service = Bar(t, FALSE).raw_service
        BY <2>4, <2>5, <3>1, <3>2, Zenon
      <3> QED
        BY <3>3, FrozenBar
    <2>6. Bar(t, FALSE)'.adjustment = Bar(t, FALSE).adjustment
      BY <1>4, FrozenBar
    <2> QED
      BY <2>2, <2>4, <2>5, <2>6
  <1> QED
    BY <1>15, <1>16

\* Once the freeze has passed, the public's bars change by late rounds only.
LEMMA FrozenStep ==
  ASSUME IInv, [Next]_vars, freeze # NotFrozen, freeze < now, freeze' = freeze,
         config' = config, ClosedRounds \subseteq rounds', NEW t \in Teams
  PROVE  /\ Bar(t, FALSE)'.raw_service = Bar(t, FALSE).raw_service + LandsUnderFreeze(t)
         /\ LandsUnderFreeze(t) = 0 => Bar(t, FALSE)'.service = Bar(t, FALSE).service
         /\ Bar(t, FALSE)'.adjustment = Bar(t, FALSE).adjustment
  <1> DEFINE Quiet == /\ ClosedRounds' = ClosedRounds /\ round_score' = round_score
                      /\ AdjustmentsBy(freeze)' = AdjustmentsBy(freeze)
  <1>1. ASSUME UNCHANGED <<rounds, round_score, adjustments>> PROVE Quiet
    BY <1>1 DEF ClosedRounds, AdjustmentsBy
  <1>2. ASSUME NEW passed \in Outcomes, OpenRound(passed) PROVE Quiet
    <2>1. rounds' = rounds \cup {OpenRow(r) : r \in closing'}
      BY <1>2 DEF OpenRound
    <2>2. UNCHANGED <<round_score, adjustments>>
      BY <1>2 DEF OpenRound
    <2>3. ClosedRounds' = ClosedRounds
      BY <2>1 DEF ClosedRounds, OpenRow
    <2> QED
      BY <2>2, <2>3 DEF AdjustmentsBy
  <1>3. ASSUME FailRound PROVE Quiet
    <2>1. rounds' \in {rounds, rounds \ {OpenRow(r) : r \in closing}}
      BY <1>3 DEF FailRound
    <2>2. UNCHANGED <<round_score, adjustments>>
      BY <1>3 DEF FailRound
    <2>3. ClosedRounds' = ClosedRounds
      BY <2>1 DEF ClosedRounds, OpenRow
    <2> QED
      BY <2>2, <2>3 DEF AdjustmentsBy
  <1>4. ASSUME NEW k \in 1..LastRound, Rollback(k) PROVE Quiet
    <2>1. /\ rounds' = {r \in rounds : r.number < k}
          /\ round_score' = {w \in round_score : w.number < k}
          /\ adjustments' = adjustments
      BY <1>4 DEF Rollback, ScoresBefore
    <2>2. OfClosed(round_score, rounds)
      BY DEF IInv, Rounds
    <2>3. \A w \in round_score : w.number < k
      BY <2>1, <2>2 DEF OfClosed, ClosedRounds
    <2>4. ClosedRounds' = ClosedRounds
      BY <2>1 DEF ClosedRounds
    <2> QED
      BY <2>1, <2>3, <2>4 DEF AdjustmentsBy
  <1>5. ASSUME NEW u \in Teams, Adjust(u) PROVE Quiet
    <2>1. /\ rounds' = rounds /\ round_score' = round_score
          /\ adjustments \subseteq adjustments'
          /\ \A a \in adjustments' : a \in adjustments \/ a.created_at = now
      BY <1>5 DEF Adjust, tables
    <2>2. AdjustmentsBy(freeze)' = AdjustmentsBy(freeze)
      BY <2>1 DEF AdjustmentsBy, IInv, Types
    <2> QED
      BY <2>1, <2>2 DEF ClosedRounds
  <1>6. ASSUME UNCHANGED vars \/ Tick \/ UpdateSettings
        PROVE  UNCHANGED <<rounds, round_score, adjustments>>
    BY <1>6, SettingsLeaveRounds DEF vars, tables, Tick
  <1>7. ASSUME \/ \E s \in Services : UpdatePoints(s)
               \/ \E c \in checks : UpdateCheck(c)
               \/ \E u \in Teams : Grade(u) \/ Reopen(u)
        PROVE  UNCHANGED <<rounds, round_score, adjustments>>
    BY <1>7 DEF UpdatePoints, UpdateCheck, Grade, Reopen, tables
  <1>8. CASE CloseRound
    BY <1>8, LandingStep
  <1>9. CASE Quiet
    BY <1>9, QuietStep
  <1> HIDE DEF Quiet
  <1> QED
    BY <1>1, <1>2, <1>3, <1>4, <1>5, <1>6, <1>7, <1>8, <1>9 DEF Next, ChangeRecords

-----------------------------------------------------------------------------
(* Theorems *)

\* The tables, the configuration, the stored sums and the cached counts of
\* failures are as the invariant says, through rounds, settings, corrections
\* and rollbacks.
THEOREM StandingsInvariance == Spec => []IInv
  <1>1. Init => IInv
    BY StandingsInit
  <1>2. IInv /\ [Next]_vars => IInv'
    BY StandingsStep
  <1> QED
    BY <1>1, <1>2, PTL DEF Spec

\* Rounds are numbered without a gap, whatever an administrator does to them.
THEOREM RoundsNumbered == Spec => []RoundsInv
  BY StandingsInvariance, RoundsFollow, PTL

\* The penalties team_penalties counts for all teams at once are those that
\* the services of a team are charged one by one, as long as no check of the
\* team was changed by hand.
THEOREM PenaltiesAlwaysAgree == Spec => []PenaltiesAgree
  BY StandingsInvariance, BatchAgrees, PTL

\* Capped at 100 percent, penalties take no more than was earned, but for a
\* point for each round that fell short.
THEOREM PenaltiesStayWithinBase == Spec => []PenaltiesWithinBase
  BY StandingsInvariance, PenaltiesBounded, PTL

\* Every rank shown is one more than the number of teams that are better.
THEOREM PlacesAlwaysAgree == Spec => []PlacesAgree
  BY StandingsInvariance, PlacesKept, PTL

\* The line chart has few points, and ends where the bar chart stands.
THEOREM LineAlwaysMeetsBar == Spec => []LineMeetsBar
  BY StandingsInvariance, LineAndBar, PTL

\* The statistics, from the checks, and the overview, from the stored sums,
\* show the same scores.
THEOREM StatisticsAlwaysAgree == Spec => []StatisticsAgree
  BY StandingsInvariance, StatisticsAgreeKept, PTL

\* Three pages show the same score of a service.
THEOREM ServicePagesAlwaysAgree == Spec => []ServicePagesAgree
  BY StandingsInvariance, PagesAgree, PTL

\* Once the freeze has passed, neither the administrator's adjustments nor the
\* engine's rounds change what the public is shown of the service scores and
\* the adjustments; a round stamped by the freeze whose commit comes after it
\* adds what it is worth to a team, and no more.
THEOREM FrozenScores == Spec => FrozenScoresStay
  <1>1. IInv /\ [Next]_vars =>
          [/\ freeze # NotFrozen /\ freeze < now /\ freeze' = freeze
           /\ config' = config /\ ClosedRounds \subseteq rounds'
           => \A t \in Teams :
                /\ Bar(t, FALSE)'.raw_service = Bar(t, FALSE).raw_service + LandsUnderFreeze(t)
                /\ LandsUnderFreeze(t) = 0 => Bar(t, FALSE)'.service = Bar(t, FALSE).service
                /\ Bar(t, FALSE)'.adjustment = Bar(t, FALSE).adjustment]_vars
    BY FrozenStep
  <1> QED
    BY <1>1, StandingsInvariance, PTL DEF Spec, FrozenScoresStay

=============================================================================

------------------------------- MODULE Sums -------------------------------
(***************************************************************************)
(* Sums over finite sets, as the modules compute them (MapThenSumSet), and *)
(* what the proofs need to know of them.  A module's own sum is of an      *)
(* expression of the element; here it is of a function, and the proof that *)
(* uses a lemma first shows that the two are the same fold.                *)
(*                                                                         *)
(* Induction over a set is a proof by smallest counterexample.             *)
(***************************************************************************)
EXTENDS Integers, FiniteSets, FiniteSetsExt, FiniteSetTheorems, WellFoundedInduction, TLAPS

\* The sum over a set of the values of a function.
SumOver(f, S) == MapThenSumSet(LAMBDA x : f[x], S)

\* The element that a fold takes next, and the partial sums g it is defined by.
First(s) == CHOOSE x \in s : TRUE
Steps(f, S, g) == [s \in SUBSET S |-> IF s = {} THEN 0 ELSE f[First(s)] + g[s \ {First(s)}]]
Partial(f, S) == CHOOSE g : g = Steps(f, S, g)

Summable(f, S) == IsFiniteSet(S) /\ \A x \in S : f[x] \in Int

\* A sum is the last of the partial sums.
LEMMA SumByPartial == ASSUME NEW f, NEW S PROVE SumOver(f, S) = Partial(f, S)[S]
  BY Zenon DEF SumOver, MapThenSumSet, MapThenFoldSet, Partial, Steps, First

\* Among the sets that have a property some are smallest.
LEMMA Smallest ==
  ASSUME NEW S, IsFiniteSet(S), NEW B \in SUBSET SUBSET S, B # {}
  PROVE  \E T \in B : \A U \in B : U \subseteq T => U = T
  <1>1. B \subseteq FiniteSubsetsOf(S)
    BY FS_Subset DEF FiniteSubsetsOf
  <1>2. PICK T \in B : \A U \in B : <<U, T>> \notin StrictSubsetOrdering(S)
    BY <1>1, FS_StrictSubsetOrderingWellFounded, WFMin, Zenon
  <1>3. ASSUME NEW U \in B, U \subseteq T, U # T PROVE FALSE
    BY <1>2, <1>3 DEF StrictSubsetOrdering
  <1> QED
    BY <1>2, <1>3

\* The element taken is one of the set.
LEMMA FirstIsIn == \A s : s # {} => First(s) \in s
  BY DEF First

\* The partial sums of two sets agree where both are defined.
LEMMA PartialUnique ==
  ASSUME NEW f, NEW S, NEW T, IsFiniteSet(S), NEW g, NEW h, g = Steps(f, S, g), h = Steps(f, T, h)
  PROVE  \A s \in (SUBSET S) \cap (SUBSET T) : g[s] = h[s]
  <1> DEFINE B == {s \in SUBSET S : s \subseteq T /\ g[s] # h[s]}
  <1>1. SUFFICES ASSUME B # {} PROVE FALSE
    OBVIOUS
  <1>2. PICK s \in B : \A u \in B : u \subseteq s => u = s
    <2> B \in SUBSET SUBSET S
      OBVIOUS
    <2> HIDE DEF B
    <2> QED
      BY <1>1, Smallest
  <1>3. s # {} /\ First(s) \in s
    BY <1>2, FirstIsIn DEF Steps
  <1>4. /\ g[s] = f[First(s)] + g[s \ {First(s)}]
        /\ h[s] = f[First(s)] + h[s \ {First(s)}]
    BY <1>2, <1>3 DEF Steps
  <1>5. g[s \ {First(s)}] = h[s \ {First(s)}]
    BY <1>2, <1>3
  <1> QED
    BY <1>2, <1>4, <1>5

\* There are such partial sums.
LEMMA PartialExist ==
  ASSUME NEW f, NEW S, Summable(f, S)
  PROVE  \E g \in [SUBSET S -> Int] : g = Steps(f, S, g)
  <1> DEFINE Good(g, T) == g \in [SUBSET T -> Int] /\ g = Steps(f, T, g)
             B == {T \in SUBSET S : ~\E g : Good(g, T)}
             G(u) == CHOOSE g : Good(g, u)
  <1>1. SUFFICES ASSUME B # {} PROVE FALSE
    OBVIOUS
  <1>2. PICK T \in B : \A U \in B : U \subseteq T => U = T
    <2> B \in SUBSET SUBSET S
      OBVIOUS
    <2> HIDE DEF B
    <2> QED
      BY <1>1, Smallest DEF Summable
  <1>3. ASSUME NEW U \in SUBSET T, U # T PROVE Good(G(U), U)
    <2>1. \E g : Good(g, U)
      BY <1>2, <1>3
    <2> HIDE DEF Good
    <2> QED
      BY <2>1
  <1> DEFINE h == [s \in SUBSET T |-> IF s = {} THEN 0
                                      ELSE f[First(s)] + G(s \ {First(s)})[s \ {First(s)}]]
  <1>4. ASSUME NEW s \in SUBSET T, s # {}
        PROVE  LET u == s \ {First(s)}
               IN  u \in SUBSET T /\ u # T /\ Good(G(u), u) /\ G(u)[u] \in Int /\ h[u] = G(u)[u]
    <2> DEFINE u == s \ {First(s)}
               v == u \ {First(u)}
    <2>1. u \in SUBSET T /\ u # T
      BY <1>4, FirstIsIn
    <2>2. Good(G(u), u)
      BY <1>3, <2>1
    <2>3. G(u)[u] \in Int
      BY <2>2
    <2>4. CASE u = {}
      <3>1. h[u] = 0
        BY <2>1, <2>4
      <3>2. G(u)[u] = 0
        BY <2>2, <2>4 DEF Steps
      <3> QED
        BY <2>1, <2>2, <2>3, <3>1, <3>2
    <2>5. CASE u # {}
      <3>1. v \in SUBSET T /\ v # T /\ v \in SUBSET u
        BY <2>1, <2>5, FirstIsIn
      <3>2. Good(G(v), v)
        BY <1>3, <3>1
      <3>3. h[u] = f[First(u)] + G(v)[v]
        BY <2>1, <2>5
      <3>4. G(u)[u] = f[First(u)] + G(u)[v]
        <4> HIDE DEF G, h, v
        <4>1. G(u) = Steps(f, u, G(u))
          BY <2>2
        <4> HIDE DEF Good, u
        <4> QED
          BY <2>5, <4>1 DEF Steps, v
      <3>5. G(u)[v] = G(v)[v]
        <4>1. G(u) = Steps(f, u, G(u)) /\ G(v) = Steps(f, v, G(v)) /\ IsFiniteSet(u)
          BY <2>1, <2>2, <3>2, FS_Subset DEF Summable
        <4>2. \A s_1 \in (SUBSET u) \cap (SUBSET v) : G(u)[s_1] = G(v)[s_1]
          <5> HIDE DEF G, h, u, v
          <5> QED
            BY <4>1, PartialUnique
        <4> HIDE DEF G, h, u
        <4> QED
          BY <3>1, <4>2
      <3> QED
        BY <2>1, <2>2, <2>3, <3>3, <3>4, <3>5
    <2> QED
      BY <2>4, <2>5
  <1>5. h \in [SUBSET T -> Int]
    <2> SUFFICES ASSUME NEW s \in SUBSET T, s # {}
                 PROVE  f[First(s)] + G(s \ {First(s)})[s \ {First(s)}] \in Int
      <3> HIDE DEF G
      <3> QED
        OBVIOUS
    <2>1. f[First(s)] \in Int
      BY <1>2, FirstIsIn DEF Summable
    <2>2. G(s \ {First(s)})[s \ {First(s)}] \in Int
      BY <1>4
    <2> HIDE DEF G
    <2> QED
      BY <2>1, <2>2
  <1>6. h = Steps(f, T, h)
    <2>1. ASSUME NEW s \in SUBSET T
          PROVE  h[s] = IF s = {} THEN 0 ELSE f[First(s)] + h[s \ {First(s)}]
      <3>1. h[s] = IF s = {} THEN 0 ELSE f[First(s)] + G(s \ {First(s)})[s \ {First(s)}]
        <4> HIDE DEF G
        <4> QED
          OBVIOUS
      <3>2. s # {} => h[s \ {First(s)}] = G(s \ {First(s)})[s \ {First(s)}]
        BY <1>4
      <3> HIDE DEF h, G
      <3> QED
        BY <3>1, <3>2
    <2> HIDE DEF h
    <2> QED
      BY <1>5, <2>1 DEF Steps
  <1> HIDE DEF h
  <1> QED
    BY <1>2, <1>5, <1>6

\* The sum over no element, and over a set by the element taken first.
LEMMA SumByFirst ==
  ASSUME NEW f, NEW S, Summable(f, S)
  PROVE  /\ SumOver(f, S) \in Int
         /\ S = {} => SumOver(f, S) = 0
         /\ S # {} => SumOver(f, S) = f[First(S)] + SumOver(f, S \ {First(S)})
  <1> DEFINE u == S \ {First(S)}
             g == Partial(f, S)
             h == Partial(f, u)
  <1>1. g \in [SUBSET S -> Int] /\ g = Steps(f, S, g)
    <2>1. PICK k \in [SUBSET S -> Int] : k = Steps(f, S, k)
      BY PartialExist
    <2>2. g = Steps(f, S, g)
      BY <2>1 DEF Partial
    <2>3. \A s \in SUBSET S : g[s] = k[s]
      <3> HIDE DEF g
      <3> QED
        BY <2>1, <2>2, PartialUnique DEF Summable
    <2>4. DOMAIN g = SUBSET S /\ g = [s \in SUBSET S |-> g[s]]
      <3> HIDE DEF g
      <3> QED
        BY <2>2 DEF Steps
    <2> HIDE DEF g
    <2> QED
      BY <2>1, <2>2, <2>3, <2>4
  <1>2. IsFiniteSet(u) /\ Summable(f, u)
    BY FS_Subset DEF Summable
  <1>3. h = Steps(f, u, h)
    <2>1. PICK k \in [SUBSET u -> Int] : k = Steps(f, u, k)
      <3> HIDE DEF u
      <3> QED
        BY <1>2, PartialExist
    <2> QED
      BY <2>1 DEF Partial
  <1>4. SumOver(f, S) = g[S] /\ SumOver(f, u) = h[u]
    BY SumByPartial
  <1> HIDE DEF g, h
  <1>5. g[u] = h[u]
    <2>1. u \in (SUBSET S) \cap (SUBSET u)
      OBVIOUS
    <2> HIDE DEF u
    <2> QED
      BY <1>1, <1>3, <2>1, PartialUnique DEF Summable
  <1>6. S # {} => g[S] = f[First(S)] + g[u]
    BY <1>1 DEF Steps
  <1>7. S = {} => g[S] = 0
    BY <1>1 DEF Steps
  <1> QED
    BY <1>1, <1>4, <1>5, <1>6, <1>7

\* A sum is a whole number.
LEMMA SumInt ==
  ASSUME NEW f, NEW S, Summable(f, S)
  PROVE  SumOver(f, S) \in Int
  BY SumByFirst

\* The empty sum.
LEMMA SumEmpty ==
  ASSUME NEW f
  PROVE  SumOver(f, {}) = 0
  BY SumByFirst, FS_EmptySet DEF Summable

\* The sum does not depend on the order: any element may be taken first.
LEMMA SumSplit ==
  ASSUME NEW f, NEW S, Summable(f, S), NEW x \in S
  PROVE  SumOver(f, S) = f[x] + SumOver(f, S \ {x})
  <1> DEFINE Splits(T) == \A y \in T : SumOver(f, T) = f[y] + SumOver(f, T \ {y})
             B == {T \in SUBSET S : ~Splits(T)}
  <1>1. SUFFICES ASSUME B # {} PROVE FALSE
    OBVIOUS
  <1>2. PICK T \in B : \A U \in B : U \subseteq T => U = T
    <2> B \in SUBSET SUBSET S
      OBVIOUS
    <2> HIDE DEF B
    <2> QED
      BY <1>1, Smallest DEF Summable
  <1>3. PICK y \in T : SumOver(f, T) # f[y] + SumOver(f, T \ {y})
    BY <1>2
  <1> DEFINE z == First(T)
  <1>4. z \in T
    BY <1>3, FirstIsIn
  <1>5. \A U \in SUBSET S : Summable(f, U) /\ SumOver(f, U) \in Int
    <2>1. \A U \in SUBSET S : Summable(f, U)
      BY FS_Subset DEF Summable
    <2> QED
      BY <2>1, SumInt
  <1>6. SumOver(f, T) = f[z] + SumOver(f, T \ {z})
    BY <1>2, <1>4, <1>5, SumByFirst
  <1>7. z # y
    BY <1>3, <1>6
  <1>8. \A U \in SUBSET T : U # T => Splits(U)
    BY <1>2
  <1> HIDE DEF z
  <1> DEFINE rest == (T \ {z}) \ {y}
             v == SumOver(f, rest)
  <1>9. SumOver(f, T \ {z}) = f[y] + v
    BY <1>3, <1>4, <1>7, <1>8
  <1>10. SumOver(f, T \ {y}) = f[z] + v
    <2>1. rest = (T \ {y}) \ {z}
      OBVIOUS
    <2>2. SumOver(f, T \ {y}) = f[z] + SumOver(f, (T \ {y}) \ {z})
      BY <1>3, <1>4, <1>7, <1>8
    <2> QED
      BY <2>1, <2>2
  <1>11. f[y] \in Int /\ f[z] \in Int /\ v \in Int
    BY <1>2, <1>3, <1>4, <1>5 DEF Summable
  <1> HIDE DEF v
  <1> QED
    BY <1>3, <1>6, <1>9, <1>10, <1>11

\* The sums of two functions compare as their values do.
LEMMA SumCompare ==
  ASSUME NEW f, NEW g, NEW S, Summable(f, S), Summable(g, S), \A x \in S : f[x] <= g[x]
  PROVE  SumOver(f, S) <= SumOver(g, S)
  <1> DEFINE B == {T \in SUBSET S : ~(SumOver(f, T) <= SumOver(g, T))}
  <1>1. SUFFICES ASSUME B # {} PROVE FALSE
    OBVIOUS
  <1>2. PICK T \in B : \A U \in B : U \subseteq T => U = T
    <2> B \in SUBSET SUBSET S
      OBVIOUS
    <2> HIDE DEF B
    <2> QED
      BY <1>1, Smallest DEF Summable
  <1>3. PICK x : x \in T
    <2>1. SumOver(f, {}) <= SumOver(g, {})
      BY SumEmpty
    <2>2. T # {}
      BY <1>2, <2>1
    <2> QED
      BY <2>2
  <1>4. \A U \in SUBSET S : Summable(f, U) /\ Summable(g, U)
    BY FS_Subset DEF Summable
  <1>5. /\ SumOver(f, T) = f[x] + SumOver(f, T \ {x})
        /\ SumOver(g, T) = g[x] + SumOver(g, T \ {x})
    BY <1>2, <1>3, <1>4, SumSplit
  <1>6. SumOver(f, T \ {x}) \in Int /\ SumOver(g, T \ {x}) \in Int
    BY <1>2, <1>4, SumInt
  <1>7. SumOver(f, T \ {x}) <= SumOver(g, T \ {x})
    BY <1>2, <1>3
  <1>8. f[x] \in Int /\ g[x] \in Int /\ f[x] <= g[x]
    BY <1>2, <1>3 DEF Summable
  <1> QED
    BY <1>2, <1>5, <1>6, <1>7, <1>8

\* A sum is at most the two sums whose values bound its own.
LEMMA SumWithin ==
  ASSUME NEW e, NEW f, NEW g, NEW S, Summable(e, S), Summable(f, S), Summable(g, S),
         \A x \in S : e[x] <= f[x] + g[x]
  PROVE  SumOver(e, S) <= SumOver(f, S) + SumOver(g, S)
  <1> DEFINE B == {T \in SUBSET S : ~(SumOver(e, T) <= SumOver(f, T) + SumOver(g, T))}
  <1>1. SUFFICES ASSUME B # {} PROVE FALSE
    OBVIOUS
  <1>2. PICK T \in B : \A U \in B : U \subseteq T => U = T
    <2> B \in SUBSET SUBSET S
      OBVIOUS
    <2> HIDE DEF B
    <2> QED
      BY <1>1, Smallest DEF Summable
  <1>3. PICK x : x \in T
    <2>1. SumOver(e, {}) = 0 /\ SumOver(f, {}) = 0 /\ SumOver(g, {}) = 0
      BY SumEmpty
    <2>2. SumOver(e, {}) <= SumOver(f, {}) + SumOver(g, {})
      BY <2>1
    <2>3. T # {}
      BY <1>2, <2>2, Zenon
    <2> QED
      BY <2>3
  <1>4. \A U \in SUBSET S : Summable(e, U) /\ Summable(f, U) /\ Summable(g, U)
    BY FS_Subset DEF Summable
  <1> DEFINE U == T \ {x}
  <1>5. U \in SUBSET S /\ U \subseteq T /\ U # T
    BY <1>2, <1>3
  <1>6. /\ SumOver(e, T) = e[x] + SumOver(e, U)
        /\ SumOver(f, T) = f[x] + SumOver(f, U)
        /\ SumOver(g, T) = g[x] + SumOver(g, U)
    BY <1>2, <1>3, <1>4, SumSplit
  <1> HIDE DEF U
  <1>7. SumOver(e, U) \in Int /\ SumOver(f, U) \in Int /\ SumOver(g, U) \in Int
    BY <1>4, <1>5, SumInt
  <1>8. SumOver(e, U) <= SumOver(f, U) + SumOver(g, U)
    BY <1>2, <1>5
  <1>9. e[x] \in Int /\ f[x] \in Int /\ g[x] \in Int /\ e[x] <= f[x] + g[x]
    BY <1>2, <1>3 DEF Summable
  <1> QED
    BY <1>2, <1>6, <1>7, <1>8, <1>9

\* The image of a finite set is finite, and not larger.
LEMMA FiniteImage ==
  ASSUME NEW e, NEW S, IsFiniteSet(S), NEW T, T = {e[x] : x \in S}
  PROVE  IsFiniteSet(T) /\ Cardinality(T) <= Cardinality(S)
  <1> DEFINE h == [x \in S |-> e[x]]
  <1>1. h \in Surjection(S, T)
    BY DEF Surjection
  <1> HIDE DEF h
  <1> QED
    BY <1>1, FS_Surjection

\* Functions that agree on the set have the same sum.
LEMMA SumAgree ==
  ASSUME NEW f, NEW g, NEW S, Summable(f, S), \A x \in S : f[x] = g[x]
  PROVE  SumOver(f, S) = SumOver(g, S)
  <1>1. Summable(g, S)
    BY DEF Summable
  <1>2. \A x \in S : f[x] <= g[x] /\ g[x] <= f[x]
    BY DEF Summable
  <1>3. SumOver(f, S) <= SumOver(g, S) /\ SumOver(g, S) <= SumOver(f, S)
    BY <1>1, <1>2, SumCompare
  <1> QED
    BY <1>1, <1>3, SumInt

\* A sum is counted on a set or on its image, if no two elements have the same.
LEMMA SumImage ==
  ASSUME NEW f, NEW g, NEW h, NEW S, Summable(f, S), DOMAIN h = S,
         \A x \in S : f[x] = g[h[x]],
         \A x, y \in S : h[x] = h[y] => x = y,
         NEW T, T = {h[x] : x \in S}
  PROVE  Summable(g, T) /\ SumOver(f, S) = SumOver(g, T)
  <1> DEFINE Im(U) == {h[x] : x \in U}
             B == {U \in SUBSET S : ~(IsFiniteSet(Im(U)) /\ SumOver(f, U) = SumOver(g, Im(U)))}
  <1>0. \A z \in Im(S) : g[z] \in Int
    BY DEF Summable
  <1>1. ASSUME B # {} PROVE FALSE
    <2>1. PICK R \in B : \A U \in B : U \subseteq R => U = R
      <3> B \in SUBSET SUBSET S
        OBVIOUS
      <3> HIDE DEF B
      <3> QED
        BY <1>1, Smallest DEF Summable
    <2>2. R # {}
      <3>1. Im({}) = {}
        OBVIOUS
      <3> HIDE DEF Im
      <3> QED
        BY <2>1, <3>1, SumEmpty, FS_EmptySet
    <2>3. PICK x : x \in R
      BY <2>2
    <2> DEFINE U == R \ {x}
    <2>4. IsFiniteSet(Im(U)) /\ SumOver(f, U) = SumOver(g, Im(U))
      <3>1. U \in SUBSET S /\ U \subseteq R /\ U # R
        BY <2>1, <2>3
      <3> HIDE DEF U, Im
      <3>2. U \notin B
        BY <2>1, <3>1
      <3> QED
        BY <3>1, <3>2
    <2>5. Im(R) = Im(U) \cup {h[x]} /\ Im(U) = Im(R) \ {h[x]} /\ h[x] \in Im(R)
      BY <2>1, <2>3
    <2>6. IsFiniteSet(Im(R)) /\ Summable(g, Im(R))
      <3>1. IsFiniteSet(Im(U) \cup {h[x]})
        <4> HIDE DEF Im, U
        <4> QED
          BY <2>4, FS_AddElement
      <3>2. Im(R) \subseteq Im(S)
        BY <2>1
      <3> HIDE DEF Im, U
      <3> QED
        BY <1>0, <2>5, <3>1, <3>2 DEF Summable
    <2>7. SumOver(f, R) = f[x] + SumOver(f, U)
      <3> Summable(f, R)
        BY <2>1, FS_Subset DEF Summable
      <3> QED
        BY <2>3, SumSplit
    <2>8. SumOver(g, Im(R)) = g[h[x]] + SumOver(g, Im(U))
      <3> HIDE DEF Im, U
      <3> QED
        BY <2>5, <2>6, SumSplit
    <2>9. f[x] = g[h[x]]
      BY <2>1, <2>3
    <2> QED
      BY <2>1, <2>4, <2>6, <2>7, <2>8, <2>9
  <1>2. S \notin B
    BY <1>1
  <1>3. T = Im(S)
    OBVIOUS
  <1> QED
    BY <1>0, <1>2, <1>3 DEF Summable

\* A part of a sum of numbers that are not negative is no more than the sum,
\* and each element is.
LEMMA SumOfPart ==
  ASSUME NEW f, NEW S, Summable(f, S), \A x \in S : f[x] >= 0, NEW T \in SUBSET S
  PROVE  0 <= SumOver(f, T) /\ SumOver(f, T) <= SumOver(f, S)
  <1> DEFINE B == {U \in SUBSET S : ~(T \subseteq U => /\ 0 <= SumOver(f, T)
                                                     /\ SumOver(f, T) <= SumOver(f, U))}
             C == {U \in SUBSET S : ~(0 <= SumOver(f, U))}
  <1>0. \A U \in SUBSET S : Summable(f, U) /\ SumOver(f, U) \in Int
    BY FS_Subset, SumInt DEF Summable
  <1>1. \A U \in SUBSET S : 0 <= SumOver(f, U)
    <2>1. SUFFICES ASSUME C # {} PROVE FALSE
      OBVIOUS
    <2>2. PICK U \in C : \A V \in C : V \subseteq U => V = U
      <3> C \in SUBSET SUBSET S
        OBVIOUS
      <3> HIDE DEF C
      <3> QED
        BY <2>1, Smallest DEF Summable
    <2>3. U # {}
      <3>1. 0 <= SumOver(f, {})
        BY SumEmpty
      <3> QED
        BY <2>2, <3>1
    <2>4. PICK x : x \in U
      BY <2>3
    <2>5. SumOver(f, U) = f[x] + SumOver(f, U \ {x}) /\ f[x] \in Int /\ f[x] >= 0
      BY <1>0, <2>2, <2>4, SumSplit DEF Summable
    <2>6. 0 <= SumOver(f, U \ {x}) /\ SumOver(f, U \ {x}) \in Int
      BY <1>0, <2>2, <2>4
    <2> QED
      BY <2>2, <2>5, <2>6
  <1>2. ASSUME B # {} PROVE FALSE
    <2>1. PICK U \in B : \A V \in B : V \subseteq U => V = U
      <3> B \in SUBSET SUBSET S
        OBVIOUS
      <3> HIDE DEF B
      <3> QED
        BY <1>2, Smallest DEF Summable
    <2>2. T \subseteq U /\ ~(SumOver(f, T) <= SumOver(f, U))
      BY <1>1, <2>1
    <2>3. U # T
      BY <1>0, <2>2
    <2>4. PICK x \in U : x \notin T
      BY <2>2, <2>3
    <2>5. SumOver(f, U) = f[x] + SumOver(f, U \ {x}) /\ f[x] \in Int /\ f[x] >= 0
      BY <1>0, <2>1, <2>4, SumSplit DEF Summable
    <2>6. SumOver(f, T) <= SumOver(f, U \ {x}) /\ SumOver(f, U \ {x}) \in Int
      BY <1>0, <2>1, <2>2, <2>4
    <2> QED
      BY <1>0, <2>2, <2>5, <2>6
  <1>3. S \notin B
    BY <1>2
  <1> QED
    BY <1>1, <1>3

\* A sum of numbers that are not negative is positive if one of them is.
LEMMA SumPositive ==
  ASSUME NEW f, NEW S, Summable(f, S), \A x \in S : f[x] >= 0, NEW x \in S, f[x] > 0
  PROVE  SumOver(f, S) > 0
  <1>1. SumOver(f, S) = f[x] + SumOver(f, S \ {x})
    BY SumSplit
  <1>2. 0 <= SumOver(f, S \ {x}) /\ f[x] \in Int
    BY SumOfPart DEF Summable
  <1>3. SumOver(f, S \ {x}) \in Int
    BY FS_Subset, SumInt DEF Summable
  <1> QED
    BY <1>1, <1>2, <1>3

\* A factor of every summand is one of the sum.
LEMMA SumScaled ==
  ASSUME NEW f, NEW g, NEW S, Summable(f, S), NEW k \in Int, \A x \in S : g[x] = f[x] * k
  PROVE  Summable(g, S) /\ SumOver(g, S) = SumOver(f, S) * k
  <1> DEFINE B == {T \in SUBSET S : SumOver(g, T) # SumOver(f, T) * k}
  <1>0. Summable(g, S)
    BY DEF Summable
  <1>1. \A U \in SUBSET S : /\ Summable(f, U) /\ Summable(g, U)
                            /\ SumOver(f, U) \in Int /\ SumOver(g, U) \in Int
    BY <1>0, FS_Subset, SumInt DEF Summable
  <1>2. ASSUME B # {} PROVE FALSE
    <2>1. PICK T \in B : \A U \in B : U \subseteq T => U = T
      <3> B \in SUBSET SUBSET S
        OBVIOUS
      <3> HIDE DEF B
      <3> QED
        BY <1>2, Smallest DEF Summable
    <2>2. T # {}
      <3>1. SumOver(g, {}) = SumOver(f, {}) * k
        BY SumEmpty
      <3> QED
        BY <2>1, <3>1
    <2>3. PICK x : x \in T
      BY <2>2
    <2> DEFINE a == SumOver(f, T \ {x})
               b == SumOver(g, T \ {x})
    <2>4. SumOver(f, T) = f[x] + a /\ SumOver(g, T) = g[x] + b
      BY <1>1, <2>1, <2>3, SumSplit
    <2>5. b = a * k /\ a \in Int
      BY <1>1, <2>1, <2>3
    <2>6. g[x] = f[x] * k /\ f[x] \in Int
      BY <2>1, <2>3 DEF Summable
    <2> HIDE DEF a, b
    <2>7. (f[x] + a) * k = f[x] * k + a * k
      BY <2>5, <2>6
    <2> QED
      BY <2>1, <2>4, <2>5, <2>6, <2>7
  <1>3. S \notin B
    BY <1>2
  <1> QED
    BY <1>0, <1>3

\* Zeros add nothing: the sum over a part is the sum, if all else is zero.
LEMMA SumOfNonzero ==
  ASSUME NEW f, NEW S, Summable(f, S), NEW T \in SUBSET S, \A x \in S \ T : f[x] = 0
  PROVE  SumOver(f, T) = SumOver(f, S)
  <1> DEFINE B == {U \in SUBSET S : T \subseteq U /\ SumOver(f, T) # SumOver(f, U)}
  <1>0. \A U \in SUBSET S : Summable(f, U) /\ SumOver(f, U) \in Int
    BY FS_Subset, SumInt DEF Summable
  <1>1. ASSUME B # {} PROVE FALSE
    <2>1. PICK U \in B : \A V \in B : V \subseteq U => V = U
      <3> B \in SUBSET SUBSET S
        OBVIOUS
      <3> HIDE DEF B
      <3> QED
        BY <1>1, Smallest DEF Summable
    <2>2. U \in SUBSET S /\ T \subseteq U /\ SumOver(f, T) # SumOver(f, U)
      BY <2>1
    <2>3. U # T
      BY <2>2
    <2>4. PICK x \in U : x \notin T
      BY <2>2, <2>3
    <2> DEFINE V == U \ {x}
    <2>5. SumOver(f, U) = f[x] + SumOver(f, V)
      BY <1>0, <2>2, <2>4, SumSplit
    <2>6. V \in SUBSET S /\ T \subseteq V /\ V \subseteq U /\ V # U
      BY <2>2, <2>4
    <2> HIDE DEF V
    <2>7. SumOver(f, T) = SumOver(f, V) /\ SumOver(f, V) \in Int
      BY <1>0, <2>1, <2>6
    <2>8. f[x] = 0
      BY <2>2, <2>4
    <2> QED
      BY <2>2, <2>5, <2>7, <2>8
  <1>2. S \notin B
    BY <1>1
  <1> QED
    BY <1>2

\* The sum over a union of disjoint sets.
LEMMA SumOfUnion ==
  ASSUME NEW f, NEW S, NEW T, Summable(f, S), Summable(f, T), S \cap T = {}
  PROVE  Summable(f, S \cup T) /\ SumOver(f, S \cup T) = SumOver(f, S) + SumOver(f, T)
  <1> DEFINE B == {U \in SUBSET S : SumOver(f, U \cup T) # SumOver(f, U) + SumOver(f, T)}
  <1>0. Summable(f, S \cup T)
    BY FS_Union DEF Summable
  <1>1. \A U \in SUBSET (S \cup T) : Summable(f, U) /\ SumOver(f, U) \in Int
    BY <1>0, FS_Subset, SumInt DEF Summable
  <1>2. ASSUME B # {} PROVE FALSE
    <2>1. PICK U \in B : \A V \in B : V \subseteq U => V = U
      <3> B \in SUBSET SUBSET S
        OBVIOUS
      <3> HIDE DEF B
      <3> QED
        BY <1>2, Smallest DEF Summable
    <2>2. U \in SUBSET S /\ SumOver(f, U \cup T) # SumOver(f, U) + SumOver(f, T)
      BY <2>1
    <2>3. U # {}
      <3>1. SumOver(f, {}) = 0 /\ SumOver(f, T) \in Int
        BY <1>1, SumEmpty
      <3>2. {} \cup T = T
        OBVIOUS
      <3>3. SumOver(f, {} \cup T) = SumOver(f, {}) + SumOver(f, T)
        BY <3>1, <3>2
      <3> QED
        BY <2>2, <3>3, Zenon
    <2>4. PICK x : x \in U
      BY <2>3
    <2> DEFINE V == U \ {x}
    <2>5. SumOver(f, U) = f[x] + SumOver(f, V)
      BY <1>1, <2>2, <2>4, SumSplit
    <2>6. SumOver(f, U \cup T) = f[x] + SumOver(f, V \cup T)
      <3>1. x \in U \cup T /\ V \cup T = (U \cup T) \ {x} /\ U \cup T \in SUBSET (S \cup T)
        BY <2>2, <2>4
      <3> HIDE DEF V
      <3> QED
        BY <1>1, <3>1, SumSplit
    <2>7. V \in SUBSET S /\ V \subseteq U /\ V # U
      BY <2>2, <2>4
    <2> HIDE DEF V
    <2>8. SumOver(f, V \cup T) = SumOver(f, V) + SumOver(f, T)
      BY <2>1, <2>7
    <2>9. f[x] \in Int /\ SumOver(f, V) \in Int /\ SumOver(f, T) \in Int
      BY <1>1, <2>2, <2>4, <2>7 DEF Summable
    <2> QED
      BY <2>2, <2>5, <2>6, <2>8, <2>9
  <1>3. S \notin B
    BY <1>2
  <1> QED
    BY <1>0, <1>3

\* The elements under a key.
WithKey(S, k, y) == {x \in S : k[x] = y}

\* A sum by groups: each element is counted under its key.
LEMMA SumByKey ==
  ASSUME NEW f, NEW k, NEW S, Summable(f, S), NEW X, IsFiniteSet(X), \A x \in S : k[x] \in X,
         NEW g, \A y \in X : g[y] = SumOver(f, WithKey(S, k, y))
  PROVE  Summable(g, X) /\ SumOver(g, X) = SumOver(f, S)
  <1> DEFINE Under(Y) == {x \in S : k[x] \in Y}
             B == {Y \in SUBSET X : SumOver(g, Y) # SumOver(f, Under(Y))}
  <1>0. \A U \in SUBSET S : Summable(f, U) /\ SumOver(f, U) \in Int
    BY FS_Subset, SumInt DEF Summable
  <1>1. \A Y \in SUBSET X : Summable(g, Y)
    <2>1. \A y \in X : g[y] \in Int
      BY <1>0 DEF WithKey
    <2> QED
      BY <2>1, FS_Subset DEF Summable
  <1>2. ASSUME B # {} PROVE FALSE
    <2>1. PICK Y \in B : \A Z \in B : Z \subseteq Y => Z = Y
      <3> B \in SUBSET SUBSET X
        OBVIOUS
      <3> HIDE DEF B
      <3> QED
        BY <1>2, Smallest
    <2>2. Y \in SUBSET X /\ SumOver(g, Y) # SumOver(f, Under(Y))
      BY <2>1
    <2>3. Y # {}
      <3>1. Under({}) = {} /\ SumOver(g, {}) = SumOver(f, {})
        BY SumEmpty
      <3> HIDE DEF Under
      <3> QED
        BY <2>2, <3>1
    <2>4. PICK y : y \in Y
      BY <2>3
    <2> DEFINE Z == Y \ {y}
               C == WithKey(S, k, y)
    <2>5. SumOver(g, Y) = g[y] + SumOver(g, Z)
      BY <1>1, <2>2, <2>4, SumSplit
    <2>6. /\ Under(Y) = C \cup Under(Z) /\ C \cap Under(Z) = {}
          /\ C \in SUBSET S /\ Under(Z) \in SUBSET S
      BY <2>4 DEF WithKey
    <2>7. Z \in SUBSET X /\ Z \subseteq Y /\ Z # Y
      BY <2>2, <2>4
    <2>8. g[y] = SumOver(f, C)
      BY <2>2, <2>4
    <2> HIDE DEF Z, C
    <2>9. SumOver(g, Z) = SumOver(f, Under(Z))
      <3> HIDE DEF Under
      <3> QED
        BY <2>1, <2>7
    <2>10. SumOver(f, C \cup Under(Z)) = SumOver(f, C) + SumOver(f, Under(Z))
      <3> HIDE DEF Under
      <3> QED
        BY <1>0, <2>6, SumOfUnion
    <2> HIDE DEF Under
    <2> QED
      BY <2>2, <2>5, <2>6, <2>8, <2>9, <2>10
  <1>3. X \notin B
    BY <1>2
  <1>4. Under(X) = S
    OBVIOUS
  <1> HIDE DEF Under
  <1> QED
    BY <1>1, <1>3, <1>4

\* A sum of equal numbers, which for ones counts the set.
LEMMA SumOfEqual ==
  ASSUME NEW f, NEW S, IsFiniteSet(S), NEW v \in Int, \A x \in S : f[x] = v
  PROVE  Summable(f, S) /\ SumOver(f, S) = Cardinality(S) * v
  <1> DEFINE B == {T \in SUBSET S : SumOver(f, T) # Cardinality(T) * v}
  <1>0. \A U \in SUBSET S : IsFiniteSet(U) /\ Summable(f, U) /\ Cardinality(U) \in Nat
    BY FS_Subset, FS_CardinalityType DEF Summable
  <1>1. ASSUME B # {} PROVE FALSE
    <2>1. PICK T \in B : \A U \in B : U \subseteq T => U = T
      <3> B \in SUBSET SUBSET S
        OBVIOUS
      <3> HIDE DEF B
      <3> QED
        BY <1>1, Smallest
    <2>2. T \in SUBSET S /\ SumOver(f, T) # Cardinality(T) * v
      BY <2>1
    <2>3. T # {}
      <3>1. SumOver(f, {}) = 0 /\ Cardinality({}) = 0
        BY SumEmpty, FS_EmptySet
      <3>2. SumOver(f, {}) = Cardinality({}) * v
        BY <3>1
      <3> QED
        BY <2>2, <3>2, Zenon
    <2>4. PICK x : x \in T
      BY <2>3
    <2> DEFINE U == T \ {x}
    <2>5. SumOver(f, T) = f[x] + SumOver(f, U) /\ f[x] = v
      BY <1>0, <2>2, <2>4, SumSplit
    <2>6. Cardinality(U) = Cardinality(T) - 1
      BY <1>0, <2>2, <2>4, FS_RemoveElement
    <2>7. U \in SUBSET S /\ U \subseteq T /\ U # T
      BY <2>2, <2>4
    <2> HIDE DEF U
    <2>8. SumOver(f, U) = Cardinality(U) * v
      BY <2>1, <2>7
    <2>9. Cardinality(T) \in Nat
      BY <1>0, <2>2
    <2> DEFINE n == Cardinality(T)
    <2>10. SumOver(f, T) = v + (n - 1) * v
      BY <2>5, <2>6, <2>8
    <2> HIDE DEF n
    <2>11. v + (n - 1) * v = n * v
      BY <2>9 DEF n
    <2> QED
      BY <2>2, <2>10, <2>11 DEF n
  <1>2. S \notin B
    BY <1>1
  <1> QED
    BY <1>0, <1>2

\* Quotients lose no less than the quotient of their sum.
LEMMA SumOfQuotients ==
  ASSUME NEW f, NEW g, NEW S, IsFiniteSet(S), \A x \in S : f[x] \in Nat,
         NEW m \in Nat, NEW u \in Nat \ {0},
         \A x \in S : g[x] \in Nat /\ g[x] <= (f[x] * m) \div u
  PROVE  SumOver(g, S) <= (SumOver(f, S) * m) \div u
  <1> DEFINE B == {T \in SUBSET S : ~(SumOver(g, T) <= (SumOver(f, T) * m) \div u)}
  <1>0. \A a \in Nat : a \div u \in Nat
    OBVIOUS
  <1>1. \A x \in S : f[x] * m \in Nat /\ g[x] \in Nat
    BY <1>0
  <1>2. Summable(f, S) /\ Summable(g, S)
    BY <1>1 DEF Summable
  <1>3. \A T \in SUBSET S : /\ Summable(f, T) /\ Summable(g, T)
                            /\ SumOver(f, T) \in Nat /\ SumOver(g, T) \in Nat
    <2> TAKE T \in SUBSET S
    <2>1. Summable(f, T) /\ Summable(g, T)
      BY <1>2, FS_Subset DEF Summable
    <2>2. SumOver(f, T) \in Int /\ SumOver(g, T) \in Int
      BY <2>1, SumInt
    <2>3. (\A x \in S : f[x] >= 0) /\ (\A x \in S : g[x] >= 0)
      BY <1>1
    <2>4. 0 <= SumOver(f, T) /\ 0 <= SumOver(g, T)
      BY <1>2, <2>3, SumOfPart
    <2> QED
      BY <2>1, <2>2, <2>4
  <1>4. ASSUME B # {} PROVE FALSE
    <2>1. PICK T \in B : \A U \in B : U \subseteq T => U = T
      <3> B \in SUBSET SUBSET S
        OBVIOUS
      <3> HIDE DEF B
      <3> QED
        BY <1>4, Smallest
    <2>2. T \in SUBSET S /\ ~(SumOver(g, T) <= (SumOver(f, T) * m) \div u)
      BY <2>1
    <2>3. T # {}
      <3>1. SumOver(f, {}) = 0 /\ SumOver(g, {}) = 0
        BY SumEmpty
      <3>2. 0 * m = 0 /\ 0 \div u = 0
        OBVIOUS
      <3>3. SumOver(g, {}) <= (SumOver(f, {}) * m) \div u
        BY <3>1, <3>2
      <3> QED
        BY <2>2, <3>3, Zenon
    <2>4. PICK x : x \in T
      BY <2>3
    <2> DEFINE V == T \ {x}
               a == f[x]
               b == SumOver(f, V)
               d == SumOver(g, V)
    <2>5. SumOver(f, T) = a + b /\ SumOver(g, T) = g[x] + d
      BY <1>3, <2>2, <2>4, SumSplit
    <2>6. V \in SUBSET S /\ V \subseteq T /\ V # T
      BY <2>2, <2>4
    <2> HIDE DEF V
    <2>7. d <= (b * m) \div u
      BY <2>1, <2>6
    <2>8. a \in Nat /\ b \in Nat /\ d \in Nat /\ g[x] \in Nat /\ g[x] <= (a * m) \div u
      BY <1>3, <2>2, <2>4, <2>6
    <2> HIDE DEF a, b, d
    <2>9. (a + b) * m = a * m + b * m /\ a * m \in Nat /\ b * m \in Nat
      BY <2>8
    <2>10. \A y \in Nat, z \in Nat : (y \div u) + (z \div u) <= (y + z) \div u
      OBVIOUS
    <2>11. \A y \in Nat : y \div u \in Nat
      BY <1>0
    <2>12. (a * m) \div u + (b * m) \div u <= ((a + b) * m) \div u
      BY <2>9, <2>10
    <2> QED
      BY <2>2, <2>5, <2>7, <2>8, <2>9, <2>11, <2>12
  <1>5. S \notin B
    BY <1>4
  <1> QED
    BY <1>5

\* A set is counted by groups.
LEMMA CountByKey ==
  ASSUME NEW k, NEW S, IsFiniteSet(S), NEW X, IsFiniteSet(X), \A x \in S : k[x] \in X,
         NEW g, \A y \in X : g[y] = Cardinality(WithKey(S, k, y))
  PROVE  SumOver(g, X) = Cardinality(S)
  <1> DEFINE f == [x \in S |-> 1]
  <1>1. \A T \in SUBSET S : SumOver(f, T) = Cardinality(T)
    <2> TAKE T \in SUBSET S
    <2>1. IsFiniteSet(T) /\ \A x \in T : f[x] = 1
      BY FS_Subset
    <2> HIDE DEF f
    <2>2. SumOver(f, T) = Cardinality(T) * 1
      BY <2>1, SumOfEqual
    <2>3. Cardinality(T) \in Nat
      BY <2>1, FS_CardinalityType
    <2> QED
      BY <2>2, <2>3
  <1>2. Summable(f, S)
    BY DEF Summable
  <1>3. \A y \in X : WithKey(S, k, y) \in SUBSET S
    BY DEF WithKey
  <1> HIDE DEF f
  <1>4. \A y \in X : g[y] = SumOver(f, WithKey(S, k, y))
    BY <1>1, <1>3
  <1>5. SumOver(g, X) = SumOver(f, S)
    BY <1>2, <1>4, SumByKey
  <1> QED
    BY <1>1, <1>5

=============================================================================

--------------------------- MODULE Schedule_proofs ---------------------------
(***************************************************************************)
(* Proofs about the competition windows, for any schedule, any edits of it  *)
(* and any lifetimes of the copies.                                         *)
(***************************************************************************)
EXTENDS Schedule, FiniteSetTheorems, WellFoundedInduction, TLAPS

Round == [start : Nat, end : Nat]

Types ==
  /\ now \in Nat \ {0} /\ manual \in Nat
  /\ windows \in SUBSET Window /\ IsFiniteSet(windows)
  /\ copy \in [list : SUBSET Window, till : Nat]
  /\ rounds \in SUBSET Round
  /\ engine \in [at : {"idle", "refill", "round", "clear"}, list : SUBSET Window, asked : Nat]
  /\ viewer \in [at : {"idle", "refill", "query", "store"}, list : SUBSET Window,
                 asked : Nat, freeze : Nat, shown : SUBSET Round]
  /\ edits \in Nat /\ changed \in Nat

\* A round ends before the engine asks for the next one.
OneAtATime ==
  /\ \A r \in rounds : r.start <= r.end /\ r.end <= now
  /\ engine.at \in {"refill", "round"} =>
       engine.asked <= now /\ \A r \in rounds : r.end <= engine.asked

\* A list read before the last edit is used within Slow of it, and what was
\* stored from it is over a lifetime later.
OldLists ==
  /\ changed <= now /\ copy.till <= now + CACHE_TTL
  /\ copy.list # Enabled /\ Present(copy) =>
       edits > 0 /\ copy.till <= changed + Slow + CACHE_TTL
  /\ \A p \in {engine, viewer} : p.at = "refill" =>
       /\ p.asked <= now /\ now <= p.asked + Slow
       /\ p.list # Enabled => edits > 0 /\ p.asked <= changed

\* A round that starts at "start" was decided on at some instant that the
\* schedule allows, when the earlier ones were over.
Decided(W, start, earlier) ==
  \E d \in 0..start : EngineShouldRun(W, d) /\ \A q \in earlier : q.end <= d

\* The rounds of a set that were not after round r.
NotAfter(r, R) == {q \in R : q # r /\ ~(r.end <= q.start)}

\* While the schedule is not edited, rounds start when it says so.
Gated ==
  edits = 0 =>
    /\ manual = NotFrozen
    /\ \A r \in rounds : Decided(Enabled, r.start, NotAfter(r, rounds))
    /\ engine.at = "round" => Decided(Enabled, engine.asked, rounds)

IInv == Types /\ OneAtATime /\ OldLists /\ Gated

-----------------------------------------------------------------------------
(* The freeze *)

\* A bounded set of numbers has a greatest.
LEMMA MaxIsGreatest ==
  ASSUME NEW S \in SUBSET Nat, S # {}, NEW b \in Nat, \A x \in S : x <= b
  PROVE  Max(S) \in S /\ \A x \in S : x <= Max(S)
  <1> DEFINE T == {n \in Nat : \A x \in S : x <= n}
  <1>1. PICK n \in T : \A m \in T : n <= m
    <2>1. T \subseteq Nat /\ T # {}
      OBVIOUS
    <2> HIDE DEF T
    <2>2. \E n \in T : \A m \in T : <<m, n>> \notin OpToRel(<, Nat)
      BY <2>1, NatLessThanWellFounded, WFMin, Zenon
    <2>3. \A m, n \in Nat : m < n => <<m, n>> \in OpToRel(<, Nat)
      BY DEF OpToRel
    <2> QED
      <3>1. PICK n \in T : \A m \in T : <<m, n>> \notin OpToRel(<, Nat)
        BY <2>2
      <3>2. \A m \in T : ~(m < n)
        BY <2>1, <2>3, <3>1, Zenon
      <3>3. \A m \in T : n <= m
        BY <2>1, <3>2
      <3> QED
        BY <3>3
  <1>2. n \in S
    <2>1. SUFFICES ASSUME n \notin S PROVE FALSE
      OBVIOUS
    <2>2. \A x \in S : x < n
      BY <1>1, <2>1
    <2>3. n - 1 \in Nat
      <3>1. PICK x \in S : x < n
        BY <2>2
      <3>2. x \in Nat /\ n \in Nat
        BY <1>1
      <3> QED
        BY <3>1, <3>2
    <2>4. n - 1 \in T
      BY <1>1, <2>2, <2>3
    <2> QED
      BY <1>1, <2>3, <2>4
  <1>3. \A x \in S : n >= x
    BY <1>1
  <1> QED
    BY <1>2, <1>3 DEF Max

\* A finite set of numbers is bounded.
LEMMA FiniteIsBounded ==
  ASSUME NEW S \in SUBSET Nat, IsFiniteSet(S)
  PROVE  \E b \in Nat : \A x \in S : x <= b
  <1> DEFINE Bounded(T) == \E b \in Nat : \A x \in T : x <= b
             Bad == {T \in FiniteSubsetsOf(S) : ~Bounded(T)}
  <1>1. SUFFICES ASSUME Bad # {} PROVE FALSE
    <2>1. S \in FiniteSubsetsOf(S)
      BY DEF FiniteSubsetsOf
    <2> QED
      BY <2>1
  <1>2. PICK T \in Bad : \A U \in Bad : <<U, T>> \notin StrictSubsetOrdering(S)
    <2>1. Bad \subseteq FiniteSubsetsOf(S)
      OBVIOUS
    <2> HIDE DEF Bad
    <2> QED
      BY <1>1, <2>1, FS_StrictSubsetOrderingWellFounded, WFMin, Zenon
  <1>3. T \in SUBSET S /\ IsFiniteSet(T) /\ ~Bounded(T)
    BY <1>2 DEF FiniteSubsetsOf
  <1>4. PICK x : x \in T
    BY <1>3
  <1>5. T \ {x} \in FiniteSubsetsOf(S)
    BY <1>3, FS_RemoveElement DEF FiniteSubsetsOf
  <1>6. <<T \ {x}, T>> \in StrictSubsetOrdering(S)
    BY <1>3, <1>4 DEF StrictSubsetOrdering
  <1>7. PICK b \in Nat : \A y \in T \ {x} : y <= b
    BY <1>2, <1>5, <1>6
  <1>8. x \in Nat
    BY <1>3, <1>4
  <1>9. \A y \in T : y <= (IF x <= b THEN b ELSE x)
    BY <1>3, <1>7, <1>8
  <1> QED
    BY <1>3, <1>7, <1>8, <1>9

\* What the freeze derived from the windows is.
LEMMA DerivedFreeze ==
  ASSUME NEW W \in SUBSET Window, NEW t \in Nat
  PROVE  LET closed == {w.end : w \in {v \in W : v.end <= t}}
             f == WindowDerivedFreeze(W, t)
         IN  /\ f \in Nat
             /\ f # NotFrozen =>
                  /\ ~InWindow(W, t) /\ f <= t
                  /\ \E w \in W : w.end = f
                  /\ \A w \in W : w.end <= t => w.end <= f
             /\ ~InWindow(W, t) /\ closed # {} => \A w \in W : w.end <= t => w.end <= f
  <1> DEFINE closed == {w.end : w \in {v \in W : v.end <= t}}
  <1>1. closed \in SUBSET Nat /\ \A x \in closed : x <= t
    BY DEF Window
  <1>2. CASE InWindow(W, t) \/ closed = {}
    <2>1. WindowDerivedFreeze(W, t) = NotFrozen
      BY <1>2 DEF WindowDerivedFreeze
    <2> QED
      BY <1>2, <2>1 DEF NotFrozen
  <1>3. CASE ~InWindow(W, t) /\ closed # {}
    <2>1. WindowDerivedFreeze(W, t) = Max(closed)
      BY <1>3 DEF WindowDerivedFreeze
    <2>2. Max(closed) \in closed /\ \A x \in closed : x <= Max(closed)
      <3> HIDE DEF closed
      <3> QED
        BY <1>1, <1>3, MaxIsGreatest
    <2> QED
      BY <1>1, <1>3, <2>1, <2>2
  <1> QED
    BY <1>2, <1>3

-----------------------------------------------------------------------------
(* The invariant *)

LEMMA InitOk == Init => IInv
  <1> SUFFICES ASSUME Init PROVE IInv
    OBVIOUS
  <1>1. Types
    BY ScheduleAssumption DEF Init, Types, Round, NotFrozen, NoCopy, EngineIdle, ViewerIdle
  <1>2. OneAtATime
    BY DEF Init, OneAtATime, EngineIdle
  <1>3. OldLists
    BY ScheduleAssumption DEF Init, OldLists, NoCopy, Present, EngineIdle, ViewerIdle
  <1>4. Gated
    BY DEF Init, Gated, EngineIdle
  <1> QED
    BY <1>1, <1>2, <1>3, <1>4 DEF IInv

\* Decide keeps the types, and starts a round only if the list allows.
LEMMA DecideOk ==
  ASSUME NEW list, NEW asked \in Nat, now \in Nat, Decide(list, asked)
  PROVE  /\ engine' \in [at : {"idle", "refill", "round", "clear"}, list : SUBSET Window, asked : Nat]
         /\ engine'.at \in {"idle", "round"}
         /\ engine'.at = "round" => EngineShouldRun(list, asked) /\ engine'.asked = now
         /\ engine'.at = "idle" /\ Cardinality(rounds) < MaxRounds => ~EngineShouldRun(list, asked)
  BY DEF Decide, EngineIdle

\* A refill keeps the types, and what it stores is as old as what it read.
LEMMA RefillOk ==
  ASSUME Types, OldLists, NEW p \in {engine, viewer}, p.at = "refill", Refill(p.list)
  PROVE  /\ copy' \in [list : SUBSET Window, till : Nat]
         /\ copy'.till <= now + CACHE_TTL
         /\ copy'.list # Enabled /\ now < copy'.till =>
              edits > 0 /\ copy'.till <= changed + Slow + CACHE_TTL
  <1>1. p.list \in SUBSET Window /\ p.asked \in Nat
    BY DEF Types
  <1>2. /\ now \in Nat /\ changed \in Nat /\ CACHE_TTL \in Nat /\ Slow \in Nat /\ now <= p.asked + Slow
        /\ p.list # Enabled => edits > 0 /\ p.asked <= changed
    BY ScheduleAssumption DEF Types, OldLists
  <1>3. CASE copy' = copy
    BY <1>3 DEF Types, OldLists, Present
  <1>4. CASE copy' = [list |-> p.list, till |-> now + CACHE_TTL]
    <2>1. copy'.list = p.list /\ copy'.till = now + CACHE_TTL
      BY <1>4
    <2>2. copy' \in [list : SUBSET Window, till : Nat]
      BY <1>1, <1>2, <1>4
    <2>3. p.list # Enabled => now + CACHE_TTL <= changed + Slow + CACHE_TTL
      BY <1>1, <1>2
    <2> QED
      BY <1>2, <2>1, <2>2, <2>3
  <1> QED
    BY <1>3, <1>4 DEF Refill, KeptFor

\* What a step leaves alone keeps its part of the invariant.
LEMMA Untouched ==
  /\ Types /\ UNCHANGED vars => Types'
  /\ OneAtATime /\ UNCHANGED <<now, rounds, engine>> => OneAtATime'
  /\ OldLists /\ UNCHANGED <<now, windows, copy, engine, viewer, edits, changed>> => OldLists'
  /\ Gated /\ UNCHANGED <<windows, manual, rounds, engine, edits>> => Gated'
  <1>1. Types /\ UNCHANGED vars => Types'
    BY DEF Types, vars
  <1>2. OneAtATime /\ UNCHANGED <<now, rounds, engine>> => OneAtATime'
    BY DEF OneAtATime
  <1>3. OldLists /\ UNCHANGED <<now, windows, copy, engine, viewer, edits, changed>> => OldLists'
    BY DEF OldLists, Enabled, Present
  <1>4. Gated /\ UNCHANGED <<windows, manual, rounds, engine, edits>> => Gated'
    BY DEF Gated, Enabled
  <1> QED
    BY <1>1, <1>2, <1>3, <1>4

\* The steps of the engine.
LEMMA EngineSteps ==
  ASSUME IInv, EngineHit \/ EngineMiss \/ EngineRefill \/ CloseRound \/ UpdateAllCache
  PROVE  IInv'
  <1> USE DEF IInv
  <1>0. /\ now \in Nat /\ changed \in Nat /\ CACHE_TTL \in Nat /\ Slow \in Nat
        /\ \A r \in rounds : r.start \in Nat /\ r.end \in Nat
        /\ Enabled \in SUBSET Window
    BY ScheduleAssumption DEF Types, Round, Enabled
  <1>1. CASE EngineHit
    <2> USE <1>1 DEF EngineHit
    <2>1. Decide(copy.list, now)
      OBVIOUS
    <2>2. /\ engine' \in [at : {"idle", "refill", "round", "clear"}, list : SUBSET Window, asked : Nat]
          /\ engine'.at \in {"idle", "round"}
          /\ engine'.at = "round" => EngineShouldRun(copy.list, now) /\ engine'.asked = now
      BY <1>0, <2>1, DecideOk
    <2>3. Types'
      BY <2>2 DEF Types
    <2>4. OneAtATime'
      BY <1>0, <2>2 DEF OneAtATime
    <2>5. OldLists'
      BY <2>2 DEF OldLists, Enabled, Present
    <2>6. Gated'
      <3>1. SUFFICES ASSUME edits = 0, engine'.at = "round"
                     PROVE  Decided(Enabled, engine'.asked, rounds)
        BY DEF Gated, Enabled
      <3>2. copy.list = Enabled
        BY <3>1 DEF OldLists
      <3>3. now \in 0..engine'.asked /\ EngineShouldRun(Enabled, now) /\ \A q \in rounds : q.end <= now
        BY <1>0, <2>2, <3>1, <3>2 DEF OneAtATime
      <3> QED
        BY <3>3 DEF Decided
    <2> QED
      BY <2>3, <2>4, <2>5, <2>6
  <1>2. CASE EngineMiss
    <2> USE <1>2 DEF EngineMiss
    <2>1. Types'
      BY <1>0 DEF Types
    <2>2. OneAtATime'
      BY <1>0 DEF OneAtATime
    <2>3. OldLists'
      BY <1>0 DEF OldLists, Enabled, Present
    <2>4. Gated'
      BY DEF Gated, Enabled
    <2> QED
      BY <2>1, <2>2, <2>3, <2>4
  <1>3. CASE EngineRefill
    <2> USE <1>3 DEF EngineRefill
    <2>1. engine.list \in SUBSET Window /\ engine.asked \in Nat
      BY DEF Types
    <2>2. /\ engine' \in [at : {"idle", "refill", "round", "clear"}, list : SUBSET Window, asked : Nat]
          /\ engine'.at \in {"idle", "round"}
          /\ engine'.at = "round" => EngineShouldRun(engine.list, engine.asked) /\ engine'.asked = now
      BY <1>0, <2>1, DecideOk
    <2>3. /\ copy' \in [list : SUBSET Window, till : Nat]
          /\ copy'.till <= now + CACHE_TTL
          /\ copy'.list # Enabled /\ now < copy'.till =>
               edits > 0 /\ copy'.till <= changed + Slow + CACHE_TTL
      BY RefillOk
    <2>4. Types'
      BY <2>2, <2>3 DEF Types
    <2>5. OneAtATime'
      BY <1>0, <2>2 DEF OneAtATime
    <2>6. OldLists'
      BY <2>2, <2>3 DEF OldLists, Enabled, Present
    <2>7. Gated'
      <3>1. SUFFICES ASSUME edits = 0, engine'.at = "round"
                     PROVE  Decided(Enabled, engine'.asked, rounds)
        BY DEF Gated, Enabled
      <3>2. engine.list = Enabled
        BY <3>1 DEF OldLists
      <3>3. /\ engine.asked \in 0..engine'.asked /\ EngineShouldRun(Enabled, engine.asked)
            /\ \A q \in rounds : q.end <= engine.asked
        BY <1>0, <2>1, <2>2, <3>1, <3>2 DEF OneAtATime
      <3> QED
        BY <3>3 DEF Decided
    <2> QED
      BY <2>4, <2>5, <2>6, <2>7
  <1>4. CASE CloseRound
    <2> USE <1>4 DEF CloseRound, EngineIdle
    <2>0. /\ engine.asked \in Nat /\ engine.asked <= now
          /\ engine'.at = "clear" /\ engine'.list = {} /\ engine'.asked = 0
          /\ \A r \in rounds : r.end <= engine.asked
      BY DEF Types, OneAtATime
    <2>1. PICK r0 : r0 = [start |-> engine.asked, end |-> now]
      OBVIOUS
    <2>2. r0 \in Round /\ r0.start = engine.asked /\ r0.end = now /\ rounds' = rounds \cup {r0}
      BY <1>0, <2>0, <2>1 DEF Round
    <2>3. Types'
      BY <2>2 DEF Types
    <2>4. OneAtATime'
      BY <1>0, <2>0, <2>2 DEF OneAtATime
    <2>5. OldLists'
      BY <2>0 DEF OldLists, Enabled, Present
    <2>6. Gated'
      <3>1. SUFFICES ASSUME edits = 0, NEW r \in rounds'
                     PROVE  Decided(Enabled, r.start, NotAfter(r, rounds'))
        BY <2>0 DEF Gated, Enabled
      <3>2. CASE r = r0
        <4>1. NotAfter(r0, rounds') \subseteq rounds
          BY <2>2 DEF NotAfter
        <4>2. Decided(Enabled, engine.asked, rounds)
          BY <3>1 DEF Gated
        <4> QED
          BY <2>2, <3>2, <4>1, <4>2 DEF Decided
      <3>3. CASE r # r0
        <4>1. r \in rounds /\ Decided(Enabled, r.start, NotAfter(r, rounds))
          BY <2>2, <3>1, <3>3 DEF Gated
        <4>2. NotAfter(r, rounds') = NotAfter(r, rounds)
          BY <2>0, <2>2, <4>1 DEF NotAfter
        <4> QED
          BY <4>1, <4>2
      <3> QED
        BY <3>2, <3>3
    <2> QED
      BY <2>3, <2>4, <2>5, <2>6
  <1>5. CASE UpdateAllCache
    <2> USE <1>5 DEF UpdateAllCache, EngineIdle
    <2>1. Types'
      BY DEF Types
    <2>2. OneAtATime'
      BY DEF OneAtATime
    <2>3. OldLists'
      BY DEF OldLists, Enabled, Present
    <2>4. Gated'
      BY DEF Gated, Enabled
    <2> QED
      BY <2>1, <2>2, <2>3, <2>4
  <1> QED
    BY <1>1, <1>2, <1>3, <1>4, <1>5

\* The steps of a public request.
LEMMA ViewerSteps ==
  ASSUME IInv, ViewerAsks \/ ViewerRefill \/ ViewerQueries \/ ViewerStores
  PROVE  IInv'
  <1> USE DEF IInv
  <1> DEFINE VT == [at : {"idle", "refill", "query", "store"}, list : SUBSET Window,
                    asked : Nat, freeze : Nat, shown : SUBSET Round]
  <1>0. /\ now \in Nat /\ manual \in Nat /\ Slow \in Nat /\ copy.list \in SUBSET Window
        /\ viewer \in VT /\ viewer.list \in SUBSET Window /\ Enabled \in SUBSET Window
    BY ScheduleAssumption DEF Types, Enabled
  <1>1. CASE ViewerAsks
    <2> USE <1>1 DEF ViewerAsks, ViewerIdle, NotFrozen
    <2>1. WindowDerivedFreeze(copy.list, now) \in Nat
      BY <1>0, DerivedFreeze
    <2>2. /\ viewer' \in VT
          /\ viewer'.at = "refill" => viewer'.asked = now /\ viewer'.list = Enabled
      <3> HIDE DEF IInv
      <3> QED
        BY <1>0, <2>1
    <2>3. Types'
      BY <2>2 DEF Types
    <2>4. viewer'.at = "refill" =>
            viewer'.asked <= now /\ now <= viewer'.asked + Slow /\ viewer'.list = Enabled
      <3> HIDE DEF ViewerAsks
      <3> QED
        BY <1>0, <2>2
    <2>5. UNCHANGED <<now, windows, copy, engine, edits, changed>>
      OBVIOUS
    <2>6. OldLists'
      <3> HIDE DEF ViewerAsks
      <3> QED
        BY <2>4, <2>5 DEF OldLists, Enabled, Present
    <2> QED
      BY <2>3, <2>6, Untouched
  <1>2. CASE ViewerRefill
    <2> USE <1>2 DEF ViewerRefill
    <2>1. WindowDerivedFreeze(viewer.list, now) \in Nat
      BY <1>0, DerivedFreeze
    <2>2. /\ copy' \in [list : SUBSET Window, till : Nat]
          /\ copy'.till <= now + CACHE_TTL
          /\ copy'.list # Enabled /\ now < copy'.till =>
               edits > 0 /\ copy'.till <= changed + Slow + CACHE_TTL
      BY RefillOk
    <2>3. viewer' \in VT /\ viewer'.at = "query"
      <3> HIDE DEF IInv
      <3> QED
        BY <1>0, <2>1
    <2>4. Types'
      BY <2>2, <2>3 DEF Types
    <2>5. OldLists'
      BY <2>2, <2>3 DEF OldLists, Enabled, Present
    <2> QED
      BY <2>4, <2>5, Untouched
  <1>3. CASE ViewerQueries
    <2> USE <1>3 DEF ViewerQueries
    <2>1. Board(viewer.freeze) \in SUBSET Round
      BY DEF Board, Types
    <2>2. viewer' \in VT /\ viewer'.at = "store"
      BY <1>0, <2>1
    <2>3. Types'
      BY <2>2 DEF Types
    <2>4. OldLists'
      BY <2>2 DEF OldLists, Enabled, Present
    <2> QED
      BY <2>3, <2>4, Untouched
  <1>4. CASE ViewerStores
    <2> USE <1>4 DEF ViewerStores, ViewerIdle, NotFrozen
    <2>1. viewer' \in VT /\ viewer'.at = "idle"
      OBVIOUS
    <2>2. Types'
      BY <2>1 DEF Types
    <2>3. OldLists'
      BY <2>1 DEF OldLists, Enabled, Present
    <2> QED
      BY <2>2, <2>3, Untouched
  <1> QED
    BY <1>1, <1>2, <1>3, <1>4

\* An edit makes every list read before it an old one.
LEMMA EditOk ==
  ASSUME IInv, Edit, windows' \in SUBSET Window, IsFiniteSet(windows'), manual' \in Nat
  PROVE  IInv'
  <1> USE DEF IInv, Edit
  <1>1. Types'
    BY DEF Types
  <1>2. OldLists'
    BY ScheduleAssumption DEF OldLists, Types, Present
  <1>3. Gated'
    BY DEF Gated, Types
  <1> QED
    BY <1>1, <1>2, <1>3, Untouched

\* The steps of the administrator.
LEMMA AdminSteps ==
  ASSUME IInv, CreateWindow \/ ToggleWindow \/ DeleteWindow \/ SetFreeze \/ RefreshAfterWindowChange
  PROVE  IInv'
  <1> USE DEF IInv
  <1>0. windows \in SUBSET Window /\ IsFiniteSet(windows) /\ manual \in Nat
    BY DEF Types
  <1>1. CASE CreateWindow
    <2> DEFINE ids == {v.id : v \in windows}
               top == Max({0} \cup ids)
               next == top + 1
    <2>1. ids \in SUBSET Nat /\ IsFiniteSet(ids)
      <3>1. IsFiniteSet(ids)
        <4>1. [v \in windows |-> v.id] \in Surjection(windows, ids)
          BY DEF Surjection
        <4> QED
          BY <1>0, <4>1, FS_Surjection
      <3> QED
        BY <1>0, <3>1 DEF Window
    <2>2. next \in Nat
      <3> HIDE DEF ids
      <3>1. PICK b \in Nat : \A x \in ids : x <= b
        BY <2>1, FiniteIsBounded
      <3>2. \A x \in {0} \cup ids : x <= b
        BY <3>1
      <3>3. top \in {0} \cup ids
        <4> DEFINE all == {0} \cup ids
        <4>1. all \in SUBSET Nat /\ all # {}
          BY <2>1
        <4> HIDE DEF all
        <4>2. Max(all) \in all
          BY <3>2, <4>1, MaxIsGreatest DEF all
        <4> QED
          BY <4>2 DEF all
      <3> HIDE DEF top
      <3> QED
        BY <2>1, <3>3
    <2>3. PICK w \in NewWindows :
            windows' = windows \cup {[id |-> next, start |-> w[1], end |-> w[2], enabled |-> TRUE]}
      BY <1>1 DEF CreateWindow
    <2> HIDE DEF next
    <2>4. [id |-> next, start |-> w[1], end |-> w[2], enabled |-> TRUE] \in Window
      BY <2>2, <2>3, ScheduleAssumption DEF Window
    <2>5. windows' \in SUBSET Window /\ IsFiniteSet(windows')
      BY <1>0, <2>3, <2>4, FS_AddElement
    <2> QED
      BY <1>0, <1>1, <2>5, EditOk DEF CreateWindow
  <1>2. CASE ToggleWindow
    <2>1. PICK w \in windows : windows' = (windows \ {w}) \cup {[w EXCEPT !.enabled = ~w.enabled]}
      BY <1>2 DEF ToggleWindow
    <2>2. \A v \in Window : [v EXCEPT !.enabled = ~v.enabled] \in Window
      BY DEF Window
    <2>3. windows' \in SUBSET Window
      BY <1>0, <2>1, <2>2
    <2>4. IsFiniteSet(windows')
      BY <1>0, <2>1, FS_RemoveElement, FS_AddElement
    <2> QED
      BY <1>0, <1>2, <2>3, <2>4, EditOk DEF ToggleWindow
  <1>3. CASE DeleteWindow
    <2>1. PICK w \in windows : windows' = windows \ {w}
      BY <1>3 DEF DeleteWindow
    <2> QED
      BY <1>0, <1>3, <2>1, FS_RemoveElement, EditOk DEF DeleteWindow
  <1>4. CASE SetFreeze
    <2>1. Freezes \in SUBSET Nat
      <3>1. MaxTime \in Nat
        BY ScheduleAssumption
      <3> QED
        BY <3>1, ScheduleAssumption
    <2>2. manual' \in {0} \cup Freezes /\ windows' = windows
      BY <1>4 DEF SetFreeze, NotFrozen
    <2>3. manual' \in Nat
      BY <2>1, <2>2
    <2> QED
      BY <1>0, <1>4, <2>2, <2>3, EditOk DEF SetFreeze
  <1>5. CASE RefreshAfterWindowChange
    <2> USE <1>5 DEF RefreshAfterWindowChange, NoCopy
    <2>1. copy' \in [list : SUBSET Window, till : Nat] /\ (copy' = copy \/ copy'.till = 0)
      BY DEF Types
    <2>2. Types'
      BY <2>1 DEF Types
    <2>3. OldLists'
      BY <2>1, ScheduleAssumption DEF OldLists, Types, Present, Enabled
    <2> QED
      BY <2>2, <2>3, Untouched
  <1> QED
    BY <1>1, <1>2, <1>3, <1>4, <1>5

\* Time passes.
LEMMA TickStep == IInv /\ Tick => IInv'
  <1> SUFFICES ASSUME IInv, Tick PROVE IInv'
    OBVIOUS
  <1> USE DEF IInv, Tick
  <1>1. copy' \in [list : SUBSET Window, till : Nat] /\ (copy' = copy \/ copy'.till = 0)
    BY DEF Types, NoCopy
  <1>2. /\ now \in Nat /\ now' = now + 1 /\ changed \in Nat /\ CACHE_TTL \in Nat /\ Slow \in Nat
        /\ engine.asked \in Nat /\ viewer.asked \in Nat
        /\ \A r \in rounds : r.start \in Nat /\ r.end \in Nat
    BY ScheduleAssumption DEF Types, Round
  <1>3. Types'
    BY <1>1, <1>2 DEF Types
  <1>4. OneAtATime'
    BY <1>2 DEF OneAtATime
  <1>5. OldLists'
    <2>1. /\ changed' <= now' /\ copy'.till <= now' + CACHE_TTL
          /\ copy'.list # Enabled' /\ now' < copy'.till =>
               edits > 0 /\ copy'.till <= changed + Slow + CACHE_TTL
      BY <1>1, <1>2 DEF OldLists, Present, Enabled, Types
    <2>2. \A p \in {engine, viewer} : p.at = "refill" => p.asked <= now' /\ now' <= p.asked + Slow
      BY <1>2 DEF OldLists, InTime
    <2> QED
      BY <2>1, <2>2 DEF OldLists, Present, Enabled
  <1> QED
    BY <1>3, <1>4, <1>5, Untouched

LEMMA StepOk == IInv /\ [Next]_vars => IInv'
  <1> SUFFICES ASSUME IInv, [Next]_vars PROVE IInv'
    OBVIOUS
  <1>1. CASE UNCHANGED vars
    BY <1>1, Untouched DEF IInv, vars
  <1>2. CASE Next
    BY <1>2, EngineSteps, ViewerSteps, AdminSteps, TickStep DEF Next
  <1> QED
    BY <1>1, <1>2

LEMMA Inductive == Spec => []IInv
  BY InitOk, StepOk, PTL DEF Spec

-----------------------------------------------------------------------------
(* The theorems *)

\* Once the lists read before the last edit are over, the engine starts rounds
\* inside of windows only and does not go on to idle inside of one.
THEOREM GateIsScheduled == Spec => GateFollowsSchedule
  <1>1. ASSUME IInv, [Next]_vars,
               engine.at \in {"idle", "refill"}, engine'.at \in {"idle", "round"},
               engine' # engine, Cardinality(rounds) < MaxRounds
        PROVE  LET asked == IF engine.at = "idle" THEN now ELSE engine.asked
               IN  Stale(asked) \/ (engine'.at = "round" <=> EngineShouldRun(Enabled, asked))
    <2>0. /\ now \in Nat /\ changed \in Nat /\ CACHE_TTL \in Nat /\ CACHE_TTL > 0 /\ Slow \in Nat
          /\ engine.asked \in Nat
      BY <1>1, ScheduleAssumption DEF IInv, Types
    <2>1. EngineHit \/ EngineRefill
      BY <1>1 DEF Next, vars, EngineMiss, CloseRound, UpdateAllCache, ViewerAsks, ViewerRefill,
                  ViewerQueries, ViewerStores, CreateWindow, ToggleWindow, DeleteWindow, SetFreeze,
                  Edit, RefreshAfterWindowChange, Tick
    <2>2. CASE EngineHit
      <3>1. engine.at = "idle" /\ now < copy.till /\ Decide(copy.list, now)
        BY <2>2 DEF EngineHit, Present
      <3>2. engine'.at = "round" <=> EngineShouldRun(copy.list, now)
        BY <1>1, <2>0, <3>1, DecideOk
      <3>3. copy.list # Enabled => Stale(now)
        BY <1>1, <2>0, <3>1 DEF IInv, OldLists, Types, Present, Stale
      <3> QED
        BY <3>1, <3>2, <3>3
    <2>3. CASE EngineRefill
      <3>1. engine.at = "refill" /\ Decide(engine.list, engine.asked)
        BY <2>3 DEF EngineRefill
      <3>2. engine'.at = "round" <=> EngineShouldRun(engine.list, engine.asked)
        BY <1>1, <2>0, <3>1, DecideOk
      <3>3. engine.list # Enabled => Stale(engine.asked)
        BY <1>1, <2>0, <3>1 DEF IInv, OldLists, Stale
      <3> QED
        BY <3>1, <3>2, <3>3
    <2> QED
      BY <2>1, <2>2, <2>3
  <1>2. IInv /\ [Next]_vars =>
          [engine.at \in {"idle", "refill"} /\ engine'.at \in {"idle", "round"}
           /\ engine' # engine /\ Cardinality(rounds) < MaxRounds =>
             LET asked == IF engine.at = "idle" THEN now ELSE engine.asked
             IN  Stale(asked) \/ (engine'.at = "round" <=> EngineShouldRun(Enabled, asked))]_vars
    BY <1>1
  <1> QED
    BY <1>2, Inductive, PTL DEF Spec, GateFollowsSchedule

\* The freeze derived from windows that do not change moves past every round
\* that was on the board.
LEMMA FreezeAdvances ==
  ASSUME NEW W \in SUBSET Window, NEW t \in Nat, NEW end \in Nat, end <= t,
         LET f == WindowDerivedFreeze(W, t) IN f # NotFrozen => end <= f
  PROVE  LET f == WindowDerivedFreeze(W, t + 1) IN f # NotFrozen => end <= f
  <1> DEFINE f == WindowDerivedFreeze(W, t)
             g == WindowDerivedFreeze(W, t + 1)
  <1>1. \A w \in W : w.start \in Nat /\ w.end \in Nat
    BY DEF Window
  <1>2. SUFFICES ASSUME g # NotFrozen PROVE end <= g
    OBVIOUS
  <1>3. /\ g \in Nat /\ ~InWindow(W, t + 1)
        /\ \E w \in W : w.end = g /\ w.end <= t + 1
        /\ \A w \in W : w.end <= t + 1 => w.end <= g
    <2>1. t + 1 \in Nat
      OBVIOUS
    <2>2. /\ g \in Nat /\ ~InWindow(W, t + 1) /\ g <= t + 1
          /\ \E w \in W : w.end = g
          /\ \A w \in W : w.end <= t + 1 => w.end <= g
      BY <1>2, <2>1, DerivedFreeze
    <2> QED
      BY <2>2
  <1>4. f \in Nat
    BY DerivedFreeze
  <1>5. CASE f # NotFrozen
    <2>1. f <= t /\ \E w \in W : w.end = f
      BY <1>5, DerivedFreeze
    <2>2. f <= g
      BY <1>1, <1>3, <1>4, <2>1
    <2> QED
      BY <1>3, <1>4, <1>5, <2>2
  <1>6. CASE f = NotFrozen
    <2>1. PICK w \in W : w.end = g /\ w.end <= t + 1
      BY <1>3
    <2>2. ASSUME w.end <= t PROVE FALSE
      <3>1. CASE InWindow(W, t)
        <4>1. PICK v \in W : v.start <= t /\ t < v.end
          BY <3>1 DEF InWindow
        <4>2. v.end <= t + 1
          BY <1>1, <1>3, <4>1 DEF InWindow
        <4> QED
          BY <1>1, <1>3, <2>1, <2>2, <4>1, <4>2
      <3>2. CASE ~InWindow(W, t)
        <4>1. {v.end : v \in {u \in W : u.end <= t}} # {}
          BY <2>2
        <4>2. w.end <= f
          BY <2>2, <3>2, <4>1, DerivedFreeze
        <4> QED
          BY <1>1, <1>2, <1>6, <2>1, <4>2 DEF NotFrozen
      <3> QED
        BY <3>1, <3>2
    <2> QED
      BY <1>1, <2>1, <2>2
  <1> QED
    BY <1>5, <1>6

\* As long as nobody edits the schedule, what the public has seen stays.
THEOREM BoardNeverShrinks == Spec => NothingVanishes
  <1>1. ASSUME IInv, [Next]_vars, edits' = edits
        PROVE  Board(FreezeTime(Enabled, now)) \subseteq Board(FreezeTime(Enabled, now))'
    <2>0. /\ now \in Nat /\ edits \in Nat /\ Enabled \in SUBSET Window
          /\ \A r \in rounds : r.end \in Nat /\ r.end <= now
      BY <1>1 DEF IInv, Types, OneAtATime, Round, Enabled
    <2>1. /\ windows' = windows /\ manual' = manual /\ rounds \subseteq rounds'
          /\ Tick \/ now' = now
      <3>1. ~Edit
        BY <1>1, <2>0 DEF Edit
      <3>2. CASE UNCHANGED vars
        BY <3>2 DEF vars
      <3>3. CASE EngineHit \/ EngineMiss \/ EngineRefill \/ CloseRound \/ UpdateAllCache
        BY <3>3 DEF EngineHit, EngineMiss, EngineRefill, CloseRound, UpdateAllCache
      <3>4. CASE ViewerAsks \/ ViewerRefill \/ ViewerQueries \/ ViewerStores
        BY <3>4 DEF ViewerAsks, ViewerRefill, ViewerQueries, ViewerStores
      <3>5. CASE RefreshAfterWindowChange \/ Tick
        BY <3>5 DEF RefreshAfterWindowChange, Tick
      <3> QED
        BY <1>1, <3>1, <3>2, <3>3, <3>4, <3>5
           DEF Next, CreateWindow, ToggleWindow, DeleteWindow, SetFreeze
    <2>2. Enabled' = Enabled
      BY <2>1 DEF Enabled
    <2>3. SUFFICES ASSUME NEW r \in rounds, FreezeTime(Enabled, now) # NotFrozen => r.end <= FreezeTime(Enabled, now)
                   PROVE  FreezeTime(Enabled, now)' # NotFrozen => r.end <= FreezeTime(Enabled, now)'
      BY <2>1 DEF Board
    <2>4. CASE manual # NotFrozen \/ now' = now
      BY <2>1, <2>2, <2>3, <2>4 DEF FreezeTime
    <2>5. CASE manual = NotFrozen /\ Tick
      <3>1. now' = now + 1
        BY <2>5 DEF Tick
      <3>2. /\ FreezeTime(Enabled, now) = WindowDerivedFreeze(Enabled, now)
            /\ FreezeTime(Enabled, now)' = WindowDerivedFreeze(Enabled, now + 1)
        BY <2>1, <2>2, <2>5, <3>1 DEF FreezeTime
      <3> QED
        BY <2>0, <2>3, <3>2, FreezeAdvances
    <2> QED
      BY <2>1, <2>4, <2>5
  <1>2. IInv /\ [Next]_vars =>
          [edits' = edits =>
             Board(FreezeTime(Enabled, now)) \subseteq Board(FreezeTime(Enabled, now))']_vars
    BY <1>1
  <1> QED
    BY <1>2, Inductive, PTL DEF Spec, NothingVanishes

\* Two rounds that the freeze hides would both have been decided on before it,
\* and the later of them when the earlier was over.
THEOREM AtMostOneMissing == Spec => []OneRoundMissing
  <1>1. ASSUME IInv PROVE OneRoundMissing
    <2> DEFINE f == FreezeTime(Enabled, now)
               M == rounds \ Board(f)
    <2>0. SUFFICES ASSUME edits = 0 PROVE Cardinality(M) <= 1
      BY DEF OneRoundMissing
    <2>1. /\ now \in Nat /\ Enabled \in SUBSET Window
          /\ \A w \in Enabled : w.start \in Nat /\ w.end \in Nat
          /\ \A r \in rounds : r \in Round /\ r.start \in Nat /\ r.end \in Nat
                               /\ r.start <= r.end /\ r.end <= now
      BY <1>1 DEF IInv, Types, OneAtATime, Round, Enabled, Window
    <2>2. f = WindowDerivedFreeze(Enabled, now)
      BY <1>1, <2>0 DEF IInv, Gated, FreezeTime
    <2>3. /\ f \in Nat
          /\ f # NotFrozen => ~InWindow(Enabled, now) /\ \A w \in Enabled : w.end <= now => w.end <= f
          /\ f # NotFrozen => Enabled # {}
      BY <2>1, <2>2, DerivedFreeze
    <2> HIDE DEF f
    <2>4. ASSUME NEW r \in M, NEW q \in M
          PROVE  r = q \/ r.end <= q.start
      <3>1. /\ f # NotFrozen /\ r \in rounds /\ q \in rounds
            /\ ~(r.end <= f) /\ ~(q.end <= f)
        BY <2>4 DEF Board
      <3>2. PICK d \in 0..r.start :
              EngineShouldRun(Enabled, d) /\ \A p \in NotAfter(r, rounds) : p.end <= d
        BY <1>1, <2>0, <3>1 DEF IInv, Gated, Decided
      <3>3. d \in Nat /\ d <= r.start
        BY <2>1, <3>1, <3>2
      <3>4. PICK w \in Enabled : w.start <= d /\ d < w.end
        BY <2>3, <3>1, <3>2 DEF EngineShouldRun, InWindow
      <3>5. w.end <= f
        BY <2>1, <2>3, <3>1, <3>3, <3>4 DEF InWindow
      <3>6. ~(q.end <= d)
        BY <2>1, <2>3, <3>1, <3>3, <3>4, <3>5
      <3> QED
        BY <3>1, <3>2, <3>6 DEF NotAfter
    <2>5. ASSUME NEW r \in M, NEW q \in M PROVE r = q
      <3>1. r \in Round /\ q \in Round
        BY <2>1
      <3>2. r = q \/ (r.end <= q.start /\ q.end <= r.start)
        BY <2>4
      <3>3. r = q \/ (r.start = q.start /\ r.end = q.end)
        BY <2>1, <3>2
      <3> QED
        BY <3>1, <3>3 DEF Round
    <2> HIDE DEF M
    <2>6. CASE M = {}
      BY <2>6, FS_EmptySet
    <2>7. CASE M # {}
      <3>1. PICK r \in M : TRUE
        BY <2>7
      <3>2. M = {r}
        BY <2>5, <3>1
      <3>3. Cardinality({r}) = 1
        BY FS_Singleton
      <3> QED
        BY <3>2, <3>3
    <2> QED
      BY <2>6, <2>7
  <1> QED
    BY <1>1, Inductive, PTL

-----------------------------------------------------------------------------
(* Late pages *)

\* An instant after which every request knows of the freeze f and of the
\* schedule as it is.
Past(t, f) == f < t /\ (edits = 0 \/ changed + CACHE_TTL + Slow < t)

\* What a request that began after such an instant goes by, and shows, is the
\* freeze in force; a page was begun at most Slow before it was stored.
PagesInv ==
  /\ page \in [shown : SUBSET Round, till : Nat] /\ page.till <= now + PageTTL
  /\ viewer.at # "idle" => viewer.asked <= now /\ now <= viewer.asked + Slow
  /\ viewer.at = "refill" /\ manual # NotFrozen => edits > 0 /\ viewer.asked <= changed
  /\ LET f == FreezeTime(Enabled, now)
     IN  f # NotFrozen =>
           /\ viewer.at = "query" /\ Past(viewer.asked, f) => viewer.freeze = f
           /\ viewer.at = "store" /\ Past(viewer.asked, f) => viewer.shown \subseteq Board(f)
           /\ Present(page) /\ Past(page.till - Slow - PageTTL, f) => page.shown \subseteq Board(f)

\* A freeze in force was in force at every instant after it.
LEMMA FreezeStays ==
  ASSUME NEW W \in SUBSET Window, NEW t \in Nat, NEW d \in Nat, d <= t,
         WindowDerivedFreeze(W, t) # NotFrozen, WindowDerivedFreeze(W, t) <= d
  PROVE  WindowDerivedFreeze(W, d) = WindowDerivedFreeze(W, t)
  <1> DEFINE f == WindowDerivedFreeze(W, t)
             g == WindowDerivedFreeze(W, d)
  <1>1. \A w \in W : w.start \in Nat /\ w.end \in Nat
    BY DEF Window
  <1>2. /\ f \in Nat /\ f # 0 /\ ~InWindow(W, t)
        /\ \E w \in W : w.end = f
        /\ \A w \in W : w.end <= t => w.end <= f
    BY DerivedFreeze DEF NotFrozen
  <1>3. /\ g \in Nat
        /\ g # 0 => g <= d /\ \E w \in W : w.end = g
    BY DerivedFreeze DEF NotFrozen
  <1>4. ~InWindow(W, d)
    <2> SUFFICES ASSUME NEW w \in W, w.start <= d, d < w.end PROVE FALSE
      BY DEF InWindow
    <2>1. ~(w.end <= t)
      BY <1>1, <1>2
    <2> QED
      BY <1>1, <1>2, <2>1 DEF InWindow
  <1>5. \A w \in W : w.end <= d => w.end <= g
    <2>1. {w.end : w \in {v \in W : v.end <= d}} # {}
      BY <1>2
    <2> QED
      BY <1>4, <2>1, DerivedFreeze
  <1>6. f <= g
    BY <1>2, <1>5
  <1>7. g <= f
    BY <1>1, <1>2, <1>3, <1>6
  <1> QED
    BY <1>2, <1>3, <1>6, <1>7

\* The types that the steps below need.
LEMMA PageTypes ==
  ASSUME IInv
  PROVE  /\ now \in Nat \ {0} /\ changed \in Nat /\ edits \in Nat
         /\ CACHE_TTL \in Nat /\ Slow \in Nat /\ PageTTL \in Nat
         /\ Enabled \in SUBSET Window /\ FreezeTime(Enabled, now) \in Nat
         /\ viewer.asked \in Nat /\ viewer.shown \in SUBSET Round
         /\ \A r \in rounds : r.end \in Nat
         /\ changed <= now
  <1>1. now \in Nat \ {0} /\ Enabled \in SUBSET Window /\ manual \in Nat
    BY DEF IInv, Types, Enabled
  <1>2. FreezeTime(Enabled, now) \in Nat
    BY <1>1, DerivedFreeze DEF FreezeTime
  <1> QED
    BY <1>1, <1>2, ScheduleAssumption DEF IInv, Types, OldLists, Round

\* Rounds that are stored, and a page that goes, change nothing of it.
LEMMA QuietPages ==
  ASSUME PagesInv, UNCHANGED <<now, windows, manual, viewer, edits, changed>>,
         page' \in {page, NoPage}, rounds \subseteq rounds', now \in Nat \ {0}, PageTTL \in Nat
  PROVE  PagesInv'
  <1> DEFINE f == FreezeTime(Enabled, now)
  <1>1. UNCHANGED FreezeTime(Enabled, now)
    BY DEF FreezeTime, Enabled
  <1>2. \A g : Board(g) \subseteq Board(g)'
    BY DEF Board
  <1>3. \A t, g : Past(t, g)' = Past(t, g)
    BY DEF Past
  <1>4. page' \in [shown : SUBSET Round, till : Nat] /\ page'.till <= now + PageTTL
    BY DEF PagesInv, NoPage
  <1>5. Present(page)' => page' = page
    BY DEF Present, NoPage
  <1>6. PICK g : g = f /\ g = f'
    BY <1>1
  <1>7. viewer' = viewer
    OBVIOUS
  <1> HIDE DEF f
  <1>8. Board(g) \subseteq Board(g)' /\ \A t : Past(t, g)' = Past(t, g)
    BY <1>2, <1>3
  <1>9. /\ viewer.at # "idle" => viewer.asked <= now /\ now <= viewer.asked + Slow
        /\ viewer.at = "refill" /\ manual # NotFrozen => edits > 0 /\ viewer.asked <= changed
    BY DEF PagesInv
  <1>10. g # NotFrozen =>
           /\ viewer.at = "query" /\ Past(viewer.asked, g) => viewer.freeze = g
           /\ viewer.at = "store" /\ Past(viewer.asked, g) => viewer.shown \subseteq Board(g)
           /\ Present(page) /\ Past(page.till - Slow - PageTTL, g) => page.shown \subseteq Board(g)
    BY <1>6 DEF PagesInv, f
  <1>11. ASSUME g # NotFrozen
         PROVE  /\ viewer.at = "query" /\ Past(viewer.asked, g)' => viewer.freeze = g
                /\ viewer.at = "store" /\ Past(viewer.asked, g)' => viewer.shown \subseteq Board(g)'
    BY <1>7, <1>8, <1>10, <1>11
  <1>12. ASSUME g # NotFrozen, Present(page)', Past(page.till - Slow - PageTTL, g)
         PROVE  page'.shown \subseteq Board(g)'
    <2>1. page' = page
      BY <1>5, <1>12
    <2>2. page.shown \subseteq Board(g)
      BY <1>10, <1>12, <2>1 DEF Present
    <2> QED
      BY <1>8, <2>1, <2>2
  <1>13. ASSUME g # NotFrozen, Present(page)', Past(page.till - Slow - PageTTL, g)'
         PROVE  page'.shown \subseteq Board(g)'
    <2>1. page' = page
      BY <1>5, <1>13
    <2>2. Past(page.till - Slow - PageTTL, g)
      BY <1>13, <2>1 DEF Past
    <2> QED
      BY <1>12, <1>13, <2>2
  <1> QED
    BY <1>4, <1>5, <1>6, <1>7, <1>9, <1>11, <1>13 DEF PagesInv, f

\* The steps of a request of the public.
LEMMA ViewerPages ==
  ASSUME IInv, PagesInv, ViewerAsks \/ ViewerRefill \/ ViewerQueries \/ ViewerStores
  PROVE  PagesInv'
  <1> DEFINE f == FreezeTime(Enabled, now)
  <1>0. /\ now \in Nat \ {0} /\ changed \in Nat /\ edits \in Nat
        /\ CACHE_TTL \in Nat /\ Slow \in Nat /\ PageTTL \in Nat
        /\ f \in Nat /\ viewer.asked \in Nat /\ viewer.shown \in SUBSET Round
    BY PageTypes
  <1>1. /\ UNCHANGED <<now, windows, manual, rounds, edits, changed>>
        /\ FreezeTime(Enabled, now)' = f
        /\ \A t, g : Past(t, g)' = Past(t, g)
        /\ \A g : Board(g)' = Board(g)
    BY DEF ViewerAsks, ViewerRefill, ViewerQueries, ViewerStores, FreezeTime, Enabled, Past, Board
  <1>2. manual # NotFrozen => f = manual
    BY DEF FreezeTime
  <1>3. manual = NotFrozen => f = WindowDerivedFreeze(Enabled, now)
    BY DEF FreezeTime
  <1> HIDE DEF f
  <1>4. CASE ViewerAsks
    <2>1. /\ viewer'.asked = now /\ viewer'.at \in {"query", "refill"} /\ page' = page
          /\ viewer'.at = "refill" => manual = NotFrozen
      BY <1>4 DEF ViewerAsks, ViewerIdle
    <2>2. ASSUME viewer'.at = "query", Past(now, f) PROVE viewer'.freeze = f
      <3>1. CASE manual # NotFrozen
        BY <1>2, <1>4, <3>1 DEF ViewerAsks, ViewerIdle
      <3>2. CASE manual = NotFrozen
        <4>1. Present(copy) /\ viewer'.freeze = WindowDerivedFreeze(copy.list, now)
          BY <1>4, <2>2, <3>2 DEF ViewerAsks, ViewerIdle
        <4>2. copy.list = Enabled
          <5>1. copy.till \in Nat /\ now < copy.till
            BY <4>1 DEF IInv, Types, Present
          <5> QED
            BY <1>0, <2>2, <4>1, <5>1 DEF IInv, OldLists, Past
        <4> QED
          BY <1>3, <3>2, <4>1, <4>2
      <3> QED
        BY <3>1, <3>2
    <2>3. Present(page)' = Present(page)
      BY <1>1, <2>1 DEF Present
    <2> QED
      BY <1>0, <1>1, <2>1, <2>2, <2>3 DEF PagesInv, f
  <1>5. CASE ViewerRefill
    <2>1. /\ viewer.at = "refill" /\ viewer'.at = "query" /\ page' = page
          /\ viewer'.asked = viewer.asked
          /\ viewer'.freeze = WindowDerivedFreeze(viewer.list, now)
      BY <1>5 DEF ViewerRefill, IInv, Types
    <2>2. viewer.asked <= now /\ now <= viewer.asked + Slow
      BY <2>1 DEF PagesInv
    <2>3. ASSUME Past(viewer.asked, f) PROVE viewer'.freeze = f
      <3>1. manual = NotFrozen
        BY <1>0, <2>1, <2>3 DEF PagesInv, Past
      <3>2. viewer.list = Enabled
        BY <1>0, <2>1, <2>3 DEF IInv, OldLists, Past
      <3> QED
        BY <1>3, <2>1, <3>1, <3>2
    <2>4. Present(page)' = Present(page)
      BY <1>1, <2>1 DEF Present
    <2> QED
      BY <1>1, <2>1, <2>2, <2>3, <2>4 DEF PagesInv, f
  <1>6. CASE ViewerQueries
    <2>1. /\ viewer.at = "query" /\ viewer'.at = "store" /\ page' = page
          /\ viewer'.asked = viewer.asked /\ viewer'.shown = Board(viewer.freeze)
      BY <1>6 DEF ViewerQueries, IInv, Types
    <2>2. Present(page)' = Present(page)
      BY <1>1, <2>1 DEF Present
    <2> QED
      BY <1>1, <2>1, <2>2 DEF PagesInv, f
  <1>7. CASE ViewerStores
    <2>1. /\ viewer.at = "store" /\ viewer'.at = "idle"
          /\ page' = [shown |-> viewer.shown, till |-> now + PageTTL]
      BY <1>7 DEF ViewerStores, ViewerIdle, KeptFor
    <2>2. page'.shown = viewer.shown /\ page'.till = now + PageTTL
      BY <2>1
    <2>3. page' \in [shown : SUBSET Round, till : Nat] /\ page'.till <= now + PageTTL
      BY <1>0, <2>1, <2>2
    <2>4. ASSUME f # NotFrozen, Past(page'.till - Slow - PageTTL, f)
          PROVE  page'.shown \subseteq Board(f)
      <3>1. now <= viewer.asked + Slow
        BY <2>1 DEF PagesInv
      <3>2. Past(viewer.asked, f)
        BY <1>0, <2>2, <2>4, <3>1 DEF Past
      <3> QED
        BY <2>1, <2>2, <2>4, <3>2 DEF PagesInv, f
    <2> QED
      BY <1>1, <2>1, <2>3, <2>4 DEF PagesInv, f
  <1> QED
    BY <1>4, <1>5, <1>6, <1>7

\* After an edit no request and no page is late enough to be held to it.
LEMMA EditPages ==
  ASSUME IInv, PagesInv, Edit
  PROVE  PagesInv'
  <1>0. /\ now \in Nat \ {0} /\ edits \in Nat
        /\ CACHE_TTL \in Nat /\ Slow \in Nat /\ PageTTL \in Nat /\ viewer.asked \in Nat
    BY PageTypes
  <1>1. /\ edits' = edits + 1 /\ changed' = now
        /\ UNCHANGED <<now, viewer, page>>
    BY DEF Edit
  <1>2. page.till \in Nat /\ page.till <= now + PageTTL
    BY DEF PagesInv
  <1>3. \A g : ~Past(page.till - Slow - PageTTL, g)'
    BY <1>0, <1>1, <1>2 DEF Past
  <1>4. viewer.at # "idle" => \A g : ~Past(viewer.asked, g)'
    BY <1>0, <1>1 DEF Past, PagesInv
  <1> QED
    BY <1>0, <1>1, <1>3, <1>4 DEF PagesInv

\* A freeze that comes into force was not before the instant that passes.
LEMMA TickPages ==
  ASSUME IInv, PagesInv, Tick
  PROVE  PagesInv'
  <1> DEFINE f == FreezeTime(Enabled, now)
             g == FreezeTime(Enabled, now + 1)
  <1>0. /\ now \in Nat \ {0} /\ changed \in Nat /\ edits \in Nat /\ now + 1 \in Nat
        /\ CACHE_TTL \in Nat /\ Slow \in Nat /\ PageTTL \in Nat
        /\ f \in Nat /\ viewer.asked \in Nat /\ Enabled \in SUBSET Window
    BY PageTypes
  <1>1. /\ now' = now + 1 /\ UNCHANGED <<windows, manual, rounds, viewer, edits, changed>>
        /\ FreezeTime(Enabled, now)' = g
        /\ \A t, h : Past(t, h)' = Past(t, h)
        /\ \A h : Board(h)' = Board(h)
    BY DEF Tick, FreezeTime, Enabled, Past, Board
  <1>2. page' \in {page, NoPage}
    BY DEF Tick
  <1>3. /\ page' \in [shown : SUBSET Round, till : Nat] /\ page'.till <= now' + PageTTL
        /\ Present(page)' => page' = page /\ Present(page)
    BY <1>0, <1>1, <1>2 DEF PagesInv, NoPage, Present
  <1>4. viewer.at # "idle" => viewer.asked <= now' /\ now' <= viewer.asked + Slow
    BY <1>0, <1>1 DEF Tick, InTime, PagesInv, IInv, Types
  <1>5. ASSUME g # NotFrozen, g <= now PROVE f = g
    <2>1. CASE manual # NotFrozen
      BY <2>1 DEF FreezeTime
    <2>2. CASE manual = NotFrozen
      <3>1. f = WindowDerivedFreeze(Enabled, now) /\ g = WindowDerivedFreeze(Enabled, now + 1)
        BY <2>2 DEF FreezeTime
      <3> QED
        BY <1>0, <1>5, <3>1, FreezeStays
    <2> QED
      BY <2>1, <2>2
  <1>6. g \in Nat
    BY <1>0, DerivedFreeze DEF FreezeTime, IInv, Types
  <1>7. viewer.at # "idle" /\ Past(viewer.asked, g) => g <= now
    BY <1>0, <1>6 DEF Past, PagesInv
  <1>8. Past(page.till - Slow - PageTTL, g) => g <= now
    <2>1. page.till \in Nat /\ page.till <= now + PageTTL
      BY DEF PagesInv
    <2> QED
      BY <1>0, <1>6, <2>1 DEF Past
  <1>9. ASSUME g # NotFrozen
        PROVE  /\ viewer.at = "query" /\ Past(viewer.asked, g) => viewer.freeze = g
               /\ viewer.at = "store" /\ Past(viewer.asked, g) => viewer.shown \subseteq Board(g)
               /\ Present(page) /\ Past(page.till - Slow - PageTTL, g) => page.shown \subseteq Board(g)
    <2> HIDE DEF f, g
    <2>1. f = g => f # NotFrozen
      BY <1>9
    <2> QED
      BY <1>5, <1>7, <1>8, <1>9, <2>1 DEF PagesInv, f
  <1> HIDE DEF f, g
  <1>10. viewer'.at = "refill" /\ manual' # NotFrozen => edits' > 0 /\ viewer'.asked <= changed'
    BY <1>1 DEF PagesInv
  <1> QED
    BY <1>1, <1>3, <1>4, <1>9, <1>10 DEF PagesInv

LEMMA PagesStep == IInv /\ PagesInv /\ [Next]_vars => PagesInv'
  <1> SUFFICES ASSUME IInv, PagesInv, [Next]_vars PROVE PagesInv'
    OBVIOUS
  <1>1. now \in Nat \ {0} /\ PageTTL \in Nat
    BY PageTypes
  <1>2. CASE EngineHit \/ EngineMiss \/ EngineRefill \/ CloseRound \/ UpdateAllCache
               \/ RefreshAfterWindowChange \/ UNCHANGED vars
    <2>1. /\ UNCHANGED <<now, windows, manual, viewer, edits, changed>>
          /\ page' \in {page, NoPage} /\ rounds \subseteq rounds'
      BY <1>2 DEF EngineHit, EngineMiss, EngineRefill, CloseRound, UpdateAllCache,
                  RefreshAfterWindowChange, vars
    <2> QED
      BY <1>1, <2>1, QuietPages
  <1>3. CASE CreateWindow \/ ToggleWindow \/ DeleteWindow \/ SetFreeze
    BY <1>3, EditPages DEF CreateWindow, ToggleWindow, DeleteWindow, SetFreeze
  <1> QED
    BY <1>2, <1>3, ViewerPages, TickPages DEF Next

\* A page that shows more than the freeze allows was begun before the freeze or
\* within a minute of the last edit, and is over when a page's life is.
THEOREM LatePagesEnd == Spec => []LatePageEnds
  <1>1. Init => PagesInv
    BY ScheduleAssumption DEF Init, PagesInv, NoPage, ViewerIdle, Present
  <1>2. ASSUME IInv, PagesInv PROVE LatePageEnds
    <2> DEFINE f == FreezeTime(Enabled, now)
               S == {f} \cup (IF edits = 0 THEN {} ELSE {changed + CACHE_TTL + Slow})
               since == Max(S)
    <2>0. /\ now \in Nat /\ changed \in Nat /\ f \in Nat
          /\ CACHE_TTL \in Nat /\ Slow \in Nat /\ PageTTL \in Nat
      BY <1>2, PageTypes
    <2>1. since \in Nat /\ f <= since /\ (edits = 0 \/ changed + CACHE_TTL + Slow <= since)
      <3>1. S \in SUBSET Nat /\ S # {} /\ f \in S
            /\ (edits = 0 \/ changed + CACHE_TTL + Slow \in S)
        BY <2>0
      <3>2. \A x \in S : x <= f + changed + CACHE_TTL + Slow
        BY <2>0
      <3>3. f + changed + CACHE_TTL + Slow \in Nat
        BY <2>0
      <3> HIDE DEF S, f
      <3>4. Max(S) \in S /\ \A x \in S : x <= Max(S)
        BY <3>1, <3>2, <3>3, MaxIsGreatest
      <3> QED
        BY <3>1, <3>4
    <2> HIDE DEF since
    <2>2. SUFFICES ASSUME f # NotFrozen, Present(page), ~(page.shown \subseteq Board(f))
                   PROVE  now < since + Slow + PageTTL
      BY DEF LatePageEnds, since
    <2>3. ~Past(page.till - Slow - PageTTL, f)
      BY <1>2, <2>2 DEF PagesInv
    <2>4. page.till \in Nat /\ now < page.till
      BY <1>2, <2>2 DEF PagesInv, Present
    <2> HIDE DEF f
    <2>5. page.till <= since + Slow + PageTTL
      BY <2>0, <2>1, <2>3, <2>4 DEF Past
    <2> QED
      BY <2>0, <2>1, <2>4, <2>5
  <1> QED
    BY <1>1, <1>2, PagesStep, Inductive, PTL DEF Spec

=============================================================================

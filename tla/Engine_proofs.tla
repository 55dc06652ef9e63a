---------------------------- MODULE Engine_proofs ----------------------------
(***************************************************************************)
(* Proofs about Engine, alone and with the rollbacks of Admin beside it,   *)
(* for every set of services and teams, every number of rollbacks at once, *)
(* every assignment of points and every limit.                             *)
(***************************************************************************)
EXTENDS Admin, FiniteSetTheorems, WellFoundedInduction, TLAPS

Numbers(R) == {r.number : r \in R}

\* The types of the tables.
TablesOK ==
  /\ rounds \subseteq RoundRow(Nat)
  /\ checks \subseteq CheckRow(Nat)
  /\ IsFiniteSet(checks)
  /\ round_score \subseteq ScoreRow(Nat)
  /\ kb \subseteq [number : Nat, live : BOOLEAN]
  /\ failure_cache \in [Services -> Nat]
  /\ last_id \in Nat

\* Round numbers have no gap, follow the ids, and an id is one row.
Sequential ==
  /\ LastRoundNum(rounds) \in Nat
  /\ Numbers(rounds) = 1..LastRoundNum(rounds)
  /\ \A r, q \in rounds : r.number < q.number <=> r.id < q.id
  /\ \A r, q \in rounds : r.id = q.id => r = q
  /\ \A r \in rounds : r.id \in 1..last_id

\* Checks belong to closed rounds, and a closed round has one of each service.
Whole ==
  /\ \A c \in checks : \E r \in rounds : r.id = c.round /\ r.closed
  /\ \A r \in rounds : r.closed =>
       \A s \in Services : \E v \in BOOLEAN :
         /\ [round |-> r.id, service |-> s, result |-> v] \in checks
         /\ [round |-> r.id, service |-> s, result |-> ~v] \notin checks

\* What holds of the database alone, in every state.
DbInv ==
  TablesOK /\ Sequential /\ Whole /\ ScoresMatchChecks /\ FailureCacheMatchesChecks

\* Where the engine is, in terms of the number of the last stored round.
Position ==
  LET last == LastRoundNum(rounds)
  IN  /\ pc \in {"idle", "landed"} => last <= current_round
      /\ pc \in {"manifest", "polling", "opening"} => current_round = last + 1
      /\ pc \in {"collecting", "closing"} =>
           /\ current_round = last
           /\ [id |-> round_id, number |-> current_round, closed |-> FALSE] \in rounds
      /\ pc = "cleanup" => current_round \in {last, last + 1} /\ current_round >= 1

\* The types of what is not a table.
ControlOK ==
  /\ pc \in Alive \cup {"exited", "down", "finished"}
  /\ current_round \in Nat /\ round_id \in Nat /\ rounds_run \in Nat
  /\ consecutive_round_failures \in Nat
  /\ last_round \in BOOLEAN
  /\ attempt \in 0..CLEANUP_MAX_ATTEMPTS
  /\ task_metas \in [Services -> Outcomes]
  /\ task \in [Services -> Results \cup {"none", "pending"}]
  /\ expired \subseteq Services
  /\ paused \in BOOLEAN
  /\ abandoned \subseteq Nat

\* The inductive invariant.
IInv == ControlOK /\ DbInv /\ Position /\ HalfWrittenRoundsAccounted

-----------------------------------------------------------------------------
(***************************************************************************)
(* Operators on tables                                                     *)
(***************************************************************************)

\* The last number of a table numbered 1..n is n.
LEMMA LastOfInterval ==
  ASSUME NEW R, NEW n \in Nat, Numbers(R) = 1..n
  PROVE  LastRoundNum(R) = n
  <1>1. {0} \cup {r.number : r \in R} = 0..n
    BY DEF Numbers
  <1>2. n \in 0..n /\ \A y \in 0..n : n >= y
    OBVIOUS
  <1>3. \A x \in 0..n : (\A y \in 0..n : x >= y) => x = n
    OBVIOUS
  <1>4. Max(0..n) = n
    BY <1>2, <1>3 DEF Max
  <1>5. QED
    BY <1>1, <1>4 DEF LastRoundNum

\* The number of failures counted for a finite set of checks is a number.
LEMMA CountIsNat ==
  ASSUME NEW C, IsFiniteSet(C), NEW s
  PROVE  ConsecutiveFailures(C, s) \in Nat
  <1>1. FailingRun(C, s) \subseteq C
    BY DEF FailingRun
  <1>2. IsFiniteSet(FailingRun(C, s))
    BY <1>1, FS_Subset
  <1>3. QED
    BY <1>2, FS_CardinalityType DEF ConsecutiveFailures

\* The rows written for a round are rows of round_score.
LEMMA RowsForType ==
  ASSUME NEW id \in Nat, NEW n \in Nat, NEW P \in SUBSET Services
  PROVE  RowsFor(id, n, P) \subseteq ScoreRow(Nat)
  <1> DEFINE of(t) == {s \in P : TeamOf[s] = t}
  <1>1. ASSUME NEW t \in Teams
        PROVE  [round |-> id, number |-> n, team |-> t, points |-> Earned(of(t))] \in ScoreRow(Nat)
    <2>1. of(t) \in SUBSET Services
      OBVIOUS
    <2>2. Earned(of(t)) \in {Earned(S) : S \in SUBSET Services}
      BY <2>1
    <2>3. QED
      BY <2>2, Zenon DEF ScoreRow
  <1>2. QED
    BY <1>1 DEF RowsFor

\* The checks of a round about to be closed are finitely many rows of checks.
LEMMA NewChecksType ==
  ASSUME round_id \in Nat
  PROVE  NewChecks \subseteq CheckRow(Nat) /\ IsFiniteSet(NewChecks)
  <1>1. NewChecks \subseteq CheckRow(Nat)
    <2>1. \A s \in Services : (s \in Passed) \in BOOLEAN
      OBVIOUS
    <2>2. \A s \in Services :
            [round |-> round_id, service |-> s, result |-> s \in Passed] \in CheckRow(Nat)
      BY <2>1, Zenon DEF CheckRow
    <2>3. QED
      BY <2>2, Zenon DEF NewChecks
  <1> DEFINE f == [s \in Services |->
                    [round |-> round_id, service |-> s, result |-> s \in Passed]]
  <1>2. f \in Surjection(Services, NewChecks)
    <2>1. f \in [Services -> NewChecks]
      BY Zenon DEF NewChecks
    <2>2. \A c \in NewChecks : \E s \in Services : f[s] = c
      BY Zenon DEF NewChecks
    <2>3. QED
      BY <2>1, <2>2, Zenon DEF Surjection
  <1>3. IsFiniteSet(NewChecks)
    BY <1>2, ServicesAssumption, FS_Surjection
  <1>4. QED
    BY <1>1, <1>3


\* A new pass ends the run of failures of its service.
LEMMA PassResets ==
  ASSUME NEW C, C \subseteq CheckRow(Nat), NEW N, NEW id \in Nat, NEW s \in Services,
         N \subseteq CheckRow(Nat),
         \A c \in C : c.round < id,
         \A c \in N : c.round = id,
         \A c \in N : c.service = s => c.result,
         \E c \in N : c.service = s
  PROVE  ConsecutiveFailures(C \cup N, s) = 0
  <1>1. PICK p \in N : p.service = s
    OBVIOUS
  <1>2. p \in C \cup N /\ p.result /\ p.round = id
    BY <1>1
  <1>3. FailingRun(C \cup N, s) = {}
    <2> SUFFICES ASSUME NEW c \in C \cup N, c.service = s, ~c.result, p.round < c.round
                 PROVE  FALSE
      BY <1>1, <1>2 DEF FailingRun
    <2>1. c \in C
      OBVIOUS
    <2>2. c.round \in Nat /\ c.round < id
      BY <2>1 DEF CheckRow
    <2>3. QED
      BY <2>2, <1>2
  <1>4. QED
    BY <1>3, FS_EmptySet DEF ConsecutiveFailures

\* A new failure lengthens it by one.
LEMMA FailureExtends ==
  ASSUME NEW C, C \subseteq CheckRow(Nat), IsFiniteSet(C),
         NEW N, NEW id \in Nat, NEW s \in Services, NEW f \in N,
         N \subseteq CheckRow(Nat),
         \A c \in C : c.round < id,
         \A c \in N : c.round = id,
         \A c \in N : c.service = s <=> c = f,
         ~f.result
  PROVE  ConsecutiveFailures(C \cup N, s) = ConsecutiveFailures(C, s) + 1
  <1>1. f.service = s /\ f.round = id /\ f \notin C
    <2>1. f \notin C
      <3> SUFFICES ASSUME f \in C PROVE FALSE
        OBVIOUS
      <3>1. f.round < id /\ f.round = id
        OBVIOUS
      <3>2. QED
        BY <3>1
    <2>2. QED
      BY <2>1
  <1>2. \A p \in C \cup N : p.service = s /\ p.result => p \in C
    OBVIOUS
  <1>3. FailingRun(C \cup N, s) = FailingRun(C, s) \cup {f}
    <2>1. FailingRun(C \cup N, s) \subseteq FailingRun(C, s) \cup {f}
      BY DEF FailingRun
    <2>2. FailingRun(C, s) \subseteq FailingRun(C \cup N, s)
      BY <1>2 DEF FailingRun
    <2>3. f \in FailingRun(C \cup N, s)
      BY <1>1, <1>2 DEF FailingRun
    <2>4. QED
      BY <2>1, <2>2, <2>3
  <1>4. IsFiniteSet(FailingRun(C, s)) /\ f \notin FailingRun(C, s)
    BY <1>1, FS_Subset DEF FailingRun
  <1>5. QED
    BY <1>3, <1>4, FS_AddElement, FS_CardinalityType DEF ConsecutiveFailures


-----------------------------------------------------------------------------
(***************************************************************************)
(* The four transactions preserve what holds of the database               *)
(***************************************************************************)

\* A round row without checks earns nothing.
LEMMA NoChecksNoRows ==
  ASSUME NEW C, NEW id, NEW n, \A c \in C : c.round # id
  PROVE  RowsFor(id, n, PassedIn(C, id)) = {}
  <1>1. PassedIn(C, id) = {}
    BY DEF PassedIn
  <1>2. QED
    BY <1>1 DEF RowsFor

\* The rows that the checks materialize to.
LEMMA MaterializedRow ==
  ASSUME NEW R, NEW C, NEW w
  PROVE  w \in MaterializeAll(R, C) <=>
           \E r \in R : w \in RowsFor(r.id, r.number, PassedIn(C, r.id))
  BY Zenon DEF MaterializeAll

\* A table with exactly these rows is the materialization.
LEMMA MaterializedRows ==
  ASSUME NEW T, NEW R, NEW C,
         \A w : w \in T <=> \E r \in R : w \in RowsFor(r.id, r.number, PassedIn(C, r.id))
  PROVE  T = MaterializeAll(R, C)
  <1>1. \A w : w \in T <=> w \in MaterializeAll(R, C)
    BY MaterializedRow, Zenon
  <1>2. QED
    BY <1>1, Zenon

\* Every row written for a round carries its id.
LEMMA RowsForRound ==
  ASSUME NEW id, NEW n, NEW P, NEW w \in RowsFor(id, n, P)
  PROVE  w.round = id
  <1>1. PICK t, x : w = [round |-> id, number |-> n, team |-> t, points |-> x]
    BY Zenon DEF RowsFor
  <1>2. QED
    BY <1>1

\* Inserting the round row keeps the database in order.
LEMMA OpenKeepsDb ==
  ASSUME DbInv, CommitOpenRound,
         current_round = LastRoundNum(rounds) + 1
  PROVE  /\ DbInv'
         /\ LastRoundNum(rounds') = current_round
         /\ [id |-> last_id', number |-> current_round, closed |-> FALSE] \in rounds'
  <1> DEFINE n == LastRoundNum(rounds)
             new == [id |-> last_id + 1, number |-> current_round, closed |-> FALSE]
  <1>1. /\ rounds' = rounds \cup {new} /\ last_id' = last_id + 1
        /\ UNCHANGED <<checks, round_score, kb, failure_cache>>
    BY DEF CommitOpenRound, NewRound
  <1>2. n \in Nat /\ last_id \in Nat /\ current_round = n + 1
    BY DEF DbInv, Sequential, TablesOK
  <1>3. new \in RoundRow(Nat) /\ new.id = last_id + 1 /\ new.number = n + 1 /\ ~new.closed
    BY <1>2 DEF RoundRow
  <1>4. Numbers(rounds') = 1..(n + 1)
    <2>1. Numbers(rounds') = Numbers(rounds) \cup {n + 1}
      BY <1>1, <1>3 DEF Numbers
    <2>2. Numbers(rounds) = 1..n
      BY DEF DbInv, Sequential
    <2>3. QED
      BY <2>1, <2>2, <1>2
  <1>5. LastRoundNum(rounds') = n + 1
    BY <1>2, <1>4, LastOfInterval
  <1>6. \A r \in rounds : r.id \in Nat /\ r.id <= last_id /\ r.number \in Nat /\ r.number <= n
    <2>1. \A r \in rounds : r.number \in 1..n
      BY DEF DbInv, Sequential, Numbers
    <2>2. QED
      BY <2>1, <1>2 DEF DbInv, Sequential
  <1>7. Sequential'
    <2>1. \A r, q \in rounds' : r.number < q.number <=> r.id < q.id
      BY <1>1, <1>2, <1>3, <1>6 DEF DbInv, Sequential
    <2>2. \A r, q \in rounds' : r.id = q.id => r = q
      <3> SUFFICES ASSUME NEW r \in rounds', NEW q \in rounds', r.id = q.id
                   PROVE  r = q
        OBVIOUS
      <3>1. CASE r \in rounds /\ q \in rounds
        BY <3>1 DEF DbInv, Sequential
      <3>2. CASE r \in rounds /\ q = new
        BY <3>2, <1>2, <1>3, <1>6
      <3>3. CASE r = new /\ q \in rounds
        BY <3>3, <1>2, <1>3, <1>6
      <3>4. (r \in rounds \/ r = new) /\ (q \in rounds \/ q = new)
        BY <1>1, Zenon
      <3>5. QED
        BY <3>1, <3>2, <3>3, <3>4, Zenon
    <2>3. \A r \in rounds' : r.id \in 1..last_id'
      BY <1>1, <1>2, <1>3 DEF DbInv, Sequential
    <2>4. LastRoundNum(rounds') \in Nat /\ Numbers(rounds') = 1..LastRoundNum(rounds')
      BY <1>2, <1>4, <1>5
    <2>5. QED
      BY <2>1, <2>2, <2>3, <2>4, Zenon DEF Sequential, Numbers, LastRoundNum
  <1>8. \A c \in checks : c.round # new.id
    <2>1. \A c \in checks : \E r \in rounds : r.id = c.round
      BY DEF DbInv, Whole
    <2>2. QED
      BY <2>1, <1>2, <1>3, <1>6
  <1>9. ScoresMatchChecks'
    <2>1. RowsFor(new.id, new.number, PassedIn(checks, new.id)) = {}
      BY <1>8, NoChecksNoRows
    <2>2. MaterializeAll(rounds \cup {new}, checks) = MaterializeAll(rounds, checks)
      BY <2>1 DEF MaterializeAll
    <2>3. QED
      BY <1>1, <2>2 DEF DbInv, ScoresMatchChecks
  <1>10. Whole'
    BY <1>1, <1>3 DEF DbInv, Whole
  <1>11. TablesOK' /\ FailureCacheMatchesChecks'
    <2>1. rounds' \subseteq RoundRow(Nat)
      <3>1. rounds \subseteq RoundRow(Nat)
        BY DEF DbInv, TablesOK
      <3>2. QED
        BY <1>1, <1>3, <3>1, Zenon
    <2>. last_id' \in Nat
      BY <1>1, <1>2
    <2>2. TablesOK'
      BY <1>1, <2>1 DEF DbInv, TablesOK
    <2>3. FailureCacheMatchesChecks'
      BY <1>1 DEF DbInv, FailureCacheMatchesChecks
    <2>4. QED
      BY <2>2, <2>3
  <1>12. QED
    BY <1>1, <1>2, <1>5, <1>7, <1>9, <1>10, <1>11 DEF DbInv

\* The checks that closing a round adds: their shape, and which they are.
LEMMA NewChecksShape ==
  ASSUME NEW c \in NewChecks
  PROVE  /\ c.round = round_id
         /\ c.service \in Services
         /\ c.result = (c.service \in Passed)
         /\ c = [round |-> round_id, service |-> c.service, result |-> c.service \in Passed]
  <1>1. PICK u \in Services : c = [round |-> round_id, service |-> u, result |-> u \in Passed]
    BY Zenon DEF NewChecks
  <1>2. c.round = round_id /\ c.service = u /\ c.result = (u \in Passed)
    BY <1>1
  <1>3. QED
    BY <1>1, <1>2, Zenon

\* The check added for a service says whether the service passed.
LEMMA NewChecksMember ==
  ASSUME NEW s \in Services, NEW v \in BOOLEAN
  PROVE  [round |-> round_id, service |-> s, result |-> v] \in NewChecks <=> v = (s \in Passed)
  <1> DEFINE c == [round |-> round_id, service |-> s, result |-> v]
  <1>1. ASSUME v = (s \in Passed) PROVE c \in NewChecks
    BY <1>1, Zenon DEF NewChecks
  <1>2. ASSUME c \in NewChecks PROVE v = (s \in Passed)
    <2>1. c.service = s /\ c.result = v
      OBVIOUS
    <2>2. c.result = (c.service \in Passed)
      BY <1>2, NewChecksShape, Zenon
    <2>3. QED
      BY <2>1, <2>2, Zenon
  <1>3. QED
    BY <1>1, <1>2, Zenon

\* Closing the open round, the newest one, keeps the database in order.
LEMMA CloseKeepsDb ==
  ASSUME DbInv, CommitCloseRound,
         current_round = LastRoundNum(rounds),
         [id |-> round_id, number |-> current_round, closed |-> FALSE] \in rounds
  PROVE  /\ DbInv'
         /\ LastRoundNum(rounds') = LastRoundNum(rounds)
         /\ \A r \in rounds' : ~r.closed => r \in rounds /\ r.number # current_round
         /\ current_round \in Nat \ {0}
  <1> DEFINE n    == LastRoundNum(rounds)
             row  == [id |-> round_id, number |-> current_round, closed |-> FALSE]
             done == [id |-> round_id, number |-> current_round, closed |-> TRUE]
  <1>1. /\ checks' = checks \cup NewChecks
        /\ rounds' = {IF r.id = round_id THEN Ended(r) ELSE r : r \in rounds}
        /\ round_score' = round_score \cup RowsFor(round_id, current_round, Passed)
        /\ failure_cache' =
             [s \in Services |-> IF s \in Passed THEN 0 ELSE failure_cache[s] + 1]
        /\ UNCHANGED <<kb, last_id>>
    BY DEF CommitCloseRound
  <1>2. /\ n \in Nat /\ current_round = n
        /\ Numbers(rounds) = 1..n
        /\ rounds \subseteq RoundRow(Nat)
        /\ row \in rounds
        /\ \A r, q \in rounds : r.number < q.number <=> r.id < q.id
        /\ \A r, q \in rounds : r.id = q.id => r = q
        /\ \A r \in rounds : r.id \in 1..last_id
    BY DEF DbInv, Sequential, TablesOK
  <1>3. /\ row.id = round_id /\ row.number = current_round /\ ~row.closed
        /\ done.id = round_id /\ done.number = current_round /\ done.closed
    OBVIOUS
  <1>4. \A r \in rounds : r.id = round_id <=> r = row
    BY <1>2, <1>3
  <1>5. rounds' = (rounds \ {row}) \cup {done}
    <2>1. Ended(row) = done
      BY <1>3 DEF Ended
    <2>2. \A r \in rounds : r # row => (IF r.id = round_id THEN Ended(r) ELSE r) = r
      BY <1>4, Zenon
    <2>3. (IF row.id = round_id THEN Ended(row) ELSE row) = done
      BY <1>3, <2>1, Zenon
    <2> HIDE DEF row, done
    <2>4. QED
      BY <1>1, <1>2, <2>2, <2>3, Zenon
  <1>6. done \in RoundRow(Nat) /\ round_id \in Nat /\ current_round \in Nat \ {0}
    <2>1. row \in RoundRow(Nat)
      BY <1>2
    <2>2. current_round \in 1..n
      BY <1>2, <1>3 DEF Numbers
    <2>3. round_id \in Nat /\ current_round \in Nat
      BY <1>3, <2>1 DEF RoundRow
    <2>4. QED
      BY <1>2, <2>2, <2>3 DEF RoundRow
  <1>7. \A c \in checks : c.round < round_id
    <2> SUFFICES ASSUME NEW c \in checks PROVE c.round < round_id
      OBVIOUS
    <2>1. PICK r \in rounds : r.id = c.round /\ r.closed
      BY DEF DbInv, Whole
    <2>2. r.id # round_id
      BY <1>3, <1>4, <2>1
    <2>3. r.number \in 1..n
      BY <1>2 DEF Numbers
    <2>4. ~(round_id < r.id)
      BY <1>2, <1>3, <2>3
    <2>5. r.id \in Nat
      BY <1>2 DEF RoundRow
    <2>6. QED
      BY <1>6, <2>1, <2>2, <2>4, <2>5
  <1>8. Numbers(rounds') = Numbers(rounds)
    BY <1>2, <1>3, <1>5 DEF Numbers
  <1>9. LastRoundNum(rounds') = n
    BY <1>2, <1>8, LastOfInterval
  <1>10. Sequential'
    <2>1. \A r \in rounds' : \E o \in rounds : o.id = r.id /\ o.number = r.number
      BY <1>2, <1>3, <1>5
    <2>2. \A r, q \in rounds' : r.number < q.number <=> r.id < q.id
      BY <1>2, <2>1
    <2>3. \A r, q \in rounds' : r.id = q.id => r = q
      <3> SUFFICES ASSUME NEW r \in rounds', NEW q \in rounds', r.id = q.id
                   PROVE  r = q
        OBVIOUS
      <3>1. \A x \in rounds' : x.id = round_id <=> x = done
        BY <1>3, <1>4, <1>5, Zenon
      <3>2. CASE r # done /\ q # done
        <4>1. r \in rounds /\ q \in rounds
          BY <1>5, <3>2, Zenon
        <4>2. QED
          BY <1>2, <4>1
      <3>3. CASE r = done \/ q = done
        BY <3>1, <3>3, Zenon
      <3>4. QED
        BY <3>2, <3>3
    <2>4. \A r \in rounds' : r.id \in 1..last_id'
      BY <1>1, <1>2, <2>1
    <2>5. LastRoundNum(rounds') \in Nat /\ Numbers(rounds') = 1..LastRoundNum(rounds')
      BY <1>2, <1>8, <1>9
    <2>6. QED
      BY <2>2, <2>3, <2>4, <2>5, Zenon DEF Sequential, Numbers, LastRoundNum
  <1>11. \A c \in NewChecks : c.round = round_id /\ c.result = (c.service \in Passed)
    BY NewChecksShape, Zenon
  <1>12. Whole'
    <2>1. ASSUME NEW c \in checks'
          PROVE  \E r \in rounds' : r.id = c.round /\ r.closed
      <3>1. CASE c \in checks
        <4>1. PICK r \in rounds : r.id = c.round /\ r.closed
          BY <3>1 DEF DbInv, Whole
        <4>2. r \in rounds'
          BY <1>3, <1>5, <4>1
        <4>3. QED
          BY <4>1, <4>2
      <3>2. CASE c \in NewChecks
        BY <3>2, <1>3, <1>5, <1>11
      <3>3. QED
        BY <1>1, <3>1, <3>2
    <2>2. ASSUME NEW r \in rounds', r.closed, NEW s \in Services
          PROVE  \E v \in BOOLEAN :
                   /\ [round |-> r.id, service |-> s, result |-> v] \in checks'
                   /\ [round |-> r.id, service |-> s, result |-> ~v] \notin checks'
      <3>1. CASE r \in rounds /\ r # row
        <4>1. PICK v \in BOOLEAN :
                /\ [round |-> r.id, service |-> s, result |-> v] \in checks
                /\ [round |-> r.id, service |-> s, result |-> ~v] \notin checks
          BY <2>2, <3>1 DEF DbInv, Whole
        <4>2. r.id # round_id
          BY <1>4, <3>1
        <4>3. [round |-> r.id, service |-> s, result |-> ~v] \notin NewChecks
          BY <1>11, <4>2
        <4>4. QED
          BY <1>1, <4>1, <4>3
      <3>2. CASE r = done
        <4> DEFINE v == s \in Passed
        <4>1. v \in BOOLEAN /\ v # ~v
          OBVIOUS
        <4>2. /\ [round |-> round_id, service |-> s, result |-> v] \in NewChecks
              /\ [round |-> round_id, service |-> s, result |-> ~v] \notin NewChecks
          BY <4>1, NewChecksMember, Zenon
        <4> HIDE DEF v
        <4>3. [round |-> round_id, service |-> s, result |-> ~v] \notin checks
          BY <1>7, <1>6
        <4>4. QED
          BY <1>1, <1>3, <3>2, <4>1, <4>2, <4>3
      <3>3. QED
        BY <1>5, <3>1, <3>2
    <2>3. QED
      BY <2>1, <2>2 DEF Whole
  <1>13. ScoresMatchChecks'
    <2>1. \A r \in rounds \ {row} : PassedIn(checks', r.id) = PassedIn(checks, r.id)
      BY <1>1, <1>4, <1>11 DEF PassedIn
    <2>2. PassedIn(checks', round_id) = Passed
      <3>1. \A s \in Services : [round |-> round_id, service |-> s, result |-> TRUE] \notin checks
        BY <1>6, <1>7
      <3>2. \A s \in Services :
              [round |-> round_id, service |-> s, result |-> TRUE] \in NewChecks <=> s \in Passed
        BY NewChecksMember, Zenon
      <3>3. QED
        BY <1>1, <3>1, <3>2, Zenon DEF PassedIn, Passed
    <2>3. RowsFor(round_id, current_round, PassedIn(checks, round_id)) = {}
      BY <1>6, <1>7, NoChecksNoRows
    <2>4. \A w : w \in round_score <=>
            \E r \in rounds : w \in RowsFor(r.id, r.number, PassedIn(checks, r.id))
      <3>1. round_score = MaterializeAll(rounds, checks)
        BY DEF DbInv, ScoresMatchChecks
      <3>2. QED
        BY <3>1, MaterializedRow, Zenon
    <2>5. ASSUME NEW w
          PROVE  w \in round_score' <=>
                   \E r \in rounds' : w \in RowsFor(r.id, r.number, PassedIn(checks', r.id))
      <3>1. ASSUME NEW r \in rounds, w \in RowsFor(r.id, r.number, PassedIn(checks, r.id))
            PROVE  \E q \in rounds' : w \in RowsFor(q.id, q.number, PassedIn(checks', q.id))
        <4>1. r # row
          BY <1>3, <2>3, <3>1, Zenon
        <4>2. r \in rounds' /\ PassedIn(checks', r.id) = PassedIn(checks, r.id)
          BY <1>5, <2>1, <4>1, Zenon
        <4>3. QED
          BY <3>1, <4>2, Zenon
      <3>2. ASSUME NEW r \in rounds', r # done,
                   w \in RowsFor(r.id, r.number, PassedIn(checks', r.id))
            PROVE  \E q \in rounds : w \in RowsFor(q.id, q.number, PassedIn(checks, q.id))
        <4>1. r \in rounds \ {row}
          BY <1>5, <3>2, Zenon
        <4>2. QED
          BY <2>1, <3>2, <4>1, Zenon
      <3>3. done \in rounds'
        BY <1>5, Zenon
      <3>4. RowsFor(done.id, done.number, PassedIn(checks', done.id))
              = RowsFor(round_id, current_round, Passed)
        BY <1>3, <2>2, Zenon
      <3> HIDE DEF row, done
      <3>5. ASSUME w \in round_score'
            PROVE  \E r \in rounds' : w \in RowsFor(r.id, r.number, PassedIn(checks', r.id))
        <4>1. w \in round_score \/ w \in RowsFor(round_id, current_round, Passed)
          BY <1>1, <3>5, Zenon
        <4>2. QED
          BY <2>4, <3>1, <3>3, <3>4, <4>1, Zenon
      <3>6. ASSUME NEW r \in rounds', w \in RowsFor(r.id, r.number, PassedIn(checks', r.id))
            PROVE  w \in round_score'
        <4>1. w \in round_score \/ w \in RowsFor(round_id, current_round, Passed)
          BY <2>4, <3>2, <3>4, <3>6, Zenon
        <4>2. QED
          BY <1>1, <4>1
      <3>7. QED
        BY <3>5, <3>6, Zenon
    <2>6. round_score' = MaterializeAll(rounds', checks')
      BY <2>5, MaterializedRows, Zenon
    <2>7. QED
      BY <2>6 DEF ScoresMatchChecks, MaterializeAll
  <1>14. NewChecks \subseteq CheckRow(Nat) /\ IsFiniteSet(NewChecks)
    BY <1>6, NewChecksType
  <1>15. FailureCacheMatchesChecks'
    <2> SUFFICES ASSUME NEW s \in Services
                 PROVE  failure_cache'[s] = ConsecutiveFailures(checks', s)
      BY Zenon DEF FailureCacheMatchesChecks
    <2>1. checks \subseteq CheckRow(Nat) /\ IsFiniteSet(checks)
      BY DEF DbInv, TablesOK
    <2>2. CASE s \in Passed
      <3>1. \A c \in NewChecks : c.service = s => c.result
        BY <1>11, <2>2
      <3>2. \E c \in NewChecks : c.service = s
        <4>1. [round |-> round_id, service |-> s, result |-> TRUE] \in NewChecks
          BY <2>2, NewChecksMember, Zenon
        <4>2. QED
          BY <4>1
      <3>3. \A c \in NewChecks : c.round = round_id
        BY <1>11
      <3>4. ConsecutiveFailures(checks \cup NewChecks, s) = 0
        BY <1>6, <1>7, <1>14, <2>1, <3>1, <3>2, <3>3, PassResets
      <3>5. QED
        BY <1>1, <2>2, <3>4
    <2>3. CASE s \notin Passed
      <3> DEFINE f == [round |-> round_id, service |-> s, result |-> FALSE]
      <3>1. f \in NewChecks
        <4>1. FALSE \in BOOLEAN /\ FALSE = (s \in Passed)
          BY <2>3
        <4>2. QED
          BY <4>1, NewChecksMember, Zenon
      <3>2. \A c \in NewChecks : c.service = s <=> c = f
        <4>1. ASSUME NEW c \in NewChecks, c.service = s PROVE c = f
          <5>1. PICK u \in Services :
                  c = [round |-> round_id, service |-> u, result |-> u \in Passed]
            BY Zenon DEF NewChecks
          <5>2. u = s
            BY <4>1, <5>1
          <5>3. (s \in Passed) = FALSE
            BY <2>3
          <5>4. QED
            BY <5>1, <5>2, <5>3, Zenon
        <4>2. QED
          BY <4>1
      <3>3. ~f.result
        OBVIOUS
      <3> HIDE DEF f
      <3>4. ConsecutiveFailures(checks \cup NewChecks, s) = ConsecutiveFailures(checks, s) + 1
        BY <1>6, <1>7, <1>11, <1>14, <2>1, <3>1, <3>2, <3>3, FailureExtends
      <3>5. QED
        BY <1>1, <2>3, <3>4 DEF DbInv, FailureCacheMatchesChecks
    <2>4. QED
      BY <2>2, <2>3
  <1>16. TablesOK'
    <2>1. rounds' \subseteq RoundRow(Nat)
      BY <1>2, <1>5, <1>6, Zenon
    <2>2. checks' \subseteq CheckRow(Nat) /\ IsFiniteSet(checks')
      BY <1>1, <1>14, FS_Union DEF DbInv, TablesOK
    <2>3. round_score' \subseteq ScoreRow(Nat)
      <3>1. Passed \in SUBSET Services
        BY DEF Passed
      <3>2. RowsFor(round_id, current_round, Passed) \subseteq ScoreRow(Nat)
        BY <1>6, <3>1, RowsForType
      <3>3. QED
        BY <1>1, <3>2, Zenon DEF DbInv, TablesOK
    <2>4. failure_cache' \in [Services -> Nat]
      BY <1>1 DEF DbInv, TablesOK
    <2>5. QED
      BY <1>1, <2>1, <2>2, <2>3, <2>4, Zenon DEF DbInv, TablesOK
  <1>17. ASSUME NEW r \in rounds', ~r.closed
         PROVE  r \in rounds /\ r.number # current_round
    <2>1. r \in rounds /\ r # row
      BY <1>3, <1>5, <1>17, Zenon
    <2>2. r.id # row.id
      BY <1>2, <2>1
    <2>3. r.id \in Nat /\ row.id \in Nat
      BY <1>2, <2>1 DEF RoundRow
    <2>4. r.number < row.number \/ row.number < r.number
      BY <1>2, <2>1, <2>2, <2>3
    <2>5. r.number \in Nat /\ row.number \in Nat
      BY <1>2, <2>1 DEF RoundRow
    <2>6. QED
      BY <1>3, <2>1, <2>4, <2>5
  <1>18. QED
    BY <1>6, <1>9, <1>10, <1>12, <1>13, <1>15, <1>16, <1>17 DEF DbInv

\* Removing the round of the newest number, or of the next one, keeps the
\* database in order.
LEMMA RemoveKeepsDb ==
  ASSUME DbInv, NEW n \in Nat \ {0}, RemoveRound(n),
         n \in {LastRoundNum(rounds), LastRoundNum(rounds) + 1}
  PROVE  /\ DbInv'
         /\ LastRoundNum(rounds') = n - 1
         /\ \A r \in rounds' : r \in rounds /\ r.number # n
  <1> DEFINE last == LastRoundNum(rounds)
             ids  == {r.id : r \in RoundsNumbered(n)}
  <1>1. /\ checks' = {c \in checks : c.round \notin ids}
        /\ round_score' = {w \in round_score : w.round \notin ids}
        /\ rounds' = {r \in rounds : r.id \notin ids}
        /\ failure_cache' = CountsRebuilt(checks', {c.service : c \in checks \ checks'})
        /\ kb' \subseteq kb
        /\ last_id' = last_id
    BY DEF RemoveRound, ScoresWithout, ManifestsWithout
  <1>2. /\ last \in Nat
        /\ Numbers(rounds) = 1..last
        /\ rounds \subseteq RoundRow(Nat)
        /\ \A r, q \in rounds : r.number < q.number <=> r.id < q.id
        /\ \A r, q \in rounds : r.id = q.id => r = q
        /\ \A r \in rounds : r.id \in 1..last_id
    BY DEF DbInv, Sequential, TablesOK
  <1>3. rounds' = {r \in rounds : r.number # n}
    <2>1. \A r \in rounds : r.id \in ids <=> r.number = n
      BY <1>2 DEF RoundsNumbered
    <2> HIDE DEF ids
    <2>2. QED
      BY <1>1, <2>1
  <1>4. Numbers(rounds') = 1..(n - 1)
    <2>1. Numbers(rounds') = (1..last) \ {n}
      BY <1>2, <1>3 DEF Numbers
    <2>2. (1..last) \ {n} = 1..(n - 1)
      BY <1>2
    <2>3. QED
      BY <2>1, <2>2
  <1>5. LastRoundNum(rounds') = n - 1
    <2>1. n - 1 \in Nat
      OBVIOUS
    <2>2. QED
      BY <1>4, <2>1, LastOfInterval
  <1>6. Sequential'
    <2>1. \A r, q \in rounds' : r.number < q.number <=> r.id < q.id
      BY <1>2, <1>3
    <2>2. \A r, q \in rounds' : r.id = q.id => r = q
      BY <1>2, <1>3
    <2>3. \A r \in rounds' : r.id \in 1..last_id'
      BY <1>1, <1>2, <1>3
    <2>4. LastRoundNum(rounds') \in Nat /\ Numbers(rounds') = 1..LastRoundNum(rounds')
      BY <1>4, <1>5
    <2>5. QED
      BY <2>1, <2>2, <2>3, <2>4, Zenon DEF Sequential, Numbers, LastRoundNum
  <1>7. \A r \in rounds' : r \in rounds /\ r.id \notin ids
    BY <1>1, Zenon
  <1>8. Whole'
    <2> HIDE DEF ids
    <2>1. \A c \in checks' : \E r \in rounds' : r.id = c.round /\ r.closed
      BY <1>1 DEF DbInv, Whole
    <2>2. ASSUME NEW r \in rounds', r.closed, NEW s \in Services
          PROVE  \E v \in BOOLEAN :
                   /\ [round |-> r.id, service |-> s, result |-> v] \in checks'
                   /\ [round |-> r.id, service |-> s, result |-> ~v] \notin checks'
      <3>1. PICK v \in BOOLEAN :
              /\ [round |-> r.id, service |-> s, result |-> v] \in checks
              /\ [round |-> r.id, service |-> s, result |-> ~v] \notin checks
        BY <1>7, <2>2 DEF DbInv, Whole
      <3>2. [round |-> r.id, service |-> s, result |-> v] \in checks'
        BY <1>1, <1>7, <3>1
      <3>3. [round |-> r.id, service |-> s, result |-> ~v] \notin checks'
        BY <1>1, <3>1
      <3>4. QED
        BY <3>2, <3>3
    <2>3. QED
      BY <2>1, <2>2 DEF Whole
  <1>9. ScoresMatchChecks'
    <2> HIDE DEF ids
    <2>1. \A r \in rounds' : PassedIn(checks', r.id) = PassedIn(checks, r.id)
      BY <1>1, <1>7 DEF PassedIn
    <2>2. \A w : w \in round_score <=>
            \E r \in rounds : w \in RowsFor(r.id, r.number, PassedIn(checks, r.id))
      <3>1. round_score = MaterializeAll(rounds, checks)
        BY DEF DbInv, ScoresMatchChecks
      <3>2. QED
        BY <3>1, MaterializedRow, Zenon
    <2>3. ASSUME NEW w
          PROVE  w \in round_score' <=>
                   \E r \in rounds' : w \in RowsFor(r.id, r.number, PassedIn(checks', r.id))
      <3>1. ASSUME NEW r \in rounds, w \in RowsFor(r.id, r.number, PassedIn(checks, r.id))
            PROVE  w.round = r.id
        BY <3>1, RowsForRound
      <3>2. ASSUME w \in round_score'
            PROVE  \E r \in rounds' : w \in RowsFor(r.id, r.number, PassedIn(checks', r.id))
        <4>1. w \in round_score /\ w.round \notin ids
          BY <1>1, <3>2, Zenon
        <4>2. PICK r \in rounds : w \in RowsFor(r.id, r.number, PassedIn(checks, r.id))
          BY <2>2, <4>1, Zenon
        <4>3. r \in rounds'
          BY <1>1, <3>1, <4>1, <4>2, Zenon
        <4>4. QED
          BY <2>1, <4>2, <4>3, Zenon
      <3>3. ASSUME NEW r \in rounds', w \in RowsFor(r.id, r.number, PassedIn(checks', r.id))
            PROVE  w \in round_score'
        <4>1. r \in rounds /\ r.id \notin ids
          BY <1>7, Zenon
        <4>2. w \in RowsFor(r.id, r.number, PassedIn(checks, r.id))
          BY <2>1, <3>3, Zenon
        <4>3. w.round = r.id
          BY <3>1, <4>1, <4>2, Zenon
        <4>4. w \in round_score
          BY <2>2, <4>1, <4>2, Zenon
        <4>5. QED
          BY <1>1, <4>1, <4>3, <4>4
      <3>4. QED
        BY <3>2, <3>3, Zenon
    <2>4. round_score' = MaterializeAll(rounds', checks')
      BY <2>3, MaterializedRows, Zenon
    <2>5. QED
      BY <2>4 DEF ScoresMatchChecks, MaterializeAll
  <1>10. IsFiniteSet(checks') /\ checks' \subseteq checks /\ checks' \subseteq CheckRow(Nat)
    BY <1>1, FS_Subset DEF DbInv, TablesOK
  <1>11. FailureCacheMatchesChecks'
    <2> SUFFICES ASSUME NEW s \in Services
                 PROVE  failure_cache'[s] = ConsecutiveFailures(checks', s)
      BY Zenon DEF FailureCacheMatchesChecks
    <2> DEFINE affected == {c.service : c \in checks \ checks'}
    <2>1. CASE s \in affected
      BY <1>1, <2>1 DEF CountsRebuilt
    <2>2. CASE s \notin affected
      <3>1. failure_cache'[s] = ConsecutiveFailures(checks, s)
        BY <1>1, <2>2 DEF CountsRebuilt, DbInv, FailureCacheMatchesChecks
      <3>2. \A c \in checks : c.service = s => c \in checks'
        BY <2>2
      <3>3. FailingRun(checks', s) = FailingRun(checks, s)
        BY <1>10, <3>2 DEF FailingRun
      <3>4. QED
        BY <3>1, <3>3 DEF ConsecutiveFailures
    <2>3. QED
      BY <2>1, <2>2
  <1>12. TablesOK'
    <2>1. failure_cache' \in [Services -> Nat]
      <3>1. \A s \in Services : ConsecutiveFailures(checks', s) \in Nat
        BY <1>10, CountIsNat
      <3>2. QED
        BY <1>1, <3>1 DEF CountsRebuilt, DbInv, TablesOK
    <2>2. rounds' \subseteq RoundRow(Nat) /\ round_score' \subseteq ScoreRow(Nat)
      BY <1>1, <1>2, Zenon DEF DbInv, TablesOK
    <2>3. QED
      BY <1>1, <1>10, <2>1, <2>2, Zenon DEF DbInv, TablesOK
  <1>13. QED
    BY <1>3, <1>5, <1>6, <1>8, <1>9, <1>11, <1>12 DEF DbInv

\* What holds of the database holds while nobody writes it.
LEMMA UnchangedDb ==
  ASSUME DbInv, UNCHANGED db
  PROVE  DbInv' /\ LastRoundNum(rounds') = LastRoundNum(rounds)
  <1>1. UNCHANGED <<rounds, checks, round_score, kb, failure_cache, last_id>>
    BY DEF db
  <1>2. QED
    BY <1>1 DEF DbInv, TablesOK, Sequential, Whole, ScoresMatchChecks,
                FailureCacheMatchesChecks, Numbers

\* Nor does what happens to the manifests matter to it.
LEMMA ManifestKeepsDb ==
  ASSUME DbInv, UNCHANGED <<rounds, checks, round_score, failure_cache, last_id>>,
         kb' \subseteq [number : Nat, live : BOOLEAN]
  PROVE  DbInv' /\ LastRoundNum(rounds') = LastRoundNum(rounds)
  BY DEF DbInv, TablesOK, Sequential, Whole, ScoresMatchChecks,
         FailureCacheMatchesChecks, Numbers

-----------------------------------------------------------------------------
(***************************************************************************)
(* The invariant                                                           *)
(***************************************************************************)

\* It holds of an empty database and a new engine.
LEMMA InitInv == Init => IInv
  <1> SUFFICES ASSUME Init PROVE IInv
    OBVIOUS
  <1>1. LastRoundNum(rounds) = 0
    <2>1. Numbers(rounds) = 1..0
      BY DEF Init, Numbers
    <2>2. QED
      BY <2>1, LastOfInterval
  <1>2. MaterializeAll(rounds, checks) = {}
    BY DEF Init, MaterializeAll
  <1>3. \A s \in Services : ConsecutiveFailures(checks, s) = 0
    <2>1. \A s \in Services : FailingRun(checks, s) = {}
      BY DEF Init, FailingRun
    <2>2. QED
      BY <2>1, FS_EmptySet DEF ConsecutiveFailures
  <1>4. TablesOK
    BY FS_EmptySet DEF Init, TablesOK
  <1>5. Sequential
    BY <1>1 DEF Init, Sequential, Numbers
  <1>6. Whole /\ ScoresMatchChecks /\ FailureCacheMatchesChecks
    BY <1>2, <1>3 DEF Init, Whole, ScoresMatchChecks, FailureCacheMatchesChecks
  <1>7. ControlOK
    <2>1. pc \in Alive
      BY DEF Init, Alive
    <2>2. attempt \in 0..CLEANUP_MAX_ATTEMPTS
      BY DEF Init, CLEANUP_MAX_ATTEMPTS
    <2>3. paused \in BOOLEAN /\ last_round \in BOOLEAN
      BY Zenon DEF Init
    <2>4. task_metas \in [Services -> Outcomes]
      BY DEF Init, Outcomes
    <2>5. QED
      BY <2>1, <2>2, <2>3, <2>4 DEF Init, ControlOK
  <1>8. Position /\ HalfWrittenRoundsAccounted
    BY <1>1 DEF Init, Position, HalfWrittenRoundsAccounted
  <1>9. QED
    BY <1>4, <1>5, <1>6, <1>7, <1>8 DEF IInv, DbInv

\* The next number follows the last one stored.
LEMMA NextNumberFollows ==
  ASSUME IInv, pc = "idle"
  PROVE  NextNumber = LastRoundNum(rounds) + 1 /\ NextNumber \in Nat
  <1>1. LastRoundNum(rounds) <= current_round /\ LastRoundNum(rounds) \in Nat
    BY DEF IInv, Position, DbInv, Sequential
  <1>2. current_round \in Nat
    BY DEF IInv, ControlOK
  <1>3. QED
    BY <1>1, <1>2 DEF NextNumber

\* A counter stays a number.
LEMMA CountedIsNat ==
  ASSUME NEW n \in Nat, NEW limit
  PROVE  Counted(n, limit) \in Nat
  BY DEF Counted

\* The number of the round being backed out can be handed to RemoveKeepsDb.
LEMMA CleanupNumber ==
  ASSUME IInv, pc = "cleanup"
  PROVE  /\ current_round \in Nat \ {0}
         /\ LastRoundNum(rounds) \in Nat
         /\ current_round \in {LastRoundNum(rounds), LastRoundNum(rounds) + 1}
  BY DEF IInv, Position, ControlOK, DbInv, Sequential

\* The row of a manifest.
LEMMA ManifestRow ==
  ASSUME TablesOK, current_round \in Nat, CommitManifest
  PROVE  kb' \subseteq [number : Nat, live : BOOLEAN]
  <1>1. kb \subseteq [number : Nat, live : BOOLEAN]
    BY DEF TablesOK
  <1>2. [number |-> current_round, live |-> TRUE] \in [number : Nat, live : BOOLEAN]
    OBVIOUS
  <1>3. kb' = kb \cup {[number |-> current_round, live |-> TRUE]}
    BY DEF CommitManifest
  <1>4. QED
    BY <1>1, <1>2, <1>3, Zenon

\* An error leads to the cleanup with every variable of its type.
LEMMA RaiseControl ==
  ASSUME ControlOK, Raise
  PROVE  ControlOK'
  <1>1. FailureCount \in Nat
    BY CountedIsNat DEF ControlOK, FailureCount
  <1>2. 1 \in 0..CLEANUP_MAX_ATTEMPTS /\ "cleanup" \in Alive
    BY DEF CLEANUP_MAX_ATTEMPTS, Alive, InRound
  <1>3. QED
    BY <1>1, <1>2 DEF Raise, ControlOK, backend

\* Inside the try block the engine is at the last stored round or the next one.
LEMMA RoundInTry ==
  ASSUME IInv, pc \in InTry
  PROVE  current_round \in {LastRoundNum(rounds), LastRoundNum(rounds) + 1} /\ current_round >= 1
  <1>1. LastRoundNum(rounds) \in Nat /\ Numbers(rounds) = 1..LastRoundNum(rounds)
    BY DEF IInv, DbInv, Sequential
  <1>2. CASE pc \in {"manifest", "polling", "opening"}
    BY <1>1, <1>2 DEF IInv, Position
  <1>3. CASE pc \in {"collecting", "closing"}
    <2>1. /\ current_round = LastRoundNum(rounds)
          /\ [id |-> round_id, number |-> current_round, closed |-> FALSE] \in rounds
      BY <1>3 DEF IInv, Position
    <2>2. current_round \in Numbers(rounds)
      BY <2>1 DEF Numbers
    <2>3. QED
      BY <1>1, <2>1, <2>2
  <1>4. QED
    BY <1>2, <1>3 DEF InTry

\* Every step keeps it.
LEMMA StepInv == IInv /\ [Next]_vars => IInv'
  <1> SUFFICES ASSUME IInv, [Next]_vars PROVE IInv'
    OBVIOUS
  <1> DEFINE last == LastRoundNum(rounds)
  <1>a. ControlOK /\ DbInv /\ Position /\ HalfWrittenRoundsAccounted
    BY DEF IInv
  <1>b. last \in Nat
    BY <1>a DEF DbInv, Sequential
  <1>1. CASE StartRound
    <2>1. DbInv' /\ LastRoundNum(rounds') = last
      <3>1. kb' \subseteq [number : Nat, live : BOOLEAN]
        BY <1>1, <1>a DEF StartRound, DbInv, TablesOK
      <3>2. QED
        BY <1>1, <1>a, <3>1, ManifestKeepsDb DEF StartRound
    <2>2. current_round' = last + 1 /\ current_round' \in Nat
      BY <1>1, NextNumberFollows DEF StartRound
    <2>3. ControlOK'
      BY <1>1, <1>a, <2>2, CountedIsNat
         DEF StartRound, FreshMetas, ControlOK, Alive, InRound, InTry, Outcomes
    <2>4. Position'
      BY <1>1, <2>1, <2>2 DEF StartRound, Position
    <2>5. HalfWrittenRoundsAccounted'
      BY <1>1, <1>a DEF StartRound, HalfWrittenRoundsAccounted, InRound, InTry
    <2>6. QED
      BY <2>1, <2>3, <2>4, <2>5 DEF IInv
  <1>2. CASE Finish
    <2>1. DbInv' /\ LastRoundNum(rounds') = last
      BY <1>2, <1>a, UnchangedDb DEF Finish
    <2>2. ControlOK' /\ Position' /\ HalfWrittenRoundsAccounted'
      BY <1>2, <1>a, <2>1
         DEF Finish, ControlOK, Position, HalfWrittenRoundsAccounted, InRound, InTry,
             db, counters, backend
    <2>3. QED
      BY <2>1, <2>2 DEF IInv
  <1>3. CASE SaveManifest
    <2>1. DbInv' /\ LastRoundNum(rounds') = last
      <3>1. kb' \subseteq [number : Nat, live : BOOLEAN]
        BY <1>3, <1>a, ManifestRow DEF SaveManifest, DbInv, ControlOK
      <3>2. QED
        BY <1>3, <1>a, <3>1, ManifestKeepsDb DEF SaveManifest, CommitManifest
    <2>2. ControlOK' /\ Position' /\ HalfWrittenRoundsAccounted'
      BY <1>3, <1>a, <2>1
         DEF SaveManifest, CommitManifest, ControlOK, Position, HalfWrittenRoundsAccounted,
             Alive, InRound, InTry, counters, backend
    <2>3. QED
      BY <2>1, <2>2 DEF IInv
  <1>4. CASE Poll
    <2>1. DbInv' /\ LastRoundNum(rounds') = last
      BY <1>4, <1>a, UnchangedDb DEF Poll
    <2>2. Harvest \in [Services -> Outcomes]
      BY <1>a DEF Harvest, Stored, ControlOK, Outcomes
    <2>3. pc = "polling" /\ pc' \in {"polling", "opening"}
      BY <1>4 DEF Poll
    <2>4. ControlOK' /\ Position' /\ HalfWrittenRoundsAccounted'
      BY <1>4, <1>a, <2>1, <2>2, <2>3
         DEF Poll, ControlOK, Position, HalfWrittenRoundsAccounted,
             Alive, InRound, InTry, db, counters, backend
    <2>5. QED
      BY <2>1, <2>4 DEF IInv
  <1>5. CASE RoundTimeout
    <2>1. DbInv' /\ LastRoundNum(rounds') = last
      BY <1>5, <1>a, UnchangedDb DEF RoundTimeout
    <2>2. ControlOK' /\ Position' /\ HalfWrittenRoundsAccounted'
      BY <1>5, <1>a, <2>1
         DEF RoundTimeout, ControlOK, Position, HalfWrittenRoundsAccounted,
             Alive, InRound, InTry, db, counters, backend
    <2>3. QED
      BY <2>1, <2>2 DEF IInv
  <1>6. CASE OpenRound
    <2>1. CommitOpenRound /\ pc = "opening" /\ current_round = last + 1
      BY <1>6, <1>a DEF OpenRound, CommitOpenRound, Position
    <2>2. /\ DbInv' /\ LastRoundNum(rounds') = current_round
          /\ [id |-> last_id', number |-> current_round, closed |-> FALSE] \in rounds'
      BY <1>a, <2>1, OpenKeepsDb
    <2>3. ControlOK'
      BY <1>6, <1>a, <2>2
         DEF OpenRound, ControlOK, DbInv, TablesOK, Alive, InRound, InTry, counters, backend
    <2>4. Position'
      BY <1>6, <2>2 DEF OpenRound, Position, counters
    <2>5. HalfWrittenRoundsAccounted'
      BY <1>6, <1>a, <2>1
         DEF OpenRound, CommitOpenRound, NewRound, HalfWrittenRoundsAccounted,
             InRound, InTry, counters
    <2>6. QED
      BY <2>2, <2>3, <2>4, <2>5 DEF IInv
  <1>7. CASE CollectResults
    <2>1. DbInv' /\ LastRoundNum(rounds') = last
      BY <1>7, <1>a, UnchangedDb DEF CollectResults
    <2>2. FinalFetch \in [Services -> Outcomes]
      BY <1>a DEF FinalFetch, Harvest, Stored, ControlOK, Outcomes
    <2>3. ControlOK' /\ Position' /\ HalfWrittenRoundsAccounted'
      BY <1>7, <1>a, <2>1, <2>2
         DEF CollectResults, ControlOK, Position, HalfWrittenRoundsAccounted,
             Alive, InRound, InTry, db, counters, backend
    <2>4. QED
      BY <2>1, <2>3 DEF IInv
  <1>8. CASE CloseRound
    <2>1. /\ CommitCloseRound /\ pc = "closing" /\ current_round = last
          /\ [id |-> round_id, number |-> current_round, closed |-> FALSE] \in rounds
      BY <1>8, <1>a DEF CloseRound, CommitCloseRound, Position
    <2>2. /\ DbInv' /\ LastRoundNum(rounds') = last
          /\ \A r \in rounds' : ~r.closed => r \in rounds /\ r.number # current_round
      BY <1>a, <2>1, CloseKeepsDb
    <2>3. ControlOK'
      BY <1>8, <1>a DEF CloseRound, ControlOK, Alive, counters, backend
    <2>4. Position'
      BY <1>8, <1>b, <2>1, <2>2 DEF CloseRound, Position, counters
    <2>5. HalfWrittenRoundsAccounted'
      BY <1>8, <1>a, <2>2 DEF CloseRound, HalfWrittenRoundsAccounted, InRound, InTry
    <2>6. QED
      BY <2>2, <2>3, <2>4, <2>5 DEF IInv
  <1>9. CASE FinishRound
    <2>1. DbInv' /\ LastRoundNum(rounds') = last
      BY <1>9, <1>a, UnchangedDb DEF FinishRound
    <2>2. ControlOK' /\ Position' /\ HalfWrittenRoundsAccounted'
      BY <1>9, <1>a, <2>1
         DEF FinishRound, ForgetResults, ControlOK, Position, HalfWrittenRoundsAccounted,
             Alive, InRound, InTry, db
    <2>3. QED
      BY <2>1, <2>2 DEF IInv
  <1>10. CASE CleanupRound
    <2>1. /\ DbInv' /\ LastRoundNum(rounds') = current_round - 1
          /\ \A r \in rounds' : r \in rounds /\ r.number # current_round
      BY <1>10, <1>a, CleanupNumber, RemoveKeepsDb DEF CleanupRound
    <2>2. pc = "cleanup" /\ pc' \in {"exited", "idle"}
      BY <1>10 DEF CleanupRound, AfterFailedRound
    <2>3. ControlOK'
      BY <1>10, <1>a, <2>2
         DEF CleanupRound, AfterFailedRound, ForgetResults, ControlOK, Alive, counters
    <2>4. Position'
      BY <1>10, <2>1, <2>2, CleanupNumber DEF CleanupRound, Position, counters
    <2>5. HalfWrittenRoundsAccounted'
      BY <1>10, <1>a, <2>1, <2>2
         DEF CleanupRound, HalfWrittenRoundsAccounted, InRound, InTry, counters
    <2>6. QED
      BY <2>1, <2>3, <2>4, <2>5 DEF IInv
  <1>11. CASE RoundError
    <2>1. DbInv' /\ LastRoundNum(rounds') = last
      BY <1>11, <1>a, UnchangedDb DEF RoundError
    <2>2. pc \in InTry /\ Raise /\ UNCHANGED rounds
      BY <1>11 DEF RoundError, db
    <2>3. ControlOK'
      BY <1>a, <2>2, RaiseControl
    <2>4. Position'
      BY <1>a, <1>b, <2>1, <2>2, RoundInTry DEF Raise, Position
    <2>5. HalfWrittenRoundsAccounted'
      BY <1>a, <2>2 DEF Raise, HalfWrittenRoundsAccounted, InRound
    <2>6. QED
      BY <2>1, <2>3, <2>4, <2>5 DEF IInv
  <1>12. CASE CommitManifest /\ Raise
    <2>1. DbInv' /\ LastRoundNum(rounds') = last
      <3>1. kb' \subseteq [number : Nat, live : BOOLEAN]
        BY <1>12, <1>a, ManifestRow DEF DbInv, ControlOK
      <3>2. QED
        BY <1>12, <1>a, <3>1, ManifestKeepsDb DEF CommitManifest
    <2>2. ControlOK'
      BY <1>12, <1>a, RaiseControl
    <2>3. current_round = last + 1 /\ current_round' = current_round /\ pc' = "cleanup"
      BY <1>12, <1>a DEF CommitManifest, Raise, Position
    <2>4. Position'
      BY <1>b, <2>1, <2>3 DEF Position
    <2>5. HalfWrittenRoundsAccounted'
      BY <1>12, <1>a DEF CommitManifest, Raise, HalfWrittenRoundsAccounted, InRound, InTry
    <2>6. QED
      BY <2>1, <2>2, <2>4, <2>5 DEF IInv
  <1>13. CASE CommitOpenRound /\ Raise
    <2>1. pc = "opening" /\ current_round = last + 1
      BY <1>13, <1>a DEF CommitOpenRound, Position
    <2>2. DbInv' /\ LastRoundNum(rounds') = current_round
      BY <1>13, <1>a, <2>1, OpenKeepsDb
    <2>3. ControlOK'
      BY <1>13, <1>a, RaiseControl
    <2>4. current_round' = current_round /\ pc' = "cleanup" /\ UNCHANGED abandoned
      BY <1>13 DEF Raise
    <2>5. Position'
      BY <1>b, <2>1, <2>2, <2>4 DEF Position
    <2>6. HalfWrittenRoundsAccounted'
      BY <1>13, <1>a, <2>1, <2>4
         DEF CommitOpenRound, NewRound, HalfWrittenRoundsAccounted, InRound, InTry
    <2>7. QED
      BY <2>2, <2>3, <2>5, <2>6 DEF IInv
  <1>14. CASE CommitCloseRound /\ Raise
    <2>1. /\ pc = "closing" /\ current_round = last
          /\ [id |-> round_id, number |-> current_round, closed |-> FALSE] \in rounds
      BY <1>14, <1>a DEF CommitCloseRound, Position
    <2>2. /\ DbInv' /\ LastRoundNum(rounds') = last
          /\ \A r \in rounds' : ~r.closed => r \in rounds /\ r.number # current_round
          /\ current_round \in Nat \ {0}
      BY <1>14, <1>a, <2>1, CloseKeepsDb
    <2>3. ControlOK'
      BY <1>14, <1>a, RaiseControl
    <2>4. current_round' = current_round /\ pc' = "cleanup" /\ UNCHANGED abandoned
      BY <1>14 DEF Raise
    <2>5. Position'
      BY <2>1, <2>2, <2>4 DEF Position
    <2>6. HalfWrittenRoundsAccounted'
      BY <1>a, <2>1, <2>2, <2>4 DEF HalfWrittenRoundsAccounted, InRound, InTry
    <2>7. QED
      BY <2>2, <2>3, <2>5, <2>6 DEF IInv
  <1>15. CASE CleanupError
    <2>1. /\ pc = "cleanup" /\ UNCHANGED <<counters, round_id, last_round, task_metas, paused>>
          /\ current_round' = current_round
      BY <1>15 DEF CleanupError, counters
    <2>2. /\ current_round \in Nat \ {0}
          /\ current_round \in {last, last + 1}
      BY <2>1, CleanupNumber
    <2>3. /\ DbInv'
          /\ LastRoundNum(rounds') \in {last, current_round - 1}
          /\ \A r \in rounds' : r \in rounds
      <3>1. CASE RemoveRound(current_round)
        BY <1>a, <2>2, <3>1, RemoveKeepsDb
      <3>2. CASE UNCHANGED db
        BY <1>a, <3>2, UnchangedDb DEF db
      <3>3. QED
        BY <1>15, <3>1, <3>2 DEF CleanupError
    <2>4. LastRoundNum(rounds') \in {current_round, current_round - 1}
      BY <1>b, <2>2, <2>3
    <2>5. CASE GiveUp
      <3>1. AfterFailedRound /\ abandoned' = abandoned \cup {current_round} /\ UNCHANGED attempt
        BY <1>15, <2>5 DEF CleanupError
      <3>2. pc' \in {"exited", "idle"}
        BY <3>1 DEF AfterFailedRound
      <3>3. ControlOK'
        BY <1>a, <2>1, <3>1, <3>2
           DEF AfterFailedRound, ForgetResults, ControlOK, Alive, counters
      <3>4. Position'
        BY <2>1, <2>2, <2>4, <3>2 DEF Position
      <3>5. HalfWrittenRoundsAccounted'
        BY <1>a, <2>1, <2>3, <3>1 DEF HalfWrittenRoundsAccounted
      <3>6. QED
        BY <2>3, <3>3, <3>4, <3>5 DEF IInv
    <2>6. CASE ~GiveUp
      <3>1. attempt' = attempt + 1 /\ UNCHANGED <<pc, backend, abandoned>>
        BY <1>15, <2>6 DEF CleanupError
      <3>2. attempt' \in 0..CLEANUP_MAX_ATTEMPTS
        BY <1>a, <2>6, <3>1 DEF ControlOK, GiveUp, CLEANUP_MAX_ATTEMPTS
      <3>3. ControlOK'
        BY <1>a, <2>1, <3>1, <3>2 DEF ControlOK, counters, backend
      <3>4. Position'
        BY <2>1, <2>2, <2>4, <3>1 DEF Position
      <3>5. HalfWrittenRoundsAccounted'
        BY <1>a, <2>1, <2>3, <3>1 DEF HalfWrittenRoundsAccounted
      <3>6. QED
        BY <2>3, <3>3, <3>4, <3>5 DEF IInv
    <2>7. QED
      BY <2>5, <2>6
  <1>16. CASE Shutdown
    <2>1. DbInv' /\ LastRoundNum(rounds') = last
      BY <1>16, <1>a, UnchangedDb DEF Shutdown
    <2>2. ControlOK' /\ Position' /\ HalfWrittenRoundsAccounted'
      BY <1>16, <1>a, <2>1
         DEF Shutdown, ControlOK, Position, HalfWrittenRoundsAccounted, db, counters, backend
    <2>3. QED
      BY <2>1, <2>2 DEF IInv
  <1>17. CASE Crash
    <2>1. DbInv' /\ LastRoundNum(rounds') = last
      BY <1>17, <1>a, UnchangedDb DEF Crash
    <2>2. ControlOK'
      BY <1>17, <1>a DEF Crash, ForgetResults, ControlOK, counters
    <2>3. Position' /\ HalfWrittenRoundsAccounted'
      BY <1>17, <1>a, <2>1
         DEF Crash, Position, HalfWrittenRoundsAccounted, db, counters
    <2>4. QED
      BY <2>1, <2>2, <2>3 DEF IInv
  <1>18. CASE Restart
    <2>1. DbInv' /\ LastRoundNum(rounds') = last
      BY <1>18, <1>a, UnchangedDb DEF Restart
    <2>2. ControlOK'
      <3>1. /\ pc' = "idle" /\ current_round' = last /\ round_id' = 0 /\ rounds_run' = 0
            /\ consecutive_round_failures' = 0 /\ last_round' = FALSE /\ attempt' = 0
            /\ task_metas' = [s \in Services |-> "unknown"]
            /\ UNCHANGED <<task, expired, paused, abandoned>>
        BY <1>18 DEF Restart, backend
      <3>2. task_metas' \in [Services -> Outcomes] /\ attempt' \in 0..CLEANUP_MAX_ATTEMPTS
        BY <3>1 DEF Outcomes, CLEANUP_MAX_ATTEMPTS
      <3>3. paused' \in BOOLEAN /\ last_round' \in BOOLEAN
        BY <1>a, <3>1, Zenon DEF ControlOK
      <3>4. pc' \in Alive
        BY <3>1 DEF Alive
      <3>5. QED
        BY <1>a, <1>b, <3>1, <3>2, <3>3, <3>4 DEF ControlOK
    <2>3. Position'
      BY <1>18, <1>b, <2>1 DEF Restart, Position
    <2>4. HalfWrittenRoundsAccounted'
      BY <1>18, <1>a DEF Restart, HalfWrittenRoundsAccounted, InRound, InTry, db
    <2>5. QED
      BY <2>1, <2>2, <2>3, <2>4 DEF IInv
  <1>19. ASSUME NEW s \in Services, Report(s) \/ Expire(s)
         PROVE  IInv'
    <2>1. UNCHANGED environment /\ UNCHANGED paused
      BY <1>19 DEF Report, Expire
    <2>2. DbInv' /\ LastRoundNum(rounds') = last
      BY <1>a, <2>1, UnchangedDb DEF environment
    <2>3. task' \in [Services -> Results \cup {"none", "pending"}] /\ expired' \subseteq Services
      BY <1>19, <1>a DEF Report, Expire, ControlOK
    <2>4. ControlOK' /\ Position' /\ HalfWrittenRoundsAccounted'
      BY <1>a, <2>1, <2>2, <2>3
         DEF environment, ControlOK, Position, HalfWrittenRoundsAccounted, db, counters
    <2>5. QED
      BY <2>2, <2>4 DEF IInv
  <1>20. CASE TogglePaused
    <2>1. UNCHANGED environment /\ UNCHANGED backend /\ paused' = ~paused
      BY <1>20 DEF TogglePaused
    <2>2. DbInv' /\ LastRoundNum(rounds') = last
      BY <1>a, <2>1, UnchangedDb DEF environment
    <2>3. paused' \in BOOLEAN
      BY <2>1, Zenon
    <2>4. ControlOK' /\ Position' /\ HalfWrittenRoundsAccounted'
      BY <1>a, <2>1, <2>2, <2>3
         DEF environment, ControlOK, Position, HalfWrittenRoundsAccounted, db, counters, backend
    <2>5. QED
      BY <2>2, <2>4 DEF IInv
  <1>21. CASE UNCHANGED vars
    <2>1. DbInv' /\ LastRoundNum(rounds') = last
      BY <1>21, <1>a, UnchangedDb DEF vars
    <2>2. ControlOK' /\ Position' /\ HalfWrittenRoundsAccounted'
      BY <1>21, <1>a, <2>1
         DEF vars, ControlOK, Position, HalfWrittenRoundsAccounted, db, counters, backend
    <2>3. QED
      BY <2>1, <2>2 DEF IInv
  <1>22. CommitUnknown => (CommitManifest \/ CommitOpenRound \/ CommitCloseRound) /\ Raise
    BY DEF CommitUnknown
  <1>23. QED
    BY <1>1, <1>2, <1>3, <1>4, <1>5, <1>6, <1>7, <1>8, <1>9, <1>10, <1>11, <1>12,
       <1>13, <1>14, <1>15, <1>16, <1>17, <1>18, <1>19, <1>20, <1>21, <1>22
       DEF Next, EngineStep, Fault

-----------------------------------------------------------------------------
(***************************************************************************)
(* What follows from the invariant                                         *)
(***************************************************************************)

\* The inductive invariant holds in every reachable state: control is where the
\* engine's code can be, the tables are in order and every half-written round is
\* in progress or was abandoned.
THEOREM Invariance == Spec => []IInv
  <1>1. QED
    BY InitInv, StepInv, PTL DEF Spec

\* Every variable keeps its type: in particular the engine never counts a
\* fourth cleanup attempt.
THEOREM TypeCorrect == Spec => []TypeOK
  <1>1. IInv => TypeOK
    BY DEF IInv, DbInv, TablesOK, ControlOK, TypeOK
  <1>2. QED
    BY <1>1, Invariance, PTL

\* The materialized scores are at every moment those of the stored checks.
THEOREM ScoresAreTheChecks == Spec => []ScoresMatchChecks
  <1>1. IInv => ScoresMatchChecks
    BY DEF IInv, DbInv
  <1>2. QED
    BY <1>1, Invariance, PTL

\* So are the failure counts.
THEOREM CountsAreTheChecks == Spec => []FailureCacheMatchesChecks
  <1>1. IInv => FailureCacheMatchesChecks
    BY DEF IInv, DbInv
  <1>2. QED
    BY <1>1, Invariance, PTL

\* Rounds are numbered without gap or duplicate, in the order of their ids.
THEOREM NumberingIsSequential == Spec => []NumbersAreSequential
  <1>1. IInv => NumbersAreSequential
    BY DEF IInv, DbInv, Sequential, Numbers, NumbersAreSequential
  <1>2. QED
    BY <1>1, Invariance, PTL

\* A round without an end is in progress, or was abandoned.
THEOREM HalfWrittenAreKnown == Spec => []HalfWrittenRoundsAccounted
  <1>1. IInv => HalfWrittenRoundsAccounted
    BY DEF IInv
  <1>2. QED
    BY <1>1, Invariance, PTL

\* A closed round has one check of every service, an open one none.
THEOREM RoundsLandWhole == Spec => []RoundsAreWhole
  <1>1. IInv => RoundsAreWhole
    <2> SUFFICES ASSUME IInv PROVE RoundsAreWhole
      OBVIOUS
    <2>1. /\ checks \subseteq CheckRow(Nat)
          /\ \A r, q \in rounds : r.id = q.id => r = q
          /\ \A c \in checks : \E r \in rounds : r.id = c.round /\ r.closed
      BY DEF IInv, DbInv, TablesOK, Sequential, Whole
    <2>2. ASSUME NEW r \in rounds, NEW s \in Services
          PROVE  Cardinality({c \in checks : c.round = r.id /\ c.service = s})
                   = IF r.closed THEN 1 ELSE 0
      <3> DEFINE C == {c \in checks : c.round = r.id /\ c.service = s}
      <3>1. CASE r.closed
        <4>1. PICK v \in BOOLEAN :
                /\ [round |-> r.id, service |-> s, result |-> v] \in checks
                /\ [round |-> r.id, service |-> s, result |-> ~v] \notin checks
          BY <2>2, <3>1 DEF IInv, DbInv, Whole
        <4> DEFINE d == [round |-> r.id, service |-> s, result |-> v]
        <4>2. \A c \in C : c = d
          BY <2>1, <4>1 DEF CheckRow
        <4>3. d \in C
          BY <4>1
        <4> HIDE DEF d
        <4>4. C = {d}
          BY <4>2, <4>3
        <4>5. QED
          BY <3>1, <4>4, FS_Singleton
      <3>2. CASE ~r.closed
        <4>1. C = {}
          BY <2>1, <3>2
        <4>2. QED
          BY <3>2, <4>1, FS_EmptySet
      <3>3. QED
        BY <3>1, <3>2
    <2>3. QED
      BY <2>1, <2>2 DEF RoundsAreWhole
  <1>2. QED
    BY <1>1, Invariance, PTL

\* A pass about to be scored came from the task dispatched for this round.
THEOREM PassesAreFresh == Spec => []PassIsOfThisRound
  <1>1. Init => PassIsOfThisRound
    BY DEF Init, PassIsOfThisRound, InTry
  <1>2. PassIsOfThisRound /\ ControlOK /\ [Next]_vars => PassIsOfThisRound'
    <2> SUFFICES ASSUME PassIsOfThisRound, ControlOK, [Next]_vars PROVE PassIsOfThisRound'
      OBVIOUS
    <2> USE DEF PassIsOfThisRound, ControlOK
    <2>1. CASE StartRound
      BY <2>1 DEF StartRound, FreshMetas
    <2>2. CASE Poll
      BY <2>2 DEF Poll, Harvest, Stored, InTry, backend
    <2>3. CASE CollectResults
      BY <2>3 DEF CollectResults, FinalFetch, Harvest, Stored, InTry, backend
    <2>4. CASE SaveManifest \/ RoundTimeout \/ OpenRound
      BY <2>4 DEF SaveManifest, CommitManifest, RoundTimeout, OpenRound, CommitOpenRound, InTry, backend
    <2>5. CASE CloseRound \/ Finish \/ FinishRound \/ CleanupRound \/ Restart \/ Crash
      BY <2>5 DEF CloseRound, Finish, FinishRound, CleanupRound, AfterFailedRound, Restart, Crash, InTry
    <2>6. CASE RoundError \/ CommitUnknown \/ CleanupError
      BY <2>6 DEF RoundError, CommitUnknown, Raise, CleanupError, AfterFailedRound, InTry
    <2>7. CASE Shutdown \/ TogglePaused
      BY <2>7 DEF Shutdown, TogglePaused, environment, backend
    <2>8. ASSUME NEW s \in Services, Report(s) \/ Expire(s) PROVE PassIsOfThisRound'
      BY <2>8 DEF Report, Expire, Stored, environment
    <2>9. CASE UNCHANGED vars
      BY <2>9 DEF vars, backend
    <2>10. QED
      BY <2>1, <2>2, <2>3, <2>4, <2>5, <2>6, <2>7, <2>8, <2>9 DEF Next, EngineStep, Fault
  <1>3. IInv => ControlOK
    BY DEF IInv
  <1>4. QED
    BY <1>1, <1>2, <1>3, Invariance, PTL DEF Spec

-----------------------------------------------------------------------------
(***************************************************************************)
(* The engine keeps its promise to the readers of the scores: Spec         *)
(* implements Scoreboard's BoardSpec                                       *)
(***************************************************************************)

\* The board that the tables show.
Landed == {[number |-> r.number, passed |-> PassedIn(checks, r.id)] :
             r \in {q \in rounds : q.closed}}

\* The points that they show.
Shown == {[number |-> w.number, team |-> w.team, points |-> w.points] : w \in round_score}

-----------------------------------------------------------------------------
(* The tables and the board agree *)

\* Both modules earn points by the same definitions.
LEMMA SameRows == \A id, n, P : Board!RowsFor(id, n, P) = RowsFor(id, n, P)
  <1>1. \A S : Board!Earned(S) = Earned(S)
    BY DEF Board!Earned, Earned, Board!MapThenSumSet, MapThenSumSet,
           Board!MapThenFoldSet, MapThenFoldSet
  <1> QED
    BY <1>1, Zenon DEF Board!RowsFor, RowsFor

\* The id under which rows are stored does not matter to their points.
LEMMA RowsShow ==
  ASSUME NEW i, NEW j, NEW n, NEW P, NEW w \in RowsFor(i, n, P)
  PROVE  \E v \in RowsFor(j, n, P) :
           v.number = w.number /\ v.team = w.team /\ v.points = w.points
  <1> DEFINE of(t) == {s \in P : TeamOf[s] = t}
             row(id, t) == [round |-> id, number |-> n, team |-> t, points |-> Earned(of(t))]
  <1>1. PICK t \in {u \in Teams : of(u) # {} /\ Earned(of(u)) # 0} : w = row(i, t)
    BY Zenon DEF RowsFor
  <1>2. row(j, t) \in RowsFor(j, n, P)
    BY <1>1, Zenon DEF RowsFor
  <1> QED
    BY <1>1, <1>2

\* The stored points are those of the rounds on the board.
LEMMA ScoresTold ==
  ASSUME DbInv
  PROVE  Shown = Board!PointsOf(Landed)
  <1> DEFINE told(w) == [number |-> w.number, team |-> w.team, points |-> w.points]
  <1>1. \A w : w \in round_score <=>
          \E r \in rounds : w \in RowsFor(r.id, r.number, PassedIn(checks, r.id))
    BY MaterializedRow DEF DbInv, ScoresMatchChecks
  <1>2. ASSUME NEW r \in rounds, ~r.closed
        PROVE  RowsFor(r.id, r.number, PassedIn(checks, r.id)) = {}
    <2>1. \A c \in checks : c.round # r.id
      BY <1>2 DEF DbInv, Whole, Sequential
    <2> QED
      BY <2>1, NoChecksNoRows
  <1>3. \A x : x \in Board!PointsOf(Landed) <=>
          \E b \in Landed : \E w \in RowsFor(b.number, b.number, b.passed) : x = told(w)
    <2>1. \A x : x \in Board!PointsOf(Landed) <=>
            \E b \in Landed : \E w \in Board!RowsFor(b.number, b.number, b.passed) : x = told(w)
      <3> DEFINE rows(b) == {told(w) : w \in Board!RowsFor(b.number, b.number, b.passed)}
      <3>1. Board!PointsOf(Landed) = UNION {rows(b) : b \in Landed}
        BY DEF Board!PointsOf
      <3> HIDE DEF told
      <3>2. \A b, x : x \in rows(b) <=>
              \E w \in Board!RowsFor(b.number, b.number, b.passed) : x = told(w)
        BY Zenon
      <3> HIDE DEF rows
      <3>3. \A x : x \in UNION {rows(b) : b \in Landed} <=> \E b \in Landed : x \in rows(b)
        BY Zenon
      <3>4. \A x : x \in Board!PointsOf(Landed) <=> \E b \in Landed : x \in rows(b)
        BY <3>1, <3>3
      <3> QED
        BY <3>2, <3>4
    <2> QED
      BY <2>1, SameRows
  <1>4. ASSUME NEW x \in Shown PROVE x \in Board!PointsOf(Landed)
    <2>1. PICK w \in round_score : x = told(w)
      BY <1>4, Zenon DEF Shown
    <2>2. PICK r \in rounds : w \in RowsFor(r.id, r.number, PassedIn(checks, r.id))
      BY <1>1, <2>1
    <2>3. r.closed
      BY <1>2, <2>2
    <2> DEFINE b == [number |-> r.number, passed |-> PassedIn(checks, r.id)]
    <2>4. b \in Landed /\ b.number = r.number /\ b.passed = PassedIn(checks, r.id)
      BY <2>3 DEF Landed
    <2>5. PICK v \in RowsFor(b.number, b.number, b.passed) :
            v.number = w.number /\ v.team = w.team /\ v.points = w.points
      BY <2>2, <2>4, RowsShow
    <2>6. x = told(v)
      BY <2>1, <2>5
    <2> QED
      BY <1>3, <2>4, <2>5, <2>6
  <1>5. ASSUME NEW x \in Board!PointsOf(Landed) PROVE x \in Shown
    <2>1. PICK b \in Landed : \E w \in RowsFor(b.number, b.number, b.passed) : x = told(w)
      BY <1>3, <1>5
    <2>2. PICK r \in rounds : r.closed /\ b = [number |-> r.number, passed |-> PassedIn(checks, r.id)]
      BY <2>1 DEF Landed
    <2>3. b.number = r.number /\ b.passed = PassedIn(checks, r.id)
      BY <2>2
    <2>4. PICK w \in RowsFor(r.number, r.number, PassedIn(checks, r.id)) : x = told(w)
      BY <2>1, <2>3
    <2>5. PICK v \in RowsFor(r.id, r.number, PassedIn(checks, r.id)) :
            v.number = w.number /\ v.team = w.team /\ v.points = w.points
      BY <2>4, RowsShow
    <2>6. v \in round_score
      BY <1>1, <2>2, <2>5
    <2>7. x = told(v)
      BY <2>4, <2>5
    <2> QED
      BY <2>6, <2>7, Zenon DEF Shown
  <1> QED
    BY <1>4, <1>5

\* The failing checks since the last pass of a service are the rounds on the
\* board since it was up, one check a round.
LEMMA RunIsDownSince ==
  ASSUME DbInv, NEW s \in Services
  PROVE  ConsecutiveFailures(checks, s) = Cardinality(Board!DownSince(Landed, s))
  <1> DEFINE Run  == FailingRun(checks, s)
             Down == Board!DownSince(Landed, s)
             entry(r) == [number |-> r.number, passed |-> PassedIn(checks, r.id)]
             of(c) == CHOOSE r \in rounds : r.id = c.round /\ r.closed
             f == [c \in Run |-> entry(of(c))]
  <1>1. /\ checks \subseteq CheckRow(Nat) /\ IsFiniteSet(checks)
        /\ \A r \in rounds : r.id \in Nat /\ r.number \in Nat
        /\ \A r, q \in rounds : r.number < q.number <=> r.id < q.id
        /\ \A r, q \in rounds : r.id = q.id => r = q
        /\ \A c \in checks : \E r \in rounds : r.id = c.round /\ r.closed
        /\ \A r \in rounds : r.closed => \E v \in BOOLEAN :
             [round |-> r.id, service |-> s, result |-> v] \in checks
    BY DEF DbInv, TablesOK, Sequential, Whole, RoundRow
  <1>2. \A c \in checks : /\ of(c) \in rounds /\ of(c).id = c.round /\ of(c).closed
                          /\ c.round \in Nat /\ c.service \in Services
                          /\ c = [round |-> c.round, service |-> c.service, result |-> c.result]
    BY <1>1 DEF CheckRow
  <1>3. \A r \in rounds : entry(r).number = r.number /\ entry(r).passed = PassedIn(checks, r.id)
    OBVIOUS
  <1>4. \A r \in rounds : r.closed => entry(r) \in Landed
    BY DEF Landed
  <1>5. \A b \in Landed : \E r \in rounds : r.closed /\ b = entry(r)
    BY DEF Landed
  <1>6. \A r \in rounds : s \in PassedIn(checks, r.id) <=>
          [round |-> r.id, service |-> s, result |-> TRUE] \in checks
    BY DEF PassedIn
  <1> HIDE DEF of, entry
  <1>7. ASSUME NEW c \in Run PROVE entry(of(c)) \in Down
    <2>1. c \in checks /\ c.service = s /\ ~c.result
          /\ \A p \in checks : p.service = s /\ p.result => p.round < c.round
      BY <1>7 DEF FailingRun
    <2>2. ASSUME NEW u \in Landed, s \in u.passed PROVE u.number < entry(of(c)).number
      <3>1. PICK r \in rounds : r.closed /\ u = entry(r)
        BY <1>5
      <3> DEFINE p == [round |-> r.id, service |-> s, result |-> TRUE]
      <3>2. p \in checks
        BY <1>3, <1>6, <2>2, <3>1
      <3>3. r.id < c.round
        BY <2>1, <3>2
      <3> QED
        BY <1>1, <1>2, <1>3, <2>1, <3>1, <3>3
    <2>3. entry(of(c)) \in Landed
      BY <1>2, <1>4, <2>1
    <2> QED
      BY <2>2, <2>3, Zenon DEF Board!DownSince
  <1>8. ASSUME NEW c \in Run, NEW d \in Run, entry(of(c)) = entry(of(d)) PROVE c = d
    <2>1. c \in checks /\ c.service = s /\ c.result \in BOOLEAN /\ ~c.result
      BY <1>1, <1>8 DEF FailingRun, CheckRow
    <2>2. d \in checks /\ d.service = s /\ d.result \in BOOLEAN /\ ~d.result
      BY <1>1, <1>8 DEF FailingRun, CheckRow
    <2>3. of(c).number = of(d).number
      BY <1>2, <1>3, <1>8, <2>1, <2>2
    <2>4. c.round = d.round
      BY <1>1, <1>2, <2>1, <2>2, <2>3
    <2> QED
      BY <1>2, <2>1, <2>2, <2>4
  <1>9. ASSUME NEW b \in Down PROVE \E c \in Run : entry(of(c)) = b
    <2>1. b \in Landed /\ \A u \in Landed : s \in u.passed => u.number < b.number
      BY <1>9, Zenon DEF Board!DownSince
    <2>2. PICK r \in rounds : r.closed /\ b = entry(r)
      BY <1>5, <2>1
    <2>3. s \notin PassedIn(checks, r.id)
      <3>1. ~(b.number < b.number)
        BY <1>1, <1>3, <2>2
      <3> QED
        BY <1>3, <2>1, <2>2, <3>1
    <2> DEFINE c == [round |-> r.id, service |-> s, result |-> FALSE]
    <2>4. c \in checks
      BY <1>1, <1>6, <2>2, <2>3
    <2>5. ASSUME NEW p \in checks, p.service = s, p.result PROVE p.round < c.round
      <3>1. p = [round |-> of(p).id, service |-> s, result |-> TRUE]
        BY <1>1, <1>2, <2>5 DEF CheckRow
      <3>2. s \in PassedIn(checks, of(p).id)
        BY <1>2, <1>6, <2>5, <3>1
      <3>3. of(p).number < r.number
        BY <1>2, <1>3, <1>4, <2>1, <2>2, <2>5, <3>2
      <3> QED
        BY <1>1, <1>2, <2>2, <2>5, <3>3
    <2>6. c \in Run
      BY <2>4, <2>5 DEF FailingRun
    <2>7. of(c) = r
      BY <1>1, <1>2, <2>2, <2>4
    <2> QED
      BY <2>2, <2>6, <2>7
  <1> HIDE DEF Run, Down
  <1>10. f \in Bijection(Run, Down)
    <2>1. f \in [Run -> Down] /\ \A c \in Run : f[c] = entry(of(c))
      BY <1>7
    <2> HIDE DEF f
    <2>2. \A c, d \in Run : f[c] = f[d] => c = d
      BY <1>8, <2>1
    <2>3. \A b \in Down : \E c \in Run : f[c] = b
      BY <1>9, <2>1
    <2> QED
      BY <2>1, <2>2, <2>3 DEF Bijection, Injection, Surjection, IsInjective
  <1>11. IsFiniteSet(Run)
    BY <1>1, FS_Subset DEF Run, FailingRun
  <1>12. Cardinality(Run) = Cardinality(Down)
    BY <1>10, <1>11, FS_Bijection DEF ExistsBijection
  <1> QED
    BY <1>12 DEF ConsecutiveFailures, Run, Down

\* So the stored failure counts are those of the board.
LEMMA FailuresTold ==
  ASSUME DbInv
  PROVE  failure_cache = [s \in Services |-> Cardinality(Board!DownSince(Landed, s))]
  <1>1. failure_cache \in [Services -> Nat]
    BY DEF DbInv, TablesOK
  <1>2. \A s \in Services : failure_cache[s] = Cardinality(Board!DownSince(Landed, s))
    BY RunIsDownSince DEF DbInv, FailureCacheMatchesChecks
  <1> QED
    BY <1>1, <1>2

-----------------------------------------------------------------------------
(* The bound on round numbers: the ids run ahead of them *)

Bound ==
  /\ last_id <= MaxRounds
  /\ pc \in {"manifest", "polling", "opening"} => last_id < MaxRounds
  /\ \A r \in rounds : r.number <= r.id

\* What a step does to the tables that readers see.
LEMMA TableSteps ==
  ASSUME [Next]_vars
  PROVE  \/ UNCHANGED <<rounds, checks, round_score, failure_cache, last_id>>
         \/ CommitOpenRound
         \/ CommitCloseRound
         \/ pc = "cleanup" /\ RemoveRound(current_round)
  <1>1. CASE UNCHANGED vars
    BY <1>1 DEF vars, db
  <1>2. CASE StartRound \/ Finish \/ SaveManifest \/ Poll \/ RoundTimeout \/ CollectResults \/ FinishRound
    BY <1>2 DEF StartRound, Finish, SaveManifest, CommitManifest, Poll, RoundTimeout,
                CollectResults, FinishRound, db
  <1>3. CASE OpenRound \/ CloseRound \/ CleanupRound
    BY <1>3 DEF OpenRound, CloseRound, CleanupRound
  <1>4. CASE Fault
    BY <1>4 DEF Fault, RoundError, CommitUnknown, CommitManifest, CleanupError, Crash, db
  <1>5. CASE Shutdown \/ Restart \/ TogglePaused \/ \E s \in Services : Report(s) \/ Expire(s)
    BY <1>5 DEF Shutdown, Restart, TogglePaused, Report, Expire, environment, db
  <1> QED
    BY <1>1, <1>2, <1>3, <1>4, <1>5 DEF Next, EngineStep

\* Where a step leads while a round may still be inserted.
LEMMA PositionSteps ==
  ASSUME [Next]_vars, Bound, last_id \in Nat, LimitsAssumption
  PROVE  /\ last_id' \in Nat /\ last_id' <= MaxRounds
         /\ pc' \in {"manifest", "polling", "opening"} => last_id' < MaxRounds
  <1> USE DEF Bound
  <1>1. CASE UNCHANGED vars
    BY <1>1 DEF vars, db
  <1>2. CASE StartRound \/ Finish \/ SaveManifest \/ Poll \/ RoundTimeout \/ CollectResults \/ FinishRound
    BY <1>2 DEF StartRound, Finish, SaveManifest, CommitManifest, Poll, RoundTimeout,
                CollectResults, FinishRound, db
  <1>3. CASE OpenRound \/ CloseRound \/ CleanupRound
    BY <1>3, LimitsAssumption
       DEF OpenRound, CommitOpenRound, CloseRound, CommitCloseRound, CleanupRound, RemoveRound,
           AfterFailedRound
  <1>4. CASE RoundError \/ CommitUnknown \/ Crash
    BY <1>4, LimitsAssumption
       DEF RoundError, CommitUnknown, CommitManifest, CommitOpenRound, CommitCloseRound, Raise, Crash, db
  <1>5. CASE CleanupError
    BY <1>5 DEF CleanupError, RemoveRound, AfterFailedRound, db
  <1>6. CASE Shutdown \/ Restart \/ TogglePaused \/ \E s \in Services : Report(s) \/ Expire(s)
    BY <1>6 DEF Shutdown, Restart, TogglePaused, Report, Expire, environment, db
  <1> QED
    BY <1>1, <1>2, <1>3, <1>4, <1>5, <1>6 DEF Next, EngineStep, Fault

\* No number exceeds the last id.
LEMMA LastIsBounded ==
  ASSUME DbInv, Bound
  PROVE  LastRoundNum(rounds) <= last_id
  <1>1. /\ LastRoundNum(rounds) \in Nat /\ last_id \in Nat
        /\ Numbers(rounds) = 1..LastRoundNum(rounds)
        /\ \A r \in rounds : r.id \in 1..last_id /\ r.number \in Nat
    BY DEF DbInv, Sequential, TablesOK, RoundRow
  <1>2. CASE LastRoundNum(rounds) = 0
    BY <1>1, <1>2
  <1>3. CASE LastRoundNum(rounds) # 0
    <2>1. LastRoundNum(rounds) \in Numbers(rounds)
      BY <1>1, <1>3
    <2>2. PICK r \in rounds : r.number = LastRoundNum(rounds)
      BY <2>1 DEF Numbers
    <2>3. r.number <= r.id /\ r.id <= last_id /\ r.id \in Nat
      BY <1>1 DEF Bound
    <2> QED
      BY <1>1, <2>2, <2>3
  <1> QED
    BY <1>2, <1>3

LEMMA BoundStep == IInv /\ Bound /\ [Next]_vars => Bound'
  <1> SUFFICES ASSUME IInv, Bound, [Next]_vars PROVE Bound'
    OBVIOUS
  <1>1. /\ DbInv /\ last_id \in Nat /\ current_round \in Nat
        /\ \A r \in rounds : r.id \in Nat /\ r.number \in Nat
    BY DEF IInv, DbInv, TablesOK, ControlOK, RoundRow
  <1>2. \A r \in rounds' : r.number <= r.id
    <2>1. CASE rounds' \subseteq rounds
      BY <2>1 DEF Bound
    <2>2. CASE CommitOpenRound
      <3>1. current_round <= last_id + 1
        BY <1>1, <2>2, LastIsBounded DEF CommitOpenRound, IInv, Position, DbInv, Sequential
      <3> QED
        BY <1>1, <2>2, <3>1 DEF CommitOpenRound, NewRound, Bound
    <2>3. CASE CommitCloseRound
      BY <2>3 DEF CommitCloseRound, Ended, Bound
    <2>4. CASE RemoveRound(current_round)
      BY <2>4 DEF RemoveRound, Bound
    <2> QED
      BY <2>1, <2>2, <2>3, <2>4, TableSteps
  <1> QED
    BY <1>1, <1>2, PositionSteps, LimitsAssumption DEF Bound

-----------------------------------------------------------------------------
(* Every step is one of the board's, or none *)

Moved ==
  \/ Landed' = Landed
  \/ \E n \in 1..MaxRounds, passed \in SUBSET Services :
       /\ \A b \in Landed : b.number < n
       /\ Landed' = Landed \cup {[number |-> n, passed |-> passed]}
  \/ \E b \in Landed : Board!Newest(Landed, b.number) /\ Landed' = Landed \ {b}

\* Opening a round shows nothing yet.
LEMMA OpenShowsNothing ==
  ASSUME CommitOpenRound
  PROVE  Landed' = Landed
  <1>1. rounds' = rounds \cup {NewRound(last_id + 1)} /\ checks' = checks /\ ~NewRound(last_id + 1).closed
    BY DEF CommitOpenRound, NewRound
  <1>2. {q \in rounds' : q.closed} = {q \in rounds : q.closed}
    BY <1>1
  <1> QED
    BY <1>1, <1>2 DEF Landed

\* Closing it lands it on the board, after every other.
LEMMA CloseLands ==
  ASSUME IInv, Bound, CommitCloseRound
  PROVE  Moved
  <1> DEFINE row  == [id |-> round_id, number |-> current_round, closed |-> FALSE]
             done == [id |-> round_id, number |-> current_round, closed |-> TRUE]
             new  == [number |-> current_round, passed |-> PassedIn(checks', round_id)]
  <1>1. /\ DbInv /\ current_round = LastRoundNum(rounds) /\ row \in rounds
        /\ rounds \subseteq RoundRow(Nat) /\ current_round \in Nat
        /\ Numbers(rounds) = 1..current_round
        /\ \A r, q \in rounds : r.id = q.id => r = q
        /\ \A r, q \in rounds : r.number < q.number <=> r.id < q.id
    BY DEF IInv, Position, ControlOK, DbInv, Sequential, TablesOK, CommitCloseRound
  <1>2. current_round \in 1..MaxRounds
    <2>1. current_round \in Numbers(rounds)
      BY <1>1 DEF Numbers
    <2>2. current_round <= last_id /\ last_id <= MaxRounds /\ last_id \in Nat
      BY <1>1, LastIsBounded DEF Bound, DbInv, TablesOK
    <2> QED
      BY <1>1, <2>1, <2>2, LimitsAssumption
  <1>3. {q \in rounds' : q.closed} = {q \in rounds : q.closed} \cup {done}
    <2>1. Ended(row) = done /\ done.closed /\ ~row.closed /\ row.id = round_id
      BY DEF Ended
    <2>2. \A r \in rounds : r.id = round_id <=> r = row
      BY <1>1, <2>1
    <2>3. rounds' = (rounds \ {row}) \cup {done}
      <3>1. rounds' = {IF r.id = round_id THEN Ended(r) ELSE r : r \in rounds}
        BY DEF CommitCloseRound
      <3>2. \A r \in rounds : (IF r.id = round_id THEN Ended(r) ELSE r) = IF r = row THEN done ELSE r
        BY <2>1, <2>2, Zenon
      <3> HIDE DEF row, done
      <3> QED
        BY <1>1, <3>1, <3>2
    <2> HIDE DEF row, done
    <2> QED
      BY <2>1, <2>3
  <1>4. \A q \in rounds : q.closed => PassedIn(checks', q.id) = PassedIn(checks, q.id)
    <2> SUFFICES ASSUME NEW q \in rounds, q.closed
                 PROVE  PassedIn(checks', q.id) = PassedIn(checks, q.id)
      OBVIOUS
    <2>1. q.id # round_id
      <3>1. row.id = round_id /\ ~row.closed
        OBVIOUS
      <3> HIDE DEF row
      <3> QED
        BY <1>1, <3>1
    <2>2. checks' = checks \cup NewChecks
      BY DEF CommitCloseRound
    <2>3. \A s \in Services : [round |-> q.id, service |-> s, result |-> TRUE] \notin NewChecks
      BY <2>1, NewChecksShape
    <2> QED
      BY <2>2, <2>3 DEF PassedIn
  <1>5. Landed' = Landed \cup {new}
    <2> DEFINE entry(r, C) == [number |-> r.number, passed |-> PassedIn(C, r.id)]
               closed == {q \in rounds : q.closed}
    <2>1. Landed' = {entry(r, checks') : r \in closed \cup {done}}
      BY <1>3 DEF Landed
    <2>2. Landed = {entry(r, checks) : r \in closed}
      BY DEF Landed
    <2>3. entry(done, checks') = new
      OBVIOUS
    <2>4. \A r \in closed : entry(r, checks') = entry(r, checks)
      BY <1>4
    <2> HIDE DEF entry, closed, done, new
    <2> QED
      BY <2>1, <2>2, <2>3, <2>4
  <1>6. \A b \in Landed : b.number < current_round
    <2> SUFFICES ASSUME NEW r \in rounds, r.closed PROVE r.number < current_round
      BY DEF Landed
    <2>1. r.number \in 1..current_round /\ r.id \in Nat /\ round_id \in Nat
      BY <1>1 DEF Numbers, RoundRow, IInv, ControlOK
    <2>2. row.id = round_id /\ row.number = current_round /\ ~row.closed
      OBVIOUS
    <2>3. r.number # current_round
      <3> HIDE DEF row
      <3> QED
        BY <1>1, <2>1, <2>2
    <2> QED
      BY <1>1, <2>1, <2>3
  <1>7. PassedIn(checks', round_id) \in SUBSET Services
    BY DEF PassedIn
  <1> QED
    BY <1>2, <1>5, <1>6, <1>7 DEF Moved

\* Backing a round out withdraws it if it had landed: it is the newest then.
LEMMA RemoveWithdraws ==
  ASSUME IInv, pc = "cleanup", RemoveRound(current_round)
  PROVE  Moved
  <1> DEFINE n == current_round
             entry(r) == [number |-> r.number, passed |-> PassedIn(checks, r.id)]
  <1>1. /\ n \in Nat \ {0} /\ n \in {LastRoundNum(rounds), LastRoundNum(rounds) + 1}
        /\ LastRoundNum(rounds) \in Nat
        /\ Numbers(rounds) = 1..LastRoundNum(rounds)
        /\ \A r \in rounds : r.id \in Nat /\ r.number \in Nat
        /\ \A r, q \in rounds : r.number < q.number <=> r.id < q.id
        /\ \A r, q \in rounds : r.id = q.id => r = q
    BY CleanupNumber DEF IInv, DbInv, Sequential, TablesOK, RoundRow
  <1>2. rounds' = {r \in rounds : r.number # n}
    <2> DEFINE ids == {r.id : r \in RoundsNumbered(n)}
    <2>1. \A r \in rounds : r.id \in ids <=> r.number = n
      BY <1>1 DEF RoundsNumbered
    <2>2. rounds' = {r \in rounds : r.id \notin ids}
      BY DEF RemoveRound
    <2> HIDE DEF ids
    <2> QED
      BY <2>1, <2>2
  <1>3. \A r \in rounds : r.number # n => PassedIn(checks', r.id) = PassedIn(checks, r.id)
    <2>1. SUFFICES ASSUME NEW r \in rounds, r.number # n
                   PROVE  PassedIn(checks', r.id) = PassedIn(checks, r.id)
      OBVIOUS
    <2> DEFINE ids == {q.id : q \in RoundsNumbered(n)}
    <2>2. r.id \notin ids
      BY <1>1, <2>1 DEF RoundsNumbered
    <2>3. checks' = {c \in checks : c.round \notin ids}
      BY DEF RemoveRound
    <2> HIDE DEF ids
    <2> QED
      BY <2>2, <2>3 DEF PassedIn
  <1>4. Landed' = {b \in Landed : b.number # n}
    <2>1. \A b : b \in Landed <=> \E r \in rounds : r.closed /\ b = entry(r)
      BY Zenon DEF Landed
    <2>2. \A b : b \in Landed' <=> \E r \in rounds' : r.closed /\ b = [number |-> r.number, passed |-> PassedIn(checks', r.id)]
      BY Zenon DEF Landed
    <2>3. \A r \in rounds : entry(r).number = r.number
      OBVIOUS
    <2>4. \A b : b \in Landed' <=> \E r \in rounds : r.closed /\ r.number # n /\ b = entry(r)
      BY <1>2, <1>3, <2>2
    <2> HIDE DEF entry
    <2> QED
      BY <2>1, <2>3, <2>4
  <1>5. CASE \A b \in Landed : b.number # n
    BY <1>4, <1>5 DEF Moved
  <1>6. CASE \E b \in Landed : b.number = n
    <2>1. PICK b \in Landed : b.number = n
      BY <1>6
    <2>2. \A u \in Landed : u.number \in Nat /\ u.number <= n
      BY <1>1 DEF Landed, Numbers
    <2>3. \A u \in Landed : u.number = n => u = b
      <3>1. PICK r \in rounds : b = entry(r)
        BY Zenon DEF Landed
      <3> SUFFICES ASSUME NEW q \in rounds, entry(q).number = n PROVE entry(q) = b
        BY Zenon DEF Landed
      <3>2. r.number = n /\ q.number = n
        BY <2>1, <3>1
      <3>3. r = q
        BY <1>1, <3>2
      <3> QED
        BY <3>1, <3>3
    <2>4. Landed' = Landed \ {b}
      BY <1>4, <2>1, <2>3
    <2> QED
      BY <2>1, <2>2, <2>4 DEF Moved, Board!Newest
  <1> QED
    BY <1>5, <1>6

LEMMA EveryStepMoves == IInv /\ Bound /\ [Next]_vars => Moved
  <1> SUFFICES ASSUME IInv, Bound, [Next]_vars PROVE Moved
    OBVIOUS
  <1>1. CASE UNCHANGED <<rounds, checks, round_score, failure_cache, last_id>>
    BY <1>1 DEF Moved, Landed
  <1> QED
    BY <1>1, TableSteps, OpenShowsNothing, CloseLands, RemoveWithdraws DEF Moved

-----------------------------------------------------------------------------
(* The refinement *)

\* What the tables say of the board is true of it.
Told ==
  /\ Shown = Board!PointsOf(Landed)
  /\ failure_cache = [s \in Services |-> Cardinality(Board!DownSince(Landed, s))]

LEMMA AllTold == Spec => [](IInv /\ Bound /\ Told)
  <1>1. Init => Bound
    BY LimitsAssumption DEF Init, Bound
  <1>2. IInv => Told
    BY ScoresTold, FailuresTold DEF IInv, Told
  <1> QED
    BY <1>1, <1>2, InitInv, StepInv, BoundStep, PTL DEF Spec

LEMMA InitBoard == Init => Board!BoardInit
  <1> SUFFICES ASSUME Init PROVE Board!BoardInit
    OBVIOUS
  <1>1. Landed = {} /\ Shown = {} /\ failure_cache = [s \in Services |-> 0]
    BY DEF Init, Landed, Shown
  <1> QED
    BY <1>1 DEF Board!BoardInit, Landed, Shown

\* The scores and counts follow the board because they tell of it before and
\* after the step.
LEMMA BoardStep == Bound /\ IInv /\ Told /\ Told' /\ [Next]_vars => [Board!BoardNext]_(Board!boardVars)
  <1> SUFFICES ASSUME Bound, IInv, Told, Told', [Next]_vars
               PROVE  [Board!BoardNext]_(Board!boardVars)
    OBVIOUS
  <1>1. Moved
    BY EveryStepMoves
  <1>2. Board!Tell
    <2>1. \A S : Board!Cardinality(S) = Cardinality(S)
      BY Zenon DEF Board!Cardinality, Cardinality
    <2> QED
      BY <2>1 DEF Told, Board!Tell, Landed, Shown
  <1>3. CASE Landed' = Landed
    <2>1. Shown' = Shown /\ failure_cache' = failure_cache
      BY <1>3 DEF Told
    <2> QED
      BY <1>3, <2>1 DEF Board!boardVars, Landed, Shown
  <1>4. CASE \E n \in 1..MaxRounds, passed \in SUBSET Services :
               /\ \A b \in Landed : b.number < n
               /\ Landed' = Landed \cup {[number |-> n, passed |-> passed]}
    BY <1>2, <1>4 DEF Board!BoardNext, Board!Land, Landed
  <1>5. CASE \E b \in Landed : Board!Newest(Landed, b.number) /\ Landed' = Landed \ {b}
    BY <1>2, <1>5 DEF Board!BoardNext, Board!Withdraw, Landed
  <1> QED
    BY <1>1, <1>3, <1>4, <1>5 DEF Moved

\* Every behaviour of the engine, with every fault, is one of the board: whole
\* rounds land one after another and only the newest is ever withdrawn.
THEOREM EngineKeepsBoard == Spec => KeepsBoard
  <1>1. Spec => Board!BoardInit /\ [][Board!BoardNext]_(Board!boardVars)
    BY AllTold, InitBoard, BoardStep, PTL DEF Spec
  <1> QED
    BY <1>1 DEF KeepsBoard, Board!BoardSpec

\* A closed round, its checks and its points are touched by nothing but the
\* backing out of that very round.
THEOREM FinishedRoundsAreKept == Spec => FinishedRoundsStay
  <1>1. ASSUME IInv, [Next]_vars, NEW r \in rounds,
               r.closed, ~(pc = "cleanup" /\ r.number = current_round)
        PROVE  /\ r \in rounds'
               /\ {c \in checks' : c.round = r.id} = {c \in checks : c.round = r.id}
               /\ {w \in round_score' : w.round = r.id} = {w \in round_score : w.round = r.id}
    <2>1. CASE UNCHANGED <<rounds, checks, round_score, failure_cache, last_id>> \/ CommitOpenRound
      BY <2>1 DEF CommitOpenRound
    <2>2. CASE CommitCloseRound
      <3>1. r.id # round_id
        <4> DEFINE row == [id |-> round_id, number |-> current_round, closed |-> FALSE]
        <4>1. row \in rounds /\ \A p, q \in rounds : p.id = q.id => p = q
          BY <1>1, <2>2 DEF CommitCloseRound, IInv, Position, DbInv, Sequential
        <4>2. row.id = round_id /\ ~row.closed
          OBVIOUS
        <4> HIDE DEF row
        <4> QED
          BY <1>1, <4>1, <4>2
      <3>2. /\ rounds' = {IF q.id = round_id THEN Ended(q) ELSE q : q \in rounds}
            /\ checks' = checks \cup NewChecks
            /\ round_score' = round_score \cup RowsFor(round_id, current_round, Passed)
        BY <2>2 DEF CommitCloseRound
      <3>3. \A c \in NewChecks : c.round # r.id
        BY <3>1, NewChecksShape
      <3>4. \A w \in RowsFor(round_id, current_round, Passed) : w.round # r.id
        BY <3>1, RowsForRound
      <3>5. r \in rounds'
        BY <1>1, <3>1, <3>2
      <3> QED
        BY <3>2, <3>3, <3>4, <3>5
    <2>3. CASE pc = "cleanup" /\ RemoveRound(current_round)
      <3> DEFINE ids == {q.id : q \in RoundsNumbered(current_round)}
      <3>1. r.id \notin ids
        BY <1>1, <2>3 DEF RoundsNumbered, IInv, DbInv, Sequential
      <3>2. /\ checks' = {c \in checks : c.round \notin ids}
            /\ round_score' = {w \in round_score : w.round \notin ids}
            /\ rounds' = {q \in rounds : q.id \notin ids}
        BY <2>3 DEF RemoveRound, ScoresWithout
      <3> HIDE DEF ids
      <3> QED
        BY <1>1, <3>1, <3>2
    <2> QED
      BY <1>1, <2>1, <2>2, <2>3, TableSteps
  <1>2. IInv /\ [Next]_vars =>
          [\A r \in rounds :
             r.closed /\ ~(pc = "cleanup" /\ r.number = current_round) =>
               /\ r \in rounds'
               /\ {c \in checks' : c.round = r.id} = {c \in checks : c.round = r.id}
               /\ {w \in round_score' : w.round = r.id} = {w \in round_score : w.round = r.id}]_vars
    BY <1>1
  <1> QED
    BY <1>2, Invariance, PTL DEF Spec, FinishedRoundsStay

-----------------------------------------------------------------------------
(***************************************************************************)
(* Rollbacks beside the engine                                             *)
(*                                                                         *)
(* While rollbacks run, the invariant of the engine alone is lost: rounds  *)
(* lose their checks before their scores and their scores before their     *)
(* rows, and numbers may have gaps.  What remains is that references are   *)
(* kept and that every damaged round is one that a rollback under way, or  *)
(* one that failed, was asked to remove.                                   *)
(***************************************************************************)

Stages == {"none", "pausing", "waiting", "unpausing"} \cup Deleting

\* The types of what is not a table.
EngineOK ==
  /\ pc \in Alive \cup {"exited", "finished"}
  /\ current_round \in Nat /\ round_id \in Nat

RequestsOK ==
  /\ apc \in [Admins -> Stages]
  /\ round_number \in [Admins -> Nat \ {0}]
  /\ round_ids \in [Admins -> SUBSET (1..last_id)]

\* Round rows follow their ids, and an id is one row.
RowsOrdered ==
  /\ rounds \subseteq RoundRow(Nat)
  /\ last_id \in Nat
  /\ \A r, q \in rounds : r.number < q.number <=> r.id < q.id
  /\ \A r, q \in rounds : r.id = q.id => r = q
  /\ \A r \in rounds : r.id \in 1..last_id /\ r.number \in Nat \ {0}

\* Checks and scores belong to closed rounds.
RefersToRounds ==
  /\ checks \subseteq CheckRow(Nat)
  /\ \A c \in checks : \E r \in rounds : r.id = c.round /\ r.closed
  /\ \A w \in round_score : \E r \in rounds : r.id = w.round /\ r.number = w.number /\ r.closed

\* The engine is never behind the table; in a round it is ahead of every other
\* round, also of those left when its own has been deleted.
Ahead ==
  /\ \A r \in rounds : r.number <= current_round
  /\ pc \in {"manifest", "polling", "opening"} =>
       current_round >= 1 /\ \A r \in rounds : r.number < current_round
  /\ pc \in {"collecting", "closing"} =>
       /\ \A r \in rounds : r.id = round_id => r.number = current_round /\ ~r.closed
       /\ \A r \in rounds : r.id # round_id => r.number < current_round

\* Nothing before the round asked for has been collected, whatever rounds were
\* stored since.
Collected ==
  \A a \in Admins, r \in rounds :
    apc[a] \in Deleting /\ r.id \in round_ids[a] => r.number >= round_number[a]

CheckedOnce(r) ==
  \A s \in Services : \E v \in BOOLEAN :
    /\ [round |-> r.id, service |-> s, result |-> v] \in checks
    /\ [round |-> r.id, service |-> s, result |-> ~v] \notin checks

Scored(r) ==
  {w \in round_score : w.round = r.id} = RowsFor(r.id, r.number, PassedIn(checks, r.id))

Intact(r) == CheckedOnce(r) /\ Scored(r)

\* A rollback that is deleting, and was asked to delete this round.
Cutting(r) == \E a \in Admins : apc[a] \in Deleting /\ r.number >= round_number[a]

DamageKnown == \A r \in rounds : r.closed => Intact(r) \/ incomplete \/ Cutting(r)

\* Unless rounds were deleted under it, the engine is in step with the table.
Gapless == LastRoundNum(rounds) \in Nat /\ Numbers(rounds) = 1..LastRoundNum(rounds)

InStep == ~overrun => Gapless /\ Position

\* The inductive invariant.
AInv ==
  /\ EngineOK /\ RequestsOK
  /\ RowsOrdered /\ RefersToRounds /\ Ahead
  /\ Collected /\ DamageKnown /\ InStep

-----------------------------------------------------------------------------
(* The last number of a table that may have gaps *)

\* A set of numbers with a bound has a least bound, which is in it.
LEMMA BoundedHasMax ==
  ASSUME NEW S \in SUBSET Nat, S # {}, NEW b \in Nat, \A x \in S : x <= b
  PROVE  Max(S) \in S /\ \A x \in S : x <= Max(S)
  <1> DEFINE T == {n \in Nat : \A x \in S : x <= n}
  <1>1. PICK n \in T : \A m \in T : n <= m
    <2>1. T \subseteq Nat /\ T # {}
      OBVIOUS
    <2> HIDE DEF T
    <2>2. PICK n \in T : \A m \in T : <<m, n>> \notin OpToRel(<, Nat)
      BY <2>1, NatLessThanWellFounded, WFMin, Zenon
    <2>3. \A m, k \in Nat : m < k => <<m, k>> \in OpToRel(<, Nat)
      BY DEF OpToRel
    <2>4. \A m \in T : ~(m < n)
      BY <2>1, <2>2, <2>3, Zenon
    <2> QED
      BY <2>1, <2>4
  <1>2. n \in S
    <2>1. SUFFICES ASSUME n \notin S PROVE FALSE
      OBVIOUS
    <2>2. \A x \in S : x < n
      BY <1>1, <2>1
    <2>3. n - 1 \in Nat
      <3>1. PICK x \in S : x < n
        BY <2>2
      <3> QED
        BY <1>1, <3>1
    <2>4. n - 1 \in T
      BY <1>1, <2>2, <2>3
    <2> QED
      BY <1>1, <2>3, <2>4
  <1>3. \A x \in S : n >= x
    BY <1>1
  <1> QED
    BY <1>2, <1>3 DEF Max

\* The last number of the table is a bound of its numbers, and no more than
\* any other bound.
LEMMA LastIsLast ==
  ASSUME RowsOrdered, NEW b \in Nat, \A r \in rounds : r.number <= b
  PROVE  LastRoundNum(rounds) \in 0..b /\ \A r \in rounds : r.number <= LastRoundNum(rounds)
  <1> DEFINE S == {0} \cup {r.number : r \in rounds}
  <1>1. S \in SUBSET Nat /\ S # {} /\ \A x \in S : x <= b
    BY DEF RowsOrdered
  <1>2. \A r \in rounds : r.number \in S
    OBVIOUS
  <1> HIDE DEF S
  <1>3. Max(S) \in S /\ \A x \in S : x <= Max(S)
    BY <1>1, BoundedHasMax
  <1>4. LastRoundNum(rounds) = Max(S)
    BY Zenon DEF LastRoundNum, S
  <1>5. Max(S) \in Nat /\ Max(S) <= b
    BY <1>1, <1>3
  <1> QED
    BY <1>2, <1>3, <1>4, <1>5

-----------------------------------------------------------------------------
(* What a step does to the rounds it does not touch *)

\* Nothing of round r is touched.
Untouched(r) ==
  /\ {c \in checks' : c.round = r.id} = {c \in checks : c.round = r.id}
  /\ {w \in round_score' : w.round = r.id} = {w \in round_score : w.round = r.id}

\* A round not touched stays intact.
LEMMA UntouchedIntact ==
  ASSUME NEW r, Untouched(r), Intact(r)
  PROVE  Intact(r)'
  <1>1. \A s, v : [round |-> r.id, service |-> s, result |-> v] \in checks'
                    <=> [round |-> r.id, service |-> s, result |-> v] \in checks
    <2> TAKE s, v
    <2> DEFINE c == [round |-> r.id, service |-> s, result |-> v]
    <2>1. c.round = r.id
      OBVIOUS
    <2> HIDE DEF c
    <2> QED
      BY <2>1 DEF Untouched
  <1>2. CheckedOnce(r)'
    BY <1>1, Zenon DEF Intact, CheckedOnce
  <1>3. PassedIn(checks', r.id) = PassedIn(checks, r.id)
    BY <1>1, Zenon DEF PassedIn
  <1>4. Scored(r)'
    BY <1>3 DEF Intact, Scored, Untouched
  <1> QED
    BY <1>2, <1>4 DEF Intact

\* Every round row was there, under its id and number.
OldRows == \A r \in rounds' :
  r.id \in 1..last_id => \E q \in rounds : q.id = r.id /\ q.number = r.number

\* A closed round is an old one that keeps its checks and scores, or is intact.
NoNewDamage == \A r \in rounds' :
  r.closed => (r \in rounds /\ (Intact(r) => Intact(r)')) \/ Intact(r)'

\* The numbers written for a round are its own.
LEMMA RowsForNumber ==
  ASSUME NEW id, NEW n, NEW P, NEW w \in RowsFor(id, n, P)
  PROVE  w.number = n
  <1>1. PICK t, x : w = [round |-> id, number |-> n, team |-> t, points |-> x]
    BY Zenon DEF RowsFor
  <1>2. QED
    BY <1>1

\* A round that is not closed has neither checks nor scores.
LEMMA OpenIsEmpty ==
  ASSUME RowsOrdered, RefersToRounds, NEW id, \A r \in rounds : r.id = id => ~r.closed
  PROVE  (\A c \in checks : c.round # id) /\ (\A w \in round_score : w.round # id)
  BY DEF RefersToRounds

-----------------------------------------------------------------------------
(* The transactions of the engine *)

\* Nothing happens to the tables.
LEMMA QuietTables ==
  ASSUME RowsOrdered, RefersToRounds, UNCHANGED <<rounds, checks, round_score, last_id>>
  PROVE  /\ RowsOrdered' /\ RefersToRounds' /\ OldRows /\ NoNewDamage
         /\ LastRoundNum(rounds') = LastRoundNum(rounds)
  <1>1. RowsOrdered' /\ RefersToRounds'
    BY DEF RowsOrdered, RefersToRounds
  <1>2. \A r \in rounds : Untouched(r)
    BY DEF Untouched
  <1>3. NoNewDamage
    BY <1>2, UntouchedIntact DEF NoNewDamage
  <1> QED
    BY <1>1, <1>3 DEF OldRows

\* The round row is inserted, ahead of all others.
LEMMA OpenTables ==
  ASSUME RowsOrdered, RefersToRounds, CommitOpenRound,
         current_round \in Nat \ {0}, \A r \in rounds : r.number < current_round
  PROVE  /\ RowsOrdered' /\ RefersToRounds' /\ OldRows /\ NoNewDamage
         /\ rounds' = rounds \cup {[id |-> last_id', number |-> current_round, closed |-> FALSE]}
         /\ last_id' = last_id + 1
  <1> DEFINE new == [id |-> last_id', number |-> current_round, closed |-> FALSE]
  <1>1. /\ rounds' = rounds \cup {new} /\ last_id' = last_id + 1
        /\ UNCHANGED <<checks, round_score>>
    BY DEF CommitOpenRound, NewRound
  <1>2. last_id \in Nat /\ rounds \subseteq RoundRow(Nat)
    BY DEF RowsOrdered
  <1>3. new \in RoundRow(Nat) /\ new.id = last_id + 1 /\ new.number = current_round /\ ~new.closed
    BY <1>1, <1>2 DEF RoundRow
  <1>4. \A r \in rounds : r.id \in 1..last_id /\ r.id \in Nat /\ r.number \in Nat \ {0}
    BY <1>2 DEF RowsOrdered
  <1>5. \A r \in rounds' : r \in rounds \/ r = new
    BY <1>1
  <1> HIDE DEF new
  <1>6. RowsOrdered'
    <2>1. \A r, q \in rounds' : r.number < q.number <=> r.id < q.id
      BY <1>2, <1>3, <1>4, <1>5 DEF RowsOrdered
    <2>2. \A r, q \in rounds' : r.id = q.id => r = q
      BY <1>2, <1>3, <1>4, <1>5 DEF RowsOrdered
    <2>3. \A r \in rounds' : r.id \in 1..last_id' /\ r.number \in Nat \ {0}
      BY <1>1, <1>2, <1>3, <1>4, <1>5
    <2>4. rounds' \subseteq RoundRow(Nat) /\ last_id' \in Nat
      BY <1>1, <1>2, <1>3
    <2> QED
      BY <2>1, <2>2, <2>3, <2>4, Zenon DEF RowsOrdered
  <1>7. RefersToRounds'
    BY <1>1 DEF RefersToRounds
  <1>8. NoNewDamage
    <2>1. \A r \in rounds : Untouched(r)
      BY <1>1 DEF Untouched
    <2> QED
      BY <1>3, <1>5, <2>1, UntouchedIntact DEF NoNewDamage
  <1>9. OldRows
    BY <1>2, <1>3, <1>5 DEF OldRows
  <1> QED
    BY <1>1, <1>6, <1>7, <1>8, <1>9 DEF new

\* The round is closed with its checks and scores, if its row is still there.
LEMMA CloseTables ==
  ASSUME RowsOrdered, RefersToRounds, CommitCloseRound, round_id \in Nat,
         \A r \in rounds : r.id = round_id => r.number = current_round /\ ~r.closed
  PROVE  /\ RowsOrdered' /\ RefersToRounds' /\ OldRows /\ NoNewDamage
         /\ \A r \in rounds' : \E q \in rounds : q.id = r.id /\ q.number = r.number
         /\ Numbers(rounds') = Numbers(rounds)
  <1>1. /\ checks' = checks \cup NewChecks
        /\ rounds' = {IF r.id = round_id THEN Ended(r) ELSE r : r \in rounds}
        /\ round_score' = round_score \cup RowsFor(round_id, current_round, Passed)
        /\ UNCHANGED last_id
    BY DEF CommitCloseRound
  <1>2. PICK row \in rounds : row.id = round_id
    BY DEF CommitCloseRound
  <1> DEFINE done == Ended(row)
  <1>3. row.number = current_round /\ ~row.closed
    BY <1>2
  <1>4. /\ done.id = round_id /\ done.number = current_round /\ done.closed
        /\ done \in RoundRow(Nat)
    BY <1>2, <1>3 DEF Ended, RowsOrdered, RoundRow
  <1>5. \A r \in rounds : r.id = round_id <=> r = row
    BY <1>2 DEF RowsOrdered
  <1>6. rounds' = (rounds \ {row}) \cup {done}
    <2>1. \A r \in rounds : r # row => (IF r.id = round_id THEN Ended(r) ELSE r) = r
      BY <1>5, Zenon
    <2>2. (IF row.id = round_id THEN Ended(row) ELSE row) = done
      BY <1>2, Zenon
    <2> HIDE DEF done
    <2> QED
      BY <1>1, <1>2, <2>1, <2>2, Zenon
  <1> HIDE DEF done
  <1>7. \A r \in rounds' : r.id = round_id <=> r = done
    BY <1>4, <1>5, <1>6
  <1>8. \A r \in rounds' : \E q \in rounds : q.id = r.id /\ q.number = r.number
    BY <1>2, <1>3, <1>4, <1>6
  <1>9. \A q \in rounds : \E r \in rounds' : q.id = r.id /\ q.number = r.number /\ (q.closed => r.closed)
    BY <1>2, <1>3, <1>4, <1>6
  <1>10. Numbers(rounds') = Numbers(rounds)
    BY <1>8, <1>9 DEF Numbers
  <1>11. RowsOrdered'
    <2>1. \A r, q \in rounds' : r.number < q.number <=> r.id < q.id
      BY <1>8 DEF RowsOrdered
    <2>2. \A r, q \in rounds' : r.id = q.id => r = q
      <3> SUFFICES ASSUME NEW r \in rounds', NEW q \in rounds', r.id = q.id
                   PROVE  r = q
        OBVIOUS
      <3>1. CASE r # done /\ q # done
        BY <1>6, <3>1 DEF RowsOrdered
      <3>2. CASE r = done \/ q = done
        BY <1>7, <3>2
      <3> QED
        BY <3>1, <3>2
    <2>3. \A r \in rounds' : r.id \in 1..last_id' /\ r.number \in Nat \ {0}
      BY <1>1, <1>8 DEF RowsOrdered
    <2>4. rounds' \subseteq RoundRow(Nat) /\ last_id' \in Nat
      BY <1>1, <1>4, <1>6 DEF RowsOrdered
    <2> QED
      BY <2>1, <2>2, <2>3, <2>4, Zenon DEF RowsOrdered
  <1>12. (\A c \in checks : c.round # round_id) /\ (\A w \in round_score : w.round # round_id)
    BY OpenIsEmpty
  <1>13. \A c \in NewChecks : c.round = round_id
    BY NewChecksShape
  <1>14. \A w \in RowsFor(round_id, current_round, Passed) :
           w.round = round_id /\ w.number = current_round
    BY RowsForRound, RowsForNumber
  <1>15. RefersToRounds'
    <2>1. checks' \subseteq CheckRow(Nat)
      BY <1>1, NewChecksType DEF RefersToRounds
    <2>2. done \in rounds'
      BY <1>6
    <2>3. \A c \in checks' : \E r \in rounds' : r.id = c.round /\ r.closed
      BY <1>1, <1>4, <1>9, <1>13, <2>2 DEF RefersToRounds
    <2>4. \A w \in round_score' : \E r \in rounds' : r.id = w.round /\ r.number = w.number /\ r.closed
      BY <1>1, <1>4, <1>9, <1>14, <2>2 DEF RefersToRounds
    <2> QED
      BY <2>1, <2>3, <2>4 DEF RefersToRounds
  <1>16. Intact(done)'
    <2>1. \A s \in Services, v \in BOOLEAN :
            [round |-> round_id, service |-> s, result |-> v] \in checks' <=> v = (s \in Passed)
      <3> TAKE s \in Services, v \in BOOLEAN
      <3>1. [round |-> round_id, service |-> s, result |-> v] \notin checks
        BY <1>12
      <3> QED
        BY <1>1, <3>1, NewChecksMember
    <2>2. CheckedOnce(done)'
      <3> SUFFICES ASSUME NEW s \in Services
                   PROVE  \E v \in BOOLEAN :
                            /\ [round |-> round_id, service |-> s, result |-> v] \in checks'
                            /\ [round |-> round_id, service |-> s, result |-> ~v] \notin checks'
        BY <1>4 DEF CheckedOnce
      <3>1. (s \in Passed) \in BOOLEAN /\ (~(s \in Passed)) \in BOOLEAN
        OBVIOUS
      <3>2. (~(s \in Passed)) # (s \in Passed)
        OBVIOUS
      <3> QED
        BY <2>1, <3>1, <3>2, Zenon
    <2>3. PassedIn(checks', round_id) = Passed
      BY <2>1, Zenon DEF PassedIn, Passed
    <2>4. {w \in round_score' : w.round = round_id} = RowsFor(round_id, current_round, Passed)
      BY <1>1, <1>12, <1>14
    <2> QED
      BY <1>4, <2>2, <2>3, <2>4 DEF Intact, Scored
  <1>17. NoNewDamage
    <2>1. ASSUME NEW r \in rounds, r.id # round_id PROVE Untouched(r)
      BY <1>1, <1>13, <1>14, <2>1 DEF Untouched
    <2>2. ASSUME NEW r \in rounds', r # done PROVE r \in rounds /\ (Intact(r) => Intact(r)')
      <3>1. r \in rounds /\ r.id # round_id
        BY <1>6, <1>7, <2>2
      <3> QED
        BY <2>1, <3>1, UntouchedIntact
    <2> QED
      BY <1>16, <2>2 DEF NoNewDamage
  <1> QED
    BY <1>8, <1>10, <1>11, <1>15, <1>17 DEF OldRows

\* Backing a round out removes every row with its number, and nothing else.
LEMMA RemoveTables ==
  ASSUME RowsOrdered, RefersToRounds, NEW n, RemoveRound(n)
  PROVE  /\ RowsOrdered' /\ RefersToRounds' /\ OldRows /\ NoNewDamage
         /\ rounds' = {r \in rounds : r.number # n}
  <1> DEFINE ids == {r.id : r \in RoundsNumbered(n)}
  <1>1. /\ checks' = {c \in checks : c.round \notin ids}
        /\ round_score' = {w \in round_score : w.round \notin ids}
        /\ rounds' = {r \in rounds : r.id \notin ids}
        /\ last_id' = last_id
    BY DEF RemoveRound, ScoresWithout
  <1>2. \A r \in rounds : r.id \in ids <=> r.number = n
    BY DEF RoundsNumbered, RowsOrdered
  <1> HIDE DEF ids
  <1>3. rounds' = {r \in rounds : r.number # n}
    BY <1>1, <1>2
  <1>4. rounds' \subseteq rounds /\ \A r \in rounds' : r.id \notin ids
    BY <1>1
  <1>5. RowsOrdered'
    <2>1. rounds' \subseteq RoundRow(Nat) /\ last_id' \in Nat
      BY <1>1, <1>4 DEF RowsOrdered
    <2>2. \A r, q \in rounds' : (r.number < q.number <=> r.id < q.id) /\ (r.id = q.id => r = q)
      BY <1>4 DEF RowsOrdered
    <2>3. \A r \in rounds' : r.id \in 1..last_id' /\ r.number \in Nat \ {0}
      BY <1>1, <1>4 DEF RowsOrdered
    <2> QED
      BY <2>1, <2>2, <2>3 DEF RowsOrdered
  <1>6. RefersToRounds'
    BY <1>1 DEF RefersToRounds
  <1>7. NoNewDamage
    <2>1. \A r \in rounds' : r \in rounds /\ Untouched(r)
      BY <1>1, <1>4 DEF Untouched
    <2> QED
      BY <2>1, UntouchedIntact DEF NoNewDamage
  <1> QED
    BY <1>3, <1>4, <1>5, <1>6, <1>7 DEF OldRows

-----------------------------------------------------------------------------
(* The steps of the engine *)

\* A step of the engine loses nothing that is known of the requests.
LEMMA RequestsCarryOn ==
  ASSUME RequestsOK, Collected, DamageKnown, OldRows, NoNewDamage,
         UNCHANGED adminVars, last_id \in Nat, last_id' \in {last_id, last_id + 1}
  PROVE  RequestsOK' /\ Collected' /\ DamageKnown'
  <1>1. RequestsOK'
    BY DEF RequestsOK, adminVars
  <1>2. ASSUME NEW a \in Admins, NEW r \in rounds', apc'[a] \in Deleting, r.id \in round_ids'[a]
        PROVE  r.number >= round_number'[a]
    <2>1. UNCHANGED <<apc, round_ids, round_number>>
      BY DEF adminVars
    <2>2. r.id \in 1..last_id
      BY <1>2, <2>1 DEF RequestsOK
    <2>3. PICK q \in rounds : q.id = r.id /\ q.number = r.number
      BY <2>2 DEF OldRows
    <2> QED
      BY <1>2, <2>1, <2>3 DEF Collected
  <1>3. ASSUME NEW r \in rounds', r.closed
        PROVE  Intact(r)' \/ incomplete' \/ Cutting(r)'
    BY <1>3 DEF DamageKnown, NoNewDamage, Cutting, adminVars
  <1> QED
    BY <1>1, <1>2, <1>3 DEF Collected, DamageKnown

\* The numbers of a table that grows or shrinks at its end.
LEMMA GapfreeGrows ==
  ASSUME Gapless, NEW R, Numbers(R) = Numbers(rounds) \cup {LastRoundNum(rounds) + 1}
  PROVE  /\ LastRoundNum(R) = LastRoundNum(rounds) + 1
         /\ Numbers(R) = 1..LastRoundNum(R)
  <1> DEFINE n == LastRoundNum(rounds)
  <1>1. n \in Nat /\ Numbers(rounds) = 1..n
    BY DEF Gapless
  <1> HIDE DEF n
  <1>2. (1..n) \cup {n + 1} = 1..(n + 1) /\ n + 1 \in Nat
    BY <1>1
  <1>3. Numbers(R) = 1..(n + 1)
    BY <1>1, <1>2 DEF n
  <1>4. LastRoundNum(R) = n + 1
    BY <1>2, <1>3, LastOfInterval
  <1> QED
    BY <1>3, <1>4 DEF n

LEMMA GapfreeShrinks ==
  ASSUME Gapless, NEW R, NEW n \in Nat, n <= LastRoundNum(rounds),
         Numbers(R) = {k \in Numbers(rounds) : k <= n}
  PROVE  LastRoundNum(R) = n /\ Numbers(R) = 1..n
  <1>1. Numbers(R) = 1..n
    BY DEF Gapless
  <1> QED
    BY <1>1, LastOfInterval

\* The engine's steps that leave the tables alone.
LEMMA QuietEngineStep ==
  ASSUME AInv,
         StartRound \/ Finish \/ SaveManifest \/ Poll \/ RoundTimeout \/ CollectResults
           \/ FinishRound \/ RoundError \/ \E s \in Services : Report(s)
  PROVE  /\ EngineOK' /\ Ahead' /\ (Gapless /\ Position => Gapless' /\ Position')
         /\ UNCHANGED <<rounds, checks, round_score, last_id>>
  <1> DEFINE last == LastRoundNum(rounds)
  <1>1. /\ EngineOK /\ RowsOrdered /\ Ahead
        /\ last \in 0..current_round /\ \A r \in rounds : r.number <= last
    BY LastIsLast DEF AInv, EngineOK, Ahead
  <1>2. UNCHANGED <<rounds, checks, round_score, last_id>>
    BY DEF StartRound, Finish, SaveManifest, CommitManifest, Poll, RoundTimeout,
           CollectResults, FinishRound, RoundError, Report, environment, db
  <1>3. Gapless' = Gapless /\ LastRoundNum(rounds') = last
    BY <1>2 DEF Gapless
  <1> HIDE DEF last
  <1>4. \A r \in rounds : r.number \in Nat \ {0}
    BY <1>1 DEF RowsOrdered
  <1>5. CASE StartRound
    <2>1. current_round' = last + 1 /\ pc' = "manifest" /\ UNCHANGED round_id
      BY <1>1, <1>5 DEF StartRound, NextNumber, last, EngineOK
    <2> QED
      BY <1>1, <1>2, <1>3, <1>4, <2>1 DEF EngineOK, Ahead, Position, Alive, InRound, InTry
  <1>6. CASE Finish \/ FinishRound
    <2>1. pc' \in {"finished", "idle"} /\ UNCHANGED <<current_round, round_id>>
          /\ pc \in {"idle", "landed"}
      BY <1>6 DEF Finish, FinishRound, counters
    <2> QED
      BY <1>1, <1>2, <1>3, <2>1 DEF EngineOK, Ahead, Position, Alive, last
  <1>7. CASE SaveManifest \/ Poll \/ RoundTimeout
    <2>1. /\ UNCHANGED <<current_round, round_id>>
          /\ pc \in {"manifest", "polling"} /\ pc' \in {"polling", "opening"}
      BY <1>7 DEF SaveManifest, CommitManifest, Poll, RoundTimeout, counters
    <2> QED
      BY <1>1, <1>2, <1>3, <2>1 DEF EngineOK, Ahead, Position, Alive, InRound, InTry
  <1>8. CASE CollectResults
    <2>1. UNCHANGED <<current_round, round_id>> /\ pc = "collecting" /\ pc' = "closing"
      BY <1>8 DEF CollectResults, counters
    <2> QED
      BY <1>1, <1>2, <1>3, <2>1 DEF EngineOK, Ahead, Position, Alive, InRound, InTry
  <1>9. CASE RoundError
    <2>1. UNCHANGED <<current_round, round_id>> /\ pc \in InTry /\ pc' = "cleanup"
      BY <1>9 DEF RoundError, Raise
    <2>2. EngineOK' /\ Ahead'
      BY <1>1, <1>2, <2>1 DEF EngineOK, Ahead, Alive, InRound
    <2>3. Position => Position'
      <3>1. CASE pc \in {"manifest", "polling", "opening"}
        BY <1>1, <1>3, <2>1, <3>1 DEF Position, last
      <3>2. CASE pc \in {"collecting", "closing"}
        <4> DEFINE row == [id |-> round_id, number |-> current_round, closed |-> FALSE]
        <4> SUFFICES ASSUME Position PROVE Position'
          OBVIOUS
        <4>1. row \in rounds /\ current_round = last
          BY <3>2 DEF Position, last
        <4>2. current_round >= 1
          BY <1>1, <1>4, <4>1 DEF EngineOK
        <4> QED
          BY <1>3, <2>1, <4>1, <4>2 DEF Position
      <3> QED
        BY <2>1, <3>1, <3>2 DEF InTry
    <2> QED
      BY <1>2, <1>3, <2>2, <2>3
  <1>10. CASE \E s \in Services : Report(s)
    <2>1. UNCHANGED <<current_round, round_id, pc>>
      BY <1>10 DEF Report, environment, counters
    <2> QED
      BY <1>1, <1>2, <1>3, <2>1 DEF EngineOK, Ahead, Position, last
  <1> QED
    BY <1>5, <1>6, <1>7, <1>8, <1>9, <1>10

\* The engine's transactions on the tables.
LEMMA CommittingEngineStep ==
  ASSUME AInv, OpenRound \/ CloseRound \/ CleanupRound
  PROVE  /\ EngineOK' /\ Ahead' /\ (Gapless /\ Position => Gapless' /\ Position')
         /\ RowsOrdered' /\ RefersToRounds' /\ OldRows /\ NoNewDamage
         /\ last_id' \in {last_id, last_id + 1}
  <1> DEFINE last == LastRoundNum(rounds)
  <1>1. EngineOK /\ RowsOrdered /\ RefersToRounds /\ Ahead
    BY DEF AInv
  <1>2. CASE OpenRound
    <2>1. /\ pc = "opening" /\ CommitOpenRound /\ pc' = "collecting"
          /\ round_id' = last_id' /\ UNCHANGED current_round
      BY <1>2 DEF OpenRound, CommitOpenRound, counters
    <2> DEFINE new == [id |-> last_id', number |-> current_round, closed |-> FALSE]
    <2>2. current_round \in Nat \ {0} /\ \A r \in rounds : r.number < current_round
      BY <1>1, <2>1 DEF EngineOK, Ahead
    <2>3. /\ RowsOrdered' /\ RefersToRounds' /\ OldRows /\ NoNewDamage
          /\ rounds' = rounds \cup {new} /\ last_id' = last_id + 1
      BY <1>1, <2>1, <2>2, OpenTables
    <2>4. new.id = last_id' /\ new.number = current_round /\ ~new.closed
      OBVIOUS
    <2> HIDE DEF new
    <2>5. \A r \in rounds : r.id # last_id'
      BY <1>1, <2>3 DEF RowsOrdered
    <2>6. EngineOK' /\ Ahead'
      <3>1. last_id' \in Nat
        BY <2>3 DEF RowsOrdered
      <3>2. EngineOK'
        BY <1>1, <2>1, <3>1 DEF EngineOK, Alive, InRound, InTry
      <3>3. \A r \in rounds' : r.number <= current_round
        BY <2>2, <2>3, <2>4, <1>1 DEF RowsOrdered
      <3> QED
        BY <2>1, <2>2, <2>3, <2>4, <2>5, <3>2, <3>3 DEF Ahead
    <2>7. ASSUME Gapless, Position PROVE Gapless' /\ Position'
      <3>1. current_round = last + 1 /\ last \in Nat
        BY <2>1, <2>7 DEF Position, Gapless
      <3>2. Numbers(rounds') = Numbers(rounds) \cup {last + 1}
        BY <2>3, <2>4, <3>1 DEF Numbers
      <3>3. LastRoundNum(rounds') = last + 1 /\ Numbers(rounds') = 1..LastRoundNum(rounds')
        BY <2>7, <3>2, GapfreeGrows
      <3>4. new \in rounds' /\ new = [id |-> round_id', number |-> current_round', closed |-> FALSE]
        BY <2>1, <2>3 DEF new
      <3>5. Gapless'
        <4>1. LastRoundNum(rounds') \in Nat
          BY <3>1, <3>3
        <4> QED
          BY <3>3, <4>1, Zenon DEF Gapless, Numbers, LastRoundNum
      <3> QED
        BY <2>1, <3>1, <3>3, <3>4, <3>5 DEF Position
    <2> QED
      BY <2>3, <2>6, <2>7
  <1>3. CASE CloseRound
    <2>1. /\ pc = "closing" /\ CommitCloseRound /\ pc' = "landed"
          /\ UNCHANGED <<current_round, round_id, last_id>>
      BY <1>3 DEF CloseRound, CommitCloseRound, counters
    <2>2. \A r \in rounds : r.id = round_id => r.number = current_round /\ ~r.closed
      BY <1>1, <2>1 DEF Ahead
    <2>3. /\ RowsOrdered' /\ RefersToRounds' /\ OldRows /\ NoNewDamage
          /\ \A r \in rounds' : \E q \in rounds : q.id = r.id /\ q.number = r.number
          /\ Numbers(rounds') = Numbers(rounds)
      BY <1>1, <2>1, <2>2, CloseTables DEF EngineOK
    <2>4. EngineOK' /\ Ahead'
      BY <1>1, <2>1, <2>3 DEF EngineOK, Ahead, Alive
    <2>5. ASSUME Gapless, Position PROVE Gapless' /\ Position'
      <3>1. last \in Nat /\ Numbers(rounds') = 1..last /\ current_round = last
        BY <2>1, <2>3, <2>5 DEF Gapless, Position
      <3>2. LastRoundNum(rounds') = last
        BY <3>1, LastOfInterval
      <3>3. Gapless'
        BY <3>1, <3>2, Zenon DEF Gapless, Numbers, LastRoundNum
      <3> QED
        BY <2>1, <3>1, <3>2, <3>3 DEF Position
    <2> QED
      BY <2>1, <2>3, <2>4, <2>5
  <1>4. CASE CleanupRound
    <2>1. /\ pc = "cleanup" /\ RemoveRound(current_round) /\ pc' \in {"exited", "idle"}
          /\ UNCHANGED <<current_round, round_id, last_id>>
      BY <1>4 DEF CleanupRound, AfterFailedRound, RemoveRound, counters
    <2>2. /\ RowsOrdered' /\ RefersToRounds' /\ OldRows /\ NoNewDamage
          /\ rounds' = {r \in rounds : r.number # current_round}
      BY <1>1, <2>1, RemoveTables
    <2>3. EngineOK' /\ Ahead'
      BY <1>1, <2>1, <2>2 DEF EngineOK, Ahead, Alive
    <2>4. ASSUME Gapless, Position PROVE Gapless' /\ Position'
      <3>1. /\ last \in Nat /\ current_round \in {last, last + 1} /\ current_round \in Nat \ {0}
            /\ Numbers(rounds) = 1..last
        BY <1>1, <2>1, <2>4 DEF Gapless, Position, EngineOK
      <3>2. Numbers(rounds') = Numbers(rounds) \ {current_round}
        BY <2>2 DEF Numbers
      <3>3. current_round - 1 \in Nat /\ current_round - 1 <= last
        BY <3>1
      <3>4. Numbers(rounds') = {k \in Numbers(rounds) : k <= current_round - 1}
        BY <3>1, <3>2
      <3>5. LastRoundNum(rounds') = current_round - 1 /\ Numbers(rounds') = 1..(current_round - 1)
        BY <2>4, <3>3, <3>4, GapfreeShrinks
      <3>6. Gapless'
        BY <3>3, <3>5, Zenon DEF Gapless, Numbers, LastRoundNum
      <3> QED
        BY <2>1, <3>1, <3>3, <3>5, <3>6 DEF Position
    <2> QED
      BY <2>1, <2>2, <2>3, <2>4
  <1> QED
    BY <1>2, <1>3, <1>4

\* The engine keeps the invariant between any two steps of the requests.
LEMMA EngineKeepsInv ==
  ASSUME AInv, EngineAlongside
  PROVE  AInv'
  <1>1. UNCHANGED adminVars
    BY DEF EngineAlongside
  <1>2. /\ EngineOK' /\ Ahead' /\ (Gapless /\ Position => Gapless' /\ Position')
        /\ RowsOrdered' /\ RefersToRounds' /\ OldRows /\ NoNewDamage
        /\ last_id' \in {last_id, last_id + 1}
    <2>1. CASE OpenRound \/ CloseRound \/ CleanupRound
      BY <2>1, CommittingEngineStep
    <2>2. CASE ~(OpenRound \/ CloseRound \/ CleanupRound)
      <3>1. StartRound \/ Finish \/ SaveManifest \/ Poll \/ RoundTimeout \/ CollectResults
              \/ FinishRound \/ RoundError \/ \E s \in Services : Report(s)
        BY <2>2 DEF EngineAlongside, EngineStep
      <3>2. /\ EngineOK' /\ Ahead' /\ (Gapless /\ Position => Gapless' /\ Position')
            /\ UNCHANGED <<rounds, checks, round_score, last_id>>
        BY <3>1, QuietEngineStep
      <3> QED
        BY <3>2, QuietTables DEF AInv
    <2> QED
      BY <2>1, <2>2
  <1>3. RequestsOK' /\ Collected' /\ DamageKnown'
    <2>1. RequestsOK /\ Collected /\ DamageKnown /\ last_id \in Nat
      BY DEF AInv, RowsOrdered
    <2> QED
      BY <1>1, <1>2, <2>1, RequestsCarryOn
  <1>4. InStep'
    BY <1>1, <1>2 DEF AInv, InStep, adminVars
  <1> QED
    BY <1>2, <1>3, <1>4 DEF AInv

-----------------------------------------------------------------------------
(* The steps of a rollback *)

\* Ids name rows, so the rounds collected are the rounds asked for.
LEMMA IdsOfRows ==
  ASSUME RowsOrdered, NEW n
  PROVE  /\ IdsFrom(n) \subseteq 1..last_id
         /\ \A r \in rounds : r.id \in IdsFrom(n) <=> r.number >= n
  BY DEF RowsOrdered, IdsFrom, RowsFrom

\* The steps that only move a request on: no table and no number changes.
LEMMA WaitingStep ==
  ASSUME AInv, NEW a \in Admins,
         RequestRollback(a) \/ PauseEngine(a) \/ CollectRounds(a)
  PROVE  AInv'
  <1>1. /\ EngineOK /\ RequestsOK /\ RowsOrdered /\ RefersToRounds /\ Ahead
        /\ Collected /\ DamageKnown /\ InStep
    BY DEF AInv
  <1>2. /\ UNCHANGED <<rounds, checks, round_score, last_id, pc, current_round, round_id>>
        /\ UNCHANGED <<incomplete, overrun>>
    BY DEF RequestRollback, PauseEngine, CollectRounds, vars, db, engineProcess, counters
  <1>3. EngineOK' /\ Ahead' /\ InStep'
    BY <1>1, <1>2 DEF EngineOK, Ahead, InStep, Gapless, Position
  <1>4. RowsOrdered' /\ RefersToRounds' /\ NoNewDamage
    BY <1>1, <1>2, QuietTables
  <1>5. /\ apc[a] \in {"none", "pausing", "waiting"}
        /\ \E stage \in {"none", "pausing", "waiting", "checks"} :
             apc' = [apc EXCEPT ![a] = stage]
    BY DEF RequestRollback, PauseEngine, CollectRounds
  <1>6. /\ \E n \in Nat \ {0} : round_number' = [round_number EXCEPT ![a] = n]
        /\ \E ids \in SUBSET (1..last_id) : round_ids' = [round_ids EXCEPT ![a] = ids]
        /\ apc'[a] = "checks" => round_ids'[a] = IdsFrom(round_number'[a])
    <2>1. CASE RequestRollback(a)
      <3>1. PICK n \in Requestable :
              /\ round_number' = [round_number EXCEPT ![a] = n]
              /\ round_ids' = [round_ids EXCEPT ![a] = IF paused THEN IdsFrom(n) ELSE {}]
        BY <2>1 DEF RequestRollback
      <3>2. apc' = [apc EXCEPT ![a] = IF paused THEN "checks" ELSE "pausing"]
        BY <2>1 DEF RequestRollback
      <3>3. n \in Nat \ {0}
        <4>1. LastRoundNum(rounds) \in Nat
          BY <1>1, LastIsLast DEF EngineOK, Ahead
        <4> QED
          BY <4>1 DEF Requestable
      <3>4. (IF paused THEN IdsFrom(n) ELSE {}) \in SUBSET (1..last_id)
        BY <1>1, IdsOfRows
      <3>5. apc'[a] = "checks" => round_ids'[a] = IdsFrom(round_number'[a])
        BY <1>1, <3>1, <3>2 DEF RequestsOK
      <3> QED
        BY <3>1, <3>3, <3>4, <3>5
    <2>2. CASE PauseEngine(a)
      <3>1. UNCHANGED <<round_number, round_ids>>
        BY <2>2 DEF PauseEngine
      <3>2. /\ round_number = [round_number EXCEPT ![a] = round_number[a]]
            /\ round_ids = [round_ids EXCEPT ![a] = round_ids[a]]
            /\ round_number[a] \in Nat \ {0} /\ round_ids[a] \in SUBSET (1..last_id)
        BY <1>1 DEF RequestsOK
      <3>3. apc'[a] # "checks"
        BY <1>1, <2>2 DEF PauseEngine, RequestsOK
      <3> QED
        BY <3>1, <3>2, <3>3
    <2>3. CASE CollectRounds(a)
      <3>1. /\ round_ids' = [round_ids EXCEPT ![a] = IdsFrom(round_number[a])]
            /\ UNCHANGED round_number
        BY <2>3 DEF CollectRounds
      <3>2. /\ round_number = [round_number EXCEPT ![a] = round_number[a]]
            /\ round_number[a] \in Nat \ {0} /\ IdsFrom(round_number[a]) \in SUBSET (1..last_id)
        BY <1>1, IdsOfRows DEF RequestsOK
      <3>3. round_ids'[a] = IdsFrom(round_number'[a])
        BY <1>1, <3>1 DEF RequestsOK
      <3> QED
        BY <3>1, <3>2, <3>3
    <2> QED
      BY <2>1, <2>2, <2>3
  <1>7. RequestsOK'
    BY <1>1, <1>2, <1>5, <1>6 DEF RequestsOK, Stages, Deleting
  <1>8. \A b \in Admins \ {a} :
          apc'[b] = apc[b] /\ round_number'[b] = round_number[b] /\ round_ids'[b] = round_ids[b]
    BY <1>1, <1>5, <1>6 DEF RequestsOK
  <1>9. Collected'
    <2> SUFFICES ASSUME NEW b \in Admins, NEW r \in rounds,
                        apc'[b] \in Deleting, r.id \in round_ids'[b]
                 PROVE  r.number >= round_number'[b]
      BY <1>2 DEF Collected
    <2>1. CASE b = a
      <3>1. apc'[a] = "checks"
        BY <1>1, <1>5, <2>1 DEF RequestsOK, Deleting
      <3> QED
        BY <1>1, <1>6, <2>1, <3>1, IdsOfRows
    <2>2. CASE b # a
      BY <1>1, <1>8, <2>2 DEF Collected
    <2> QED
      BY <2>1, <2>2
  <1>10. DamageKnown'
    <2>1. \A r : Cutting(r) => Cutting(r)'
      BY <1>5, <1>8 DEF Cutting, Deleting
    <2> QED
      BY <1>1, <1>2, <1>4, <2>1 DEF DamageKnown, NoNewDamage
  <1> QED
    BY <1>3, <1>4, <1>7, <1>9, <1>10 DEF AInv

\* A request that ends leaves every table and every other request as they are;
\* one that was deleting is on record.
LEMMA EndingStep ==
  ASSUME AInv, NEW a \in Admins, Unpause(a) \/ RequestFails(a)
  PROVE  AInv'
  <1>1. /\ EngineOK /\ RequestsOK /\ RowsOrdered /\ RefersToRounds /\ Ahead
        /\ Collected /\ DamageKnown /\ InStep
    BY DEF AInv
  <1>2. UNCHANGED <<rounds, checks, round_score, last_id, pc, current_round, round_id, overrun>>
    BY DEF Unpause, RequestFails, db, engineProcess, counters
  <1>3. EngineOK' /\ Ahead' /\ InStep'
    BY <1>1, <1>2 DEF EngineOK, Ahead, InStep, Gapless, Position
  <1>4. RowsOrdered' /\ RefersToRounds' /\ NoNewDamage
    BY <1>1, <1>2, QuietTables
  <1>5. /\ apc' = [apc EXCEPT ![a] = "none"]
        /\ round_number' = [round_number EXCEPT ![a] = 1]
        /\ round_ids' = [round_ids EXCEPT ![a] = {}]
    BY DEF Unpause, RequestFails, Ends
  <1>6. RequestsOK'
    BY <1>1, <1>2, <1>5 DEF RequestsOK, Stages
  <1>7. /\ apc'[a] = "none"
        /\ \A b \in Admins \ {a} :
             apc'[b] = apc[b] /\ round_number'[b] = round_number[b] /\ round_ids'[b] = round_ids[b]
    BY <1>1, <1>5 DEF RequestsOK
  <1>8. Collected'
    BY <1>1, <1>2, <1>7 DEF Collected, Deleting
  <1>9. (incomplete => incomplete') /\ (incomplete' \/ apc[a] \notin Deleting)
    <2>1. CASE Unpause(a)
      BY <2>1 DEF Unpause, Deleting
    <2>2. CASE RequestFails(a)
      BY <2>2, Zenon DEF RequestFails
    <2> QED
      BY <2>1, <2>2
  <1>10. \A r : apc[a] \notin Deleting /\ Cutting(r) => Cutting(r)'
    BY <1>7 DEF Cutting
  <1>11. DamageKnown'
    BY <1>1, <1>2, <1>4, <1>9, <1>10 DEF DamageKnown, NoNewDamage
  <1> QED
    BY <1>3, <1>4, <1>6, <1>8, <1>11 DEF AInv

\* The steps of a request that is deleting: it has collected no more than before,
\* and every other request stays where it is.
LEMMA DeletingStep ==
  ASSUME AInv, NEW a \in Admins,
         DeleteChecks(a) \/ DeleteScores(a) \/ DeleteManifests(a) \/ DeleteRounds(a) \/ RollbackError(a)
  PROVE  /\ RequestsOK'
         /\ apc[a] \in Deleting
         /\ \A b \in Admins \ {a} : apc'[b] = apc[b]
         /\ UNCHANGED <<pc, current_round, round_id, last_id, round_number>>
         /\ \A b \in Admins : round_ids'[b] \subseteq round_ids[b]
         /\ EngineOK'
  <1>1. EngineOK /\ RequestsOK
    BY DEF AInv
  <1>2. UNCHANGED <<pc, current_round, round_id, last_id, round_number>>
    BY DEF DeleteChecks, DeleteScores, DeleteManifests, DeleteRounds, RollbackError,
           engineProcess, vars, db, counters
  <1>3. apc[a] \in Deleting
    BY DEF DeleteChecks, DeleteScores, DeleteManifests, DeleteRounds, RollbackError, Deleting
  <1>4. \E stage \in {"checks", "scores", "manifests", "rounds", "unpausing"} :
          apc' = [apc EXCEPT ![a] = stage]
    BY DEF DeleteChecks, DeleteScores, DeleteManifests, DeleteRounds, RollbackError, AfterError
  <1>5. \E ids \in SUBSET round_ids[a] : round_ids' = [round_ids EXCEPT ![a] = ids]
    <2>1. CASE DeleteChecks(a)
      BY <2>1, Zenon DEF DeleteChecks
    <2>2. CASE ~DeleteChecks(a)
      <3>1. UNCHANGED round_ids
        BY <2>2 DEF DeleteScores, DeleteManifests, DeleteRounds, RollbackError
      <3>2. round_ids = [round_ids EXCEPT ![a] = round_ids[a]]
        BY <1>1 DEF RequestsOK
      <3> QED
        BY <3>1, <3>2
    <2> QED
      BY <2>1, <2>2
  <1>6. RequestsOK'
    <2>1. apc' \in [Admins -> Stages]
      BY <1>1, <1>4 DEF RequestsOK, Stages, Deleting
    <2>2. round_ids' \in [Admins -> SUBSET (1..last_id')]
      BY <1>1, <1>2, <1>5 DEF RequestsOK
    <2> QED
      BY <1>1, <1>2, <2>1, <2>2 DEF RequestsOK
  <1>7. \A b \in Admins : round_ids'[b] \subseteq round_ids[b]
    BY <1>1, <1>5 DEF RequestsOK
  <1>8. \A b \in Admins \ {a} : apc'[b] = apc[b]
    BY <1>1, <1>4 DEF RequestsOK
  <1> QED
    BY <1>1, <1>2, <1>3, <1>6, <1>7, <1>8 DEF EngineOK

\* Deleting the checks of a batch of the rounds collected damages those rounds only.
LEMMA ChecksStep ==
  ASSUME AInv, NEW a \in Admins, DeleteChecks(a)
  PROVE  AInv'
  <1>1. /\ EngineOK /\ RequestsOK /\ RowsOrdered /\ RefersToRounds /\ Ahead
        /\ Collected /\ DamageKnown /\ InStep
    BY DEF AInv
  <1> PICK batch \in SUBSET round_ids[a] :
        /\ checks' = {c \in checks : c.round \notin batch}
        /\ \E stage \in {"checks", "scores"} : apc' = [apc EXCEPT ![a] = stage]
    BY DEF DeleteChecks, Batches
  <1>2. /\ checks' = {c \in checks : c.round \notin batch}
        /\ apc[a] = "checks" /\ apc'[a] \in {"checks", "scores"}
        /\ UNCHANGED <<rounds, round_score, incomplete, overrun>>
    BY <1>1 DEF DeleteChecks, RequestsOK
  <1>3. /\ RequestsOK' /\ EngineOK'
        /\ \A b \in Admins \ {a} : apc'[b] = apc[b]
        /\ UNCHANGED <<pc, current_round, round_id, last_id, round_number>>
        /\ \A b \in Admins : round_ids'[b] \subseteq round_ids[b]
    BY DeletingStep
  <1>4. RowsOrdered' /\ RefersToRounds' /\ Ahead' /\ InStep'
    BY <1>1, <1>2, <1>3 DEF RowsOrdered, RefersToRounds, Ahead, InStep, Gapless, Position
  <1>5. Collected'
    BY <1>1, <1>2, <1>3 DEF Collected, Deleting
  <1>6. ASSUME NEW r \in rounds, r.closed
        PROVE  Intact(r)' \/ incomplete' \/ Cutting(r)'
    <2>1. CASE r.id \in batch
      <3>1. r.number >= round_number'[a]
        BY <1>1, <1>2, <1>3, <2>1 DEF Collected, Deleting
      <3> QED
        BY <1>2, <3>1 DEF Cutting, Deleting
    <2>2. CASE r.id \notin batch
      <3>1. Untouched(r)
        BY <1>2, <2>2 DEF Untouched
      <3>2. Cutting(r) => Cutting(r)'
        BY <1>2, <1>3 DEF Cutting, Deleting
      <3> QED
        BY <1>1, <1>2, <1>6, <3>1, <3>2, UntouchedIntact DEF DamageKnown
    <2> QED
      BY <2>1, <2>2
  <1> QED
    BY <1>2, <1>3, <1>4, <1>5, <1>6 DEF AInv, DamageKnown

\* So does deleting the scores from the number asked for on.
LEMMA ScoresStep ==
  ASSUME AInv, NEW a \in Admins, DeleteScores(a)
  PROVE  AInv'
  <1>1. /\ EngineOK /\ RequestsOK /\ RowsOrdered /\ RefersToRounds /\ Ahead
        /\ Collected /\ DamageKnown /\ InStep
    BY DEF AInv
  <1>2. /\ round_score' = {w \in round_score : w.number < round_number[a]}
        /\ apc[a] = "scores" /\ apc'[a] = "manifests"
        /\ UNCHANGED <<rounds, checks, incomplete, overrun>>
    BY <1>1 DEF DeleteScores, RequestsOK
  <1>3. /\ RequestsOK' /\ EngineOK'
        /\ \A b \in Admins \ {a} : apc'[b] = apc[b]
        /\ UNCHANGED <<pc, current_round, round_id, last_id, round_number>>
        /\ \A b \in Admins : round_ids'[b] \subseteq round_ids[b]
    BY DeletingStep
  <1>4. RowsOrdered' /\ RefersToRounds' /\ Ahead' /\ InStep'
    BY <1>1, <1>2, <1>3 DEF RowsOrdered, RefersToRounds, Ahead, InStep, Gapless, Position
  <1>5. Collected'
    BY <1>1, <1>2, <1>3 DEF Collected, Deleting
  <1>6. ASSUME NEW r \in rounds, r.closed
        PROVE  Intact(r)' \/ incomplete' \/ Cutting(r)'
    <2>1. CASE r.number >= round_number[a]
      BY <1>2, <1>3, <2>1 DEF Cutting, Deleting
    <2>2. CASE ~(r.number >= round_number[a])
      <3>1. r.number < round_number[a]
        BY <1>1, <2>2 DEF RowsOrdered, RequestsOK
      <3>2. \A w \in round_score : w.round = r.id => w.number = r.number
        BY <1>1 DEF RowsOrdered, RefersToRounds
      <3>3. Untouched(r)
        BY <1>2, <3>1, <3>2 DEF Untouched
      <3>4. Cutting(r) => Cutting(r)'
        BY <1>2, <1>3, <2>2 DEF Cutting
      <3> QED
        BY <1>1, <1>2, <1>6, <3>3, <3>4, UntouchedIntact DEF DamageKnown
    <2> QED
      BY <2>1, <2>2
  <1> QED
    BY <1>2, <1>3, <1>4, <1>5, <1>6 DEF AInv, DamageKnown

\* Deleting the manifests and failing touch no round; a failure is on record.
LEMMA OtherDeletingStep ==
  ASSUME AInv, NEW a \in Admins, DeleteManifests(a) \/ RollbackError(a)
  PROVE  AInv'
  <1>1. /\ EngineOK /\ RequestsOK /\ RowsOrdered /\ RefersToRounds /\ Ahead
        /\ Collected /\ DamageKnown /\ InStep
    BY DEF AInv
  <1>2. UNCHANGED <<rounds, checks, round_score, overrun>>
    BY DEF DeleteManifests, RollbackError, vars, db
  <1>3. /\ RequestsOK' /\ EngineOK' /\ apc[a] \in Deleting
        /\ \A b \in Admins \ {a} : apc'[b] = apc[b]
        /\ UNCHANGED <<pc, current_round, round_id, last_id, round_number>>
        /\ \A b \in Admins : round_ids'[b] \subseteq round_ids[b]
    BY DeletingStep
  <1>4. RowsOrdered' /\ RefersToRounds' /\ NoNewDamage /\ Ahead' /\ InStep'
    BY <1>1, <1>2, <1>3, QuietTables DEF Ahead, InStep, Gapless, Position
  <1>5. Collected'
    BY <1>1, <1>2, <1>3 DEF Collected
  <1>6. incomplete' \/ (UNCHANGED incomplete /\ \A r : Cutting(r) => Cutting(r)')
    <2>1. CASE DeleteManifests(a)
      <3>1. UNCHANGED incomplete /\ apc'[a] = "rounds"
        BY <1>1, <2>1 DEF DeleteManifests, RequestsOK
      <3> QED
        BY <1>3, <3>1 DEF Cutting, Deleting
    <2>2. CASE RollbackError(a)
      BY <2>2 DEF RollbackError
    <2> QED
      BY <2>1, <2>2
  <1>7. DamageKnown'
    BY <1>1, <1>2, <1>4, <1>6 DEF DamageKnown, NoNewDamage
  <1> QED
    BY <1>3, <1>4, <1>5, <1>7 DEF AInv

\* The rows go when nothing refers to them; the damage that this rollback did
\* goes with them.
LEMMA RowsStep ==
  ASSUME AInv, NEW a \in Admins, DeleteRounds(a)
  PROVE  AInv'
  <1> DEFINE n == round_number[a]
             last == LastRoundNum(rounds)
  <1>1. /\ EngineOK /\ RequestsOK /\ RowsOrdered /\ RefersToRounds /\ Ahead
        /\ Collected /\ DamageKnown /\ InStep
    BY DEF AInv
  <1>2. /\ ~Referenced(n) /\ rounds' = rounds \ RowsFrom(n)
        /\ apc[a] = "rounds" /\ apc'[a] = "unpausing"
        /\ overrun' = (overrun \/ pc \in InRound)
        /\ UNCHANGED <<checks, round_score, incomplete>>
    BY <1>1 DEF DeleteRounds, RequestsOK
  <1>3. /\ RequestsOK' /\ EngineOK'
        /\ \A b \in Admins \ {a} : apc'[b] = apc[b]
        /\ UNCHANGED <<pc, current_round, round_id, last_id, round_number>>
        /\ \A b \in Admins : round_ids'[b] \subseteq round_ids[b]
    BY DeletingStep
  <1>4. n \in Nat \ {0}
    BY <1>1 DEF RequestsOK
  <1>5. rounds' = {r \in rounds : r.number < n}
    BY <1>1, <1>2, <1>4 DEF RowsFrom, RowsOrdered
  <1>6. rounds' \subseteq rounds /\ \A r \in rounds' : r.number < n
    BY <1>5
  <1> HIDE DEF n, last
  <1>7. RowsOrdered' /\ Ahead'
    BY <1>1, <1>3, <1>6 DEF RowsOrdered, Ahead
  <1>8. RefersToRounds'
    <2>1. \A r \in rounds : r.id \in IdsFrom(n) \/ r \in rounds'
      BY <1>2 DEF IdsFrom
    <2> QED
      BY <1>1, <1>2, <2>1 DEF RefersToRounds, Referenced
  <1>9. Collected'
    BY <1>1, <1>2, <1>3, <1>6 DEF Collected, Deleting
  <1>10. DamageKnown'
    <2> SUFFICES ASSUME NEW r \in rounds', r.closed
                 PROVE  Intact(r)' \/ incomplete' \/ Cutting(r)'
      BY DEF DamageKnown
    <2>1. r \in rounds /\ Untouched(r)
      BY <1>2, <1>6 DEF Untouched
    <2>2. ~(r.number >= n)
      BY <1>1, <1>4, <1>6, <2>1 DEF RowsOrdered
    <2>3. Cutting(r) => Cutting(r)'
      BY <1>3, <2>2 DEF Cutting, n
    <2> QED
      BY <1>1, <1>2, <2>1, <2>3, UntouchedIntact DEF DamageKnown
  <1>11. InStep'
    <2> SUFFICES ASSUME ~overrun' PROVE Gapless' /\ Position'
      BY DEF InStep
    <2>1. Gapless /\ Position /\ pc \notin InRound
      BY <1>1, <1>2 DEF InStep
    <2>2. last \in Nat /\ Numbers(rounds) = 1..last
      BY <2>1 DEF Gapless, last
    <2>3. Numbers(rounds') = {k \in Numbers(rounds) : k < n}
      BY <1>5 DEF Numbers
    <2>4. PICK m \in Nat : m <= last /\ Numbers(rounds') = {k \in Numbers(rounds) : k <= m}
      <3>1. CASE n <= last
        <4>1. n - 1 \in Nat /\ n - 1 <= last
          BY <1>4, <2>2, <3>1
        <4>2. \A k \in Numbers(rounds) : k < n <=> k <= n - 1
          BY <1>4, <2>2
        <4> QED
          BY <2>3, <4>1, <4>2
      <3>2. CASE ~(n <= last)
        <4>1. \A k \in Numbers(rounds) : k < n /\ k <= last
          BY <1>4, <2>2, <3>2
        <4> QED
          BY <2>2, <2>3, <4>1
      <3> QED
        BY <3>1, <3>2
    <2>5. LastRoundNum(rounds') = m /\ Numbers(rounds') = 1..m
      BY <2>1, <2>4, GapfreeShrinks DEF last
    <2>6. Gapless'
      BY <2>4, <2>5, Zenon DEF Gapless, Numbers, LastRoundNum
    <2>7. Position'
      <3>1. pc' \notin InRound /\ UNCHANGED <<pc, current_round>>
        BY <1>3, <2>1
      <3>2. pc \in {"idle", "landed"} => last <= current_round
        BY <2>1 DEF Position, last
      <3> QED
        BY <1>1, <2>2, <2>4, <2>5, <3>1, <3>2 DEF Position, InRound, InTry, EngineOK
    <2> QED
      BY <2>6, <2>7
  <1> QED
    BY <1>3, <1>7, <1>8, <1>9, <1>10, <1>11 DEF AInv

\* Before the first round and the first request all is in order.
LEMMA InitAdmin == AdminInit => AInv
  <1> SUFFICES ASSUME AdminInit PROVE AInv
    OBVIOUS
  <1>1. /\ rounds = {} /\ checks = {} /\ round_score = {} /\ last_id = 0
        /\ pc = "idle" /\ current_round = 0 /\ round_id = 0
        /\ apc = [a \in Admins |-> "none"]
        /\ round_number = [a \in Admins |-> 1]
        /\ round_ids = [a \in Admins |-> {}]
    BY DEF AdminInit, Init
  <1>2. EngineOK /\ RequestsOK
    BY <1>1 DEF EngineOK, RequestsOK, Alive, Stages
  <1>3. RowsOrdered /\ RefersToRounds /\ Ahead /\ Collected /\ DamageKnown
    BY <1>1 DEF RowsOrdered, RefersToRounds, Ahead, Collected, DamageKnown
  <1>4. Numbers(rounds) = 1..0 /\ LastRoundNum(rounds) = 0
    <2>1. Numbers(rounds) = 1..0
      BY <1>1 DEF Numbers
    <2> QED
      BY <2>1, LastOfInterval
  <1>5. InStep
    BY <1>1, <1>4 DEF InStep, Gapless, Position
  <1> QED
    BY <1>2, <1>3, <1>5 DEF AInv

\* Every step keeps the invariant.
LEMMA AdminStep == AInv /\ [AdminNext]_allVars => AInv'
  <1> SUFFICES ASSUME AInv, [AdminNext]_allVars PROVE AInv'
    OBVIOUS
  <1>1. CASE EngineAlongside
    BY <1>1, EngineKeepsInv
  <1>2. ASSUME NEW a \in Admins, RequestRollback(a) \/ Rollback(a) \/ RequestFails(a)
        PROVE  AInv'
    BY <1>2, WaitingStep, EndingStep, ChecksStep, ScoresStep, OtherDeletingStep, RowsStep
       DEF Rollback
  <1>3. CASE UNCHANGED allVars
    <2>1. /\ UNCHANGED adminVars
          /\ UNCHANGED <<rounds, checks, round_score, last_id, pc, current_round, round_id>>
      BY <1>3 DEF allVars, vars, db, counters
    <2>2. /\ EngineOK /\ RequestsOK /\ RowsOrdered /\ RefersToRounds /\ Ahead
          /\ Collected /\ DamageKnown /\ InStep
      BY DEF AInv
    <2>3. RowsOrdered' /\ RefersToRounds' /\ OldRows /\ NoNewDamage
      BY <2>1, <2>2, QuietTables
    <2>4. RequestsOK' /\ Collected' /\ DamageKnown'
      BY <2>1, <2>2, <2>3, RequestsCarryOn DEF RowsOrdered
    <2>5. EngineOK' /\ Ahead' /\ InStep'
      BY <2>1, <2>2 DEF EngineOK, Ahead, InStep, Gapless, Position, adminVars
    <2> QED
      BY <2>3, <2>4, <2>5 DEF AInv
  <1> QED
    BY <1>1, <1>2, <1>3 DEF AdminNext

-----------------------------------------------------------------------------
(* What follows from the invariant *)

\* With any number of rollbacks at once, at any step of a round, failing at any
\* of their transactions: references are kept, nothing outside the rounds asked
\* for is collected, and every damaged round belongs to a rollback that is still
\* deleting or that failed.
THEOREM AdminInvariance == AdminSpec => []AInv
  <1> QED
    BY InitAdmin, AdminStep, PTL DEF AdminSpec

\* When every rollback has completed, every closed round has one check of each
\* service and its scores are those of its checks.
THEOREM CompletedRollbacksLeaveWhole == AdminSpec => []RollbackLeavesWhole
  <1>1. ASSUME AInv, Quiet PROVE RoundsAreWhole /\ ScoresMatchChecks
    <2>1. RowsOrdered /\ RefersToRounds
      BY <1>1 DEF AInv
    <2>2. \A r \in rounds : r.closed => Intact(r)
      BY <1>1 DEF AInv, DamageKnown, Quiet, Cutting, Deleting
    <2>3. \A r \in rounds : ~r.closed =>
            (\A c \in checks : c.round # r.id) /\ (\A w \in round_score : w.round # r.id)
      <3> SUFFICES ASSUME NEW r \in rounds, ~r.closed
                   PROVE  (\A c \in checks : c.round # r.id) /\ (\A w \in round_score : w.round # r.id)
        OBVIOUS
      <3>1. \A q \in rounds : q.id = r.id => ~q.closed
        BY <2>1 DEF RowsOrdered
      <3> QED
        BY <2>1, <3>1, OpenIsEmpty
    <2>4. ASSUME NEW r \in rounds, NEW s \in Services
          PROVE  Cardinality({c \in checks : c.round = r.id /\ c.service = s})
                   = IF r.closed THEN 1 ELSE 0
      <3> DEFINE C == {c \in checks : c.round = r.id /\ c.service = s}
      <3>1. CASE r.closed
        <4>1. PICK v \in BOOLEAN :
                /\ [round |-> r.id, service |-> s, result |-> v] \in checks
                /\ [round |-> r.id, service |-> s, result |-> ~v] \notin checks
          BY <2>2, <3>1 DEF Intact, CheckedOnce
        <4> DEFINE d == [round |-> r.id, service |-> s, result |-> v]
        <4>2. \A c \in C : c = d
          BY <2>1, <4>1 DEF RefersToRounds, CheckRow
        <4>3. d \in C
          BY <4>1
        <4> HIDE DEF d
        <4>4. C = {d}
          BY <4>2, <4>3
        <4> QED
          BY <3>1, <4>4, FS_Singleton
      <3>2. CASE ~r.closed
        <4>1. C = {}
          BY <2>3, <3>2
        <4> QED
          BY <3>2, <4>1, FS_EmptySet
      <3> QED
        BY <3>1, <3>2
    <2>5. RoundsAreWhole
      BY <2>1, <2>4, Zenon DEF RoundsAreWhole, RefersToRounds
    <2>6. ASSUME NEW r \in rounds
          PROVE  {w \in round_score : w.round = r.id} = RowsFor(r.id, r.number, PassedIn(checks, r.id))
      <3>1. CASE r.closed
        BY <2>2, <3>1 DEF Intact, Scored
      <3>2. CASE ~r.closed
        <4>1. RowsFor(r.id, r.number, PassedIn(checks, r.id)) = {}
          BY <2>3, <3>2, NoChecksNoRows
        <4> QED
          BY <2>3, <3>2, <4>1
      <3> QED
        BY <3>1, <3>2
    <2>7. \A w : w \in round_score <=>
            \E r \in rounds : w \in RowsFor(r.id, r.number, PassedIn(checks, r.id))
      <3> TAKE w
      <3>1. ASSUME w \in round_score
            PROVE  \E r \in rounds : w \in RowsFor(r.id, r.number, PassedIn(checks, r.id))
        <4>1. PICK r \in rounds : r.id = w.round
          BY <2>1, <3>1 DEF RefersToRounds
        <4>2. w \in {x \in round_score : x.round = r.id}
          BY <3>1, <4>1
        <4> QED
          BY <2>6, <4>2, Zenon
      <3> QED
        BY <2>6, <3>1, Zenon
    <2>8. ScoresMatchChecks
      BY <2>7, MaterializedRows, Zenon DEF ScoresMatchChecks
    <2> QED
      BY <2>5, <2>8
  <1>2. AInv => RollbackLeavesWhole
    BY <1>1 DEF RollbackLeavesWhole
  <1> QED
    BY <1>2, AdminInvariance, PTL

\* Unless rounds were deleted while the engine was in one, the numbers stay
\* 1, 2, ... in the order of the ids.
THEOREM NumbersAreResynced == AdminSpec => []ResyncsAfterRollback
  <1>1. AInv => ResyncsAfterRollback
    BY DEF AInv, InStep, Gapless, RowsOrdered, ResyncsAfterRollback, NumbersAreSequential, Numbers
  <1> QED
    BY <1>1, AdminInvariance, PTL

\* A rollback touches nothing of a round before the one it was asked for,
\* although what it deletes checks by was collected in an earlier transaction.
THEOREM EarlierRoundsAreKept == AdminSpec => RollbackKeepsEarlier
  <1>1. ASSUME AInv, [AdminNext]_allVars,
               NEW a \in Admins, apc[a] \in Deleting, ~UNCHANGED <<apc[a], round_ids[a]>>,
               NEW r \in rounds, r.number < round_number[a]
        PROVE  r \in rounds' /\ Untouched(r)
    <2>1. DeleteChecks(a) \/ DeleteScores(a) \/ DeleteManifests(a) \/ DeleteRounds(a)
            \/ RollbackError(a) \/ RequestFails(a)
      <3>1. RequestsOK
        BY <1>1 DEF AInv
      <3>2. \/ UNCHANGED adminVars
            \/ \E b \in Admins : RequestRollback(b) \/ Rollback(b) \/ RequestFails(b)
        BY <1>1 DEF AdminNext, EngineAlongside, allVars
      <3>3. PICK b \in Admins : RequestRollback(b) \/ Rollback(b) \/ RequestFails(b)
        BY <1>1, <3>2 DEF adminVars
      <3>4. /\ \E stage : apc' = [apc EXCEPT ![b] = stage]
            /\ UNCHANGED round_ids \/ \E ids : round_ids' = [round_ids EXCEPT ![b] = ids]
        BY <3>3 DEF RequestRollback, Rollback, PauseEngine, CollectRounds, DeleteChecks,
                    DeleteScores, DeleteManifests, DeleteRounds, RollbackError, Unpause,
                    RequestFails, Ends
      <3>5. b = a
        BY <1>1, <3>1, <3>4 DEF RequestsOK
      <3> QED
        BY <1>1, <3>3, <3>5
           DEF RequestRollback, Rollback, PauseEngine, CollectRounds, Unpause, Deleting
    <2>2. RowsOrdered /\ RefersToRounds /\ Collected /\ RequestsOK
      BY <1>1 DEF AInv
    <2>3. r.number \in Nat /\ round_number[a] \in Nat /\ ~(r.number >= round_number[a])
      BY <1>1, <2>2 DEF RowsOrdered, RequestsOK
    <2>4. CASE DeleteChecks(a)
      <3>1. r.id \notin round_ids[a]
        BY <1>1, <2>2, <2>3 DEF Collected
      <3>2. UNCHANGED <<rounds, round_score>>
        BY <2>4 DEF DeleteChecks
      <3>3. PICK batch \in SUBSET round_ids[a] : checks' = {c \in checks : c.round \notin batch}
        BY <2>4 DEF DeleteChecks, Batches
      <3> QED
        BY <3>1, <3>2, <3>3 DEF Untouched
    <2>5. CASE DeleteScores(a)
      <3>1. \A w \in round_score : w.round = r.id => w.number = r.number
        BY <2>2 DEF RowsOrdered, RefersToRounds
      <3>2. /\ round_score' = {w \in round_score : w.number < round_number[a]}
            /\ UNCHANGED <<rounds, checks>>
        BY <2>5 DEF DeleteScores
      <3> QED
        BY <1>1, <3>1, <3>2 DEF Untouched
    <2>6. CASE DeleteManifests(a) \/ RollbackError(a) \/ RequestFails(a)
      <3>1. UNCHANGED <<rounds, checks, round_score>>
        BY <2>6 DEF DeleteManifests, RollbackError, RequestFails, vars, db
      <3> QED
        BY <3>1 DEF Untouched
    <2>7. CASE DeleteRounds(a)
      BY <2>3, <2>7 DEF DeleteRounds, RowsFrom, Untouched
    <2> QED
      BY <2>1, <2>4, <2>5, <2>6, <2>7
  <1>2. AInv /\ [AdminNext]_allVars =>
          [\A a \in Admins : apc[a] \in Deleting /\ ~UNCHANGED <<apc[a], round_ids[a]>> =>
             \A r \in rounds : r.number < round_number[a] =>
               /\ r \in rounds'
               /\ {c \in checks' : c.round = r.id} = {c \in checks : c.round = r.id}
               /\ {w \in round_score' : w.round = r.id} = {w \in round_score : w.round = r.id}]_allVars
    BY <1>1 DEF Untouched
  <1> QED
    BY <1>2, AdminInvariance, PTL DEF AdminSpec, RollbackKeepsEarlier

=============================================================================

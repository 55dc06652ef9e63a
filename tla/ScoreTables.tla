---------------------------- MODULE ScoreTables ----------------------------
(***************************************************************************)
(* The rows of the scoring database and what scoring_engine/scores.py and  *)
(* scoring_engine/sla.py compute from them.  A table is a set of records:  *)
(*                                                                         *)
(*   rounds       [id, number, closed]        closed: round_end is set     *)
(*   checks       [round, service, result]    round is a rounds.id         *)
(*   round_score  [round, number, team, points]                            *)
(*                                                                         *)
(* Only completed checks are ever stored, so `completed` is not a field,   *)
(* and the engine stores one check per service and round, so a check needs *)
(* no id of its own.                                                       *)
(***************************************************************************)
EXTENDS Naturals, FiniteSets, FiniteSetsExt

CONSTANTS
  Services,   \* the services the engine checks: those with an environment
  Teams,      \* the blue teams
  TeamOf,     \* Service.team_id
  Points      \* Service.points

ASSUME TeamsAssumption  == TeamOf \in [Services -> Teams]
ASSUME PointsAssumption == Points \in [Services -> Nat]
ASSUME ServicesAssumption == IsFiniteSet(Services)

RoundRow(Id)  == [id : Id, number : Id, closed : BOOLEAN]
CheckRow(Id)  == [round : Id, service : Services, result : BOOLEAN]

\* Round.get_last_round_num: 0 on an empty table.
LastRoundNum(R) == Max({0} \cup {r.number : r \in R})

\* The sum of Service.points over a set of services.
Earned(S) == MapThenSumSet(LAMBDA s : Points[s], S)

ScoreRow(Id) ==
  [round : Id, number : Id, team : Teams, points : {Earned(S) : S \in SUBSET Services}]

\* The round_score rows of a round in which `passed` are the services that
\* passed: a team none of whose services passed has no entry in the dict the
\* rows are written from, and an entry of zero points is skipped.
RowsFor(id, number, passed) ==
  LET of(t) == {s \in passed : TeamOf[s] = t}
  IN  {[round |-> id, number |-> number, team |-> t, points |-> Earned(of(t))] :
         t \in {u \in Teams : of(u) # {} /\ Earned(of(u)) # 0}}

\* The services with a passing check in the round of the given id.
PassedIn(C, id) == {s \in Services : [round |-> id, service |-> s, result |-> TRUE] \in C}

\* materialize_all_rounds: round_score rewritten from the checks.
MaterializeAll(R, C) == UNION {RowsFor(r.id, r.number, PassedIn(C, r.id)) : r \in R}

\* _service_consecutive_failures: how many failing checks follow the last pass.
FailingRun(C, s) ==
  {c \in C : /\ c.service = s
             /\ ~c.result
             /\ \A p \in C : p.service = s /\ p.result => p.round < c.round}

ConsecutiveFailures(C, s) == Cardinality(FailingRun(C, s))

=============================================================================

----------------------------- MODULE ScorePages -----------------------------
(***************************************************************************)
(* What the pages compute from the state of Standings.  The same score is  *)
(* computed in several places and in different ways: from the stored sums  *)
(* of a round or from its checks, for all teams at once or for one, live   *)
(* or as of the freeze.  A dict has an entry only for those it has rows    *)
(* of.                                                                     *)
(***************************************************************************)
EXTENDS Standings

CONSTANT ChartPoints    \* LINE_CHART_MAX_POINTS

ASSUME ChartAssumption == ChartPoints \in Nat \ {0, 1}

Entry(dict, x) == IF x \in DOMAIN dict THEN dict[x] ELSE 0

\* The sum of the values of a function.
Total(f) == MapThenSumSet(LAMBDA x : f[x], DOMAIN f)

ServicesOf(t) == {s \in Services : TeamOf[s] = t}

-----------------------------------------------------------------------------
(* Stored sums: scores.py *)

\* Mutant: the freeze is not applied.
ClosedByAny(number, f) == TRUE

\* _round_freeze_filter
ClosedBy(number, f) ==
  f # NotFrozen => \E r \in ClosedRounds : r.number = number /\ r.round_end <= f

RowsBy(f) == {w \in round_score : ClosedBy(w.number, f)}

\* Sums over rows of round_score, each row scaled for itself or as stored, and
\* over adjustments.
ScaledSum(W, c) == Total([w \in W |-> Scaled(w.service_points, w.number, c)])
StoredSum(W)    == Total([w \in W |-> w.service_points])
AwardSum(A)     == Total([a \in A |-> a.points])

Of(t, W) == {w \in W : w.team = t}

\* team_service_scores, and all_team_service_scores: every row of the table.
TeamServiceScores(f) ==
  [t \in {w.team : w \in RowsBy(f)} |-> ScaledSum(Of(t, RowsBy(f)), config)]

AllTeamServiceScores(f) ==
  [t \in {w.team : w \in RowsBy(f)} |-> StoredSum(Of(t, RowsBy(f)))]

\* Team.current_score and team_dynamic_service_score: one team.
CurrentScore(t)     == StoredSum(Of(t, round_score))
TeamDynamicScore(t) == ScaledSum(Of(t, round_score), config)

\* team_adjustment_totals
AdjustmentsBy(f) == {a \in adjustments : f # NotFrozen => a.created_at <= f}

AdjustmentTotals(f) ==
  [t \in {a.team : a \in AdjustmentsBy(f)} |-> AwardSum(Of(t, AdjustmentsBy(f)))]

\* The graded injects the bar chart counts.
InjectTotals(f) ==
  [t \in {u \in Teams : /\ injects_shown /\ injects[u].status = "Graded"
                        /\ f # NotFrozen => injects[u].graded <= f} |-> injects[t].score]

-----------------------------------------------------------------------------
(* Recomputed from the checks: sla.py and the models *)

PassesOf(s)   == {c \in checks : c.service = s /\ c.result}
FailuresOf(s) == {c \in checks : c.service = s /\ ~c.result}

\* get_consecutive_failures
ConsecutiveFailures(s) ==
  Cardinality({c \in FailuresOf(s) : \A p \in PassesOf(s) : p.number < c.number})

\* Service.score_earned and calculate_service_base_score_with_dynamic: every
\* check is scaled for itself.
ScoreEarned(s) == Cardinality(PassesOf(s)) * points[s]

\* Mutant: the sum is scaled, instead of every check.
ServiceBaseOfSum(s) ==
  IF config.dynamic_enabled
  THEN Truncated(Total([c \in PassesOf(s) |-> points[s] * Multiplier(c.number, config)]), Unit)
  ELSE ScoreEarned(s)

ServiceBase(s) ==
  IF config.dynamic_enabled
  THEN Total([c \in PassesOf(s) |-> Scaled(points[s], c.number, config)])
  ELSE ScoreEarned(s)

ServicePenalty(s) ==
  PercentOf(ServiceBase(s), PenaltyPercent(ConsecutiveFailures(s), config))

ServiceAdjusted(s) == Adjusted(ServiceBase(s), ServicePenalty(s), config)

TeamTotalPenalties(t) ==
  IF config.sla_enabled THEN Total([s \in ServicesOf(t) |-> ServicePenalty(s)]) ELSE 0

TeamBase(t) == IF config.dynamic_enabled THEN TeamDynamicScore(t) ELSE CurrentScore(t)

TeamAdjusted(t) == Adjusted(TeamBase(t), TeamTotalPenalties(t), config)

\* get_service_sla_status: what the SLA pages list of a service.
SlaStatus(s) ==
  [consecutive_failures |-> ConsecutiveFailures(s),
   penalty_percent |-> PenaltyPercent(ConsecutiveFailures(s), config),
   penalty_points |-> ServicePenalty(s),
   base_score |-> ServiceBase(s),
   adjusted_score |-> ServiceAdjusted(s),
   sla_violation |-> ConsecutiveFailures(s) >= config.penalty_threshold]

\* get_team_sla_summary
SlaSummary(t) ==
  [base_score |-> TeamBase(t), total_penalties |-> TeamTotalPenalties(t),
   adjusted_score |-> TeamAdjusted(t),
   violations |-> Cardinality({s \in ServicesOf(t) : SlaStatus(s).sla_violation}),
   services |-> [s \in ServicesOf(t) |-> SlaStatus(s)]]

-----------------------------------------------------------------------------
(* All penalties at once: scores.py *)

\* Mutant: the rounds from the late start on count as late even if early.
BucketedLateFirst(s) ==
  LET in(P(_)) == Cardinality({c \in PassesOf(s) : P(c.number)})
      early == config.early_rounds
      late == config.late_start_round
      at(m) == IntProduct(points[s], m, Unit)
  IN  in(LAMBDA n : n <= early) * at(config.early_multiplier)
      + in(LAMBDA n : n > early /\ n < late) * points[s]
      + in(LAMBDA n : n >= late) * at(config.late_multiplier)

\* _service_base_scores: the passing checks are counted in three buckets, and
\* each count multiplied by what one check of the bucket is worth.
Bucketed(s) ==
  LET in(P(_)) == Cardinality({c \in PassesOf(s) : P(c.number)})
      early == config.early_rounds
      late == config.late_start_round
      at(m) == IntProduct(points[s], m, Unit)
  IN  in(LAMBDA n : n <= early) * at(config.early_multiplier)
      + in(LAMBDA n : n > early /\ n < late) * points[s]
      + in(LAMBDA n : n > early /\ n >= late) * at(config.late_multiplier)

BatchedBase(s) == IF config.dynamic_enabled THEN Bucketed(s) ELSE ScoreEarned(s)

\* team_penalties: only the services over the threshold by the cached count.
TeamPenalties ==
  LET percent(s) == PenaltyPercent(failures[s], config)
      penalty(s) == PercentOf(BatchedBase(s), percent(s))
      charged == {s \in Services : percent(s) > 0 /\ penalty(s) # 0}
  IN  [t \in {TeamOf[s] : s \in charged} |->
         Total([s \in {x \in charged : TeamOf[x] = t} |-> penalty(s)])]

-----------------------------------------------------------------------------
(* The pages *)

\* The freeze a viewer sees: get_effective_freeze.
EffectiveFreeze(white) == IF white THEN NotFrozen ELSE freeze

\* _get_bar_data_cached
Bar(t, white) ==
  LET f == EffectiveFreeze(white)
      raw == Entry(TeamServiceScores(f), t)
      service == Weighted(raw, config.service_weight, config)
      inject == Weighted(Entry(InjectTotals(f), t), config.inject_weight, config)
      adjustment == Entry(AdjustmentTotals(f), t)
      penalty == IF config.sla_enabled THEN Entry(TeamPenalties, t) ELSE 0
      total == service + inject + adjustment
  IN  [raw_service |-> raw, service |-> service, inject |-> inject,
       adjustment |-> adjustment, penalty |-> penalty,
       adjusted |-> IF config.sla_enabled THEN Adjusted(total, penalty, config) ELSE total]

\* _get_line_data_cached: a round without a row carries the total on.
Line(t, white) ==
  LET f == EffectiveFreeze(white)
      rows == Of(t, RowsBy(f))
  IN  [n \in Sample(LastRound + 1, ChartPoints) |->
         ScaledSum({w \in rows : w.number <= n}, config)]

\* Team.get_array_of_scores, of the chart on the statistics page.
ArrayOfScores(t) ==
  [n \in 0..LastRound |-> StoredSum({w \in Of(t, round_score) : w.number <= n})]

\* overview_get_data: the scores, by whose Ranks the teams are placed.
OverviewScores(white) ==
  LET base == TeamServiceScores(EffectiveFreeze(white))
  IN  IF config.sla_enabled
      THEN [t \in Teams |-> Adjusted(Entry(base, t), Entry(TeamPenalties, t), config)]
      ELSE base

\* The checks of the last round: the overview's table and the team's page.
LastResults(t) == {c \in checks : c.number = LastRound /\ TeamOf[c.service] = t}

\* The overview's rows "Services Up" and "Services Down".
UpDown(t) ==
  [up |-> Cardinality({c \in LastResults(t) : c.result}),
   down |-> Cardinality({c \in LastResults(t) : ~c.result})]

\* services_get_team_data: Team.place is 1 for a team without a row.
TeamPlace(t) ==
  LET scores == AllTeamServiceScores(NotFrozen)
  IN  IF t \in DOMAIN scores THEN Ranks(scores)[t] ELSE 1

\* api_services: what a service of a team has earned, by name and team.
EarnedAs(name, t) ==
  LET passing == {c \in checks : /\ c.result
                                 /\ TeamOf[c.service] = t /\ NameOf[c.service] = name}
  IN  Total([c \in passing |-> Scaled(points[c.service], c.number, config)])

\* _build_response: how often the services of a name were up and down.
Breakdown(name, n, T) ==
  LET of(result) == {c \in checks : /\ c.number = n /\ c.result = result
                                    /\ NameOf[c.service] = name /\ TeamOf[c.service] \in T}
  IN  [up |-> Cardinality(of(TRUE)), down |-> Cardinality(of(FALSE))]

Summary(name, T) ==
  [up |-> Total([n \in 1..LastRound |-> Breakdown(name, n, T).up]),
   down |-> Total([n \in 1..LastRound |-> Breakdown(name, n, T).down])]

\* service_get_checks: each check, with the penalty of the failures before it.
CheckEarned(c) ==
  LET since == {d \in FailuresOf(c.service) :
                  /\ d.number < c.number
                  /\ \A p \in PassesOf(c.service) : p.number < c.number => p.number < d.number}
      base == Scaled(points[c.service], c.number, config)
  IN  IF ~c.result THEN 0
      ELSE Truncated(base * (100 - PenaltyPercent(Cardinality(since), config)), 100)

\* Team.current_inject_score
CurrentInjectScore(t) == IF injects[t].status = "Graded" THEN injects[t].score ELSE 0

\* api_stats_scoring_overview: the sums of the rounds, from the checks, and the
\* scores of the injects, whatever their status.
ScoringOverview(t) ==
  LET passed(n) == {c \in checks : c.number = n /\ c.result /\ TeamOf[c.service] = t}
      round(n) == Total([c \in passed(n) |-> points[c.service]])
      base == Total([n \in 1..LastRound |-> Scaled(round(n), n, config)])
  IN  [service |-> IF config.sla_enabled
                   THEN Adjusted(base, TeamTotalPenalties(t), config) ELSE base,
       inject |-> injects[t].score]


(***************************************************************************)
(* Correctness                                                             *)
(***************************************************************************)

\* What team_penalties says of itself: it charges a team what the sum over its
\* services does, although it counts no failures, skips services and scales
\* buckets of checks; for teams whose checks were not changed by hand.
PenaltiesAgree ==
  \A t \in Teams : ServicesOf(t) \cap tampered = {} =>
    Entry(TeamPenalties, t) = TeamTotalPenalties(t)

\* The rounds of a team that earned it one point less than they should have.
ShortRounds(t) ==
  {w \in Of(t, round_score) :
     <<w.service_points, Multiplier(w.number, config), Unit>> \in FallsShort}

\* Without negative scores, and capped at 100 percent, the penalties of a team,
\* taken from sums of scaled and truncated checks, exceed what it earned, a sum
\* of scaled and truncated rounds, by no more than one point for each round
\* whose float product fell short of a whole number; and by none otherwise.
PenaltiesWithinBase ==
  ~config.allow_negative /\ config.penalty_max_percent <= 100 /\ ~repriced =>
    \A t \in Teams : Entry(TeamPenalties, t) <= TeamBase(t) + Cardinality(ShortRounds(t))

\* Every place shown is one more than the number of teams that are strictly
\* better, on the overview and, by raw scores, on a team's own page.
PlacesAgree ==
  LET scores == OverviewScores(TRUE)
      places == Ranks(scores)
  IN  \A t \in DOMAIN places :
        /\ places[t] = Place(scores, t)
        /\ ~config.sla_enabled /\ ~config.dynamic_enabled => TeamPlace(t) = places[t]

\* The line chart ends, with no more points than allowed, at the last round
\* and at the score of the bar chart, for every viewer
\* (without a freeze, all see what the white team sees).
LineMeetsBar ==
  \A t \in Teams, white \in {TRUE, freeze = NotFrozen} :
    LET line == Line(t, white)
        all  == ArrayOfScores(t)
    IN  /\ Cardinality(DOMAIN line) <= ChartPoints
        /\ LastRound \in DOMAIN line
        /\ line[LastRound] = Bar(t, white).raw_service
        /\ white /\ ~config.dynamic_enabled => \A n \in DOMAIN line : line[n] = all[n]

\* The white team's statistics, from the checks, give each team the score that
\* the overview takes from the stored sums, unless an administrator changed
\* points or checks of finished rounds; and the last round the overview counts
\* is the last of the statistics.
StatisticsAgree ==
  \A t \in Teams :
    /\ ~repriced /\ ServicesOf(t) \cap tampered = {} =>
         ScoringOverview(t).service = Entry(OverviewScores(TRUE), t)
    /\ injects[t].status = "Graded" => ScoringOverview(t).inject = CurrentInjectScore(t)
    /\ UpDown(t).up = Total([name \in {NameOf[s] : s \in Services} |->
                                Breakdown(name, LastRound, {t}).up])

\* A service has earned the same on its team's page, on its own page check by
\* check, and on the SLA page.
ServicePagesAgree ==
  \A s \in Services :
    LET status  == SlaStatus(s)
        summary == Summary(NameOf[s], {TeamOf[s]})
    IN  /\ EarnedAs(NameOf[s], TeamOf[s]) = status.base_score
        /\ ~config.sla_enabled =>
             Total([c \in PassesOf(s) \cup FailuresOf(s) |-> CheckEarned(c)]) = status.base_score
        /\ status.adjusted_score <= status.base_score
        /\ summary.up * points[s] = ScoreEarned(s)
        /\ summary.down >= status.consecutive_failures

\* What the round being closed is worth to a team, if this step lands it and it
\* was stamped by the freeze.
LandsUnderFreeze(t) ==
  LET late == {r \in closing : ClosedRow(r) \in rounds' /\ r.round_end <= freeze}
  IN  Total([r \in late |-> Scaled(r.earned[t], r.number, config)])

\* What get_effective_freeze says: once the freeze has passed, no step of the
\* engine, and no adjustment, changes the service scores or the adjustments
\* anyone but the white team sees.  There is one exception, and it adds no more
\* than is its own: a round stamped by the freeze whose commit comes after it.
FrozenScoresStay ==
  [][/\ freeze # NotFrozen /\ freeze < now /\ freeze' = freeze
     /\ config' = config /\ ClosedRounds \subseteq rounds'
     => \A t \in Teams :
          /\ Bar(t, FALSE)'.raw_service = Bar(t, FALSE).raw_service + LandsUnderFreeze(t)
          /\ LandsUnderFreeze(t) = 0 => Bar(t, FALSE)'.service = Bar(t, FALSE).service
          /\ Bar(t, FALSE)'.adjustment = Bar(t, FALSE).adjustment]_vars

=============================================================================

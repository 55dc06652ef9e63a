----------------------------- MODULE Standings -----------------------------
(***************************************************************************)
(* What the standings are computed from, and every operation that changes  *)
(* it while rounds are being scored: the settings of web/views/api/sla.py, *)
(* the weights, adjustments, freeze, points and corrections of             *)
(* web/views/api/admin.py, and the grading of injects.  ScorePages reads   *)
(* this state.                                                             *)
(*                                                                         *)
(* Each operation is one transaction and one step here; Engine, Admin and  *)
(* Injects take the same operations apart.  A round takes two, since it is *)
(* stamped well before its commit.  A round has one check of every         *)
(* service, a team one inject.                                             *)
(***************************************************************************)
EXTENDS Sla

CONSTANTS
  Services, Teams, TeamOf,
  NameOf,        \* Service.name: the same service of different teams
  StartPoints,   \* Service.points at the start
  Outcomes,      \* the sets of services that may pass in a round
  Configs,       \* the configurations a competition may start with
  Values,        \* what an administrator may enter for each setting
  Weights,       \* and for the three weights together
  PointValues,   \* what may be entered for the points of a service
  Awards,        \* the points of an adjustment
  InjectScores,  \* the score of a graded inject
  MaxRounds, MaxTime, MaxChanges   \* bounds: rounds, clock, operations of the administrator

\* The settings that are numbers, but for the weights.
Numbers ==
  {"penalty_threshold", "penalty_percent", "penalty_max_percent", "early_rounds",
   "early_multiplier", "late_start_round", "late_multiplier"}

\* A competition file whose team has two services of one name is refused.
ASSUME StandingsAssumption ==
  /\ IsFiniteSet(Services) /\ IsFiniteSet(Teams)
  /\ TeamOf \in [Services -> Teams]
  /\ \A r, s \in Services : TeamOf[r] = TeamOf[s] /\ NameOf[r] = NameOf[s] => r = s
  /\ \A name \in Numbers : Values[name] \subseteq Int
  /\ StartPoints \in [Services -> Nat] /\ Outcomes \subseteq SUBSET Services
  /\ Configs \subseteq SLAConfig
  /\ Weights \subseteq [1..3 -> Int]
  /\ PointValues \subseteq Nat /\ Awards \subseteq Int /\ InjectScores \subseteq Nat
  /\ MaxRounds \in Nat /\ MaxTime \in Nat \ {0} /\ MaxChanges \in Nat

VARIABLES
  now,
  rounds,        \* [number, round_end], round_end = Open until the round is closed
  closing,       \* the round the engine is about to commit, if any: what has
                 \* passed, what that earned each team, and its stamp
  checks,        \* [number, service, result]
  round_score,   \* [number, team, service_points]
  failures,      \* Service.consecutive_failures_cache
  points,        \* Service.points
  config,
  injects_shown, \* inject_scores_visible
  adjustments,   \* score_adjustment: [id, team, points, created_at]
  injects,       \* the inject of a team: [status, score, graded]
  freeze,        \* scoreboard_freeze_time, or NotFrozen
  changes,
  tampered,      \* history: services with checks changed by hand since their last pass
  repriced       \* history: the points or the checks of finished rounds were changed

tables   == <<rounds, checks, round_score, failures>>
settings == <<config, injects_shown, freeze>>
history  == <<tampered, repriced>>
vars == <<now, closing, tables, points, settings, adjustments, injects, changes, history>>

NotFrozen == 0
Open      == 0    \* round_end is NULL

ClosedRounds == {r \in rounds : r.round_end # Open}

\* Round.get_last_round_num, which counts an open round as well.
LastRound == Max({0} \cup {r.number : r \in rounds})

-----------------------------------------------------------------------------
(* The engine closes a round *)

EarnedBy(t, passed) ==
  MapThenSumSet(LAMBDA s : points[s], {s \in passed : TeamOf[s] = t})

\* Mutant: the last streak goes on.
CountsWithoutReset(passed) == [s \in Services |-> failures[s] + (IF s \in passed THEN 0 ELSE 1)]

\* apply_consecutive_failures
Counts(passed) == [s \in Services |-> IF s \in passed THEN 0 ELSE failures[s] + 1]

OpenRow(r)   == [number |-> r.number, round_end |-> Open]
ClosedRow(r) == [number |-> r.number, round_end |-> r.round_end]

\* The row of the round is committed, the results are gone through, and the
\* round is stamped.
OpenRound(passed) ==
  /\ closing = {} /\ LastRound < MaxRounds
  /\ closing' = {[number |-> LastRound + 1, passed |-> passed,
                  earned |-> [t \in Teams |-> EarnedBy(t, passed)], round_end |-> now]}
  /\ rounds' = rounds \cup {OpenRow(r) : r \in closing'}
  /\ UNCHANGED <<now, checks, round_score, failures, points, settings, adjustments,
                 injects, changes, history>>

\* The closing commit, for which the row must still be there.
CloseRound ==
  \E r \in closing :
    /\ OpenRow(r) \in rounds
    /\ rounds' = (rounds \ {OpenRow(r)}) \cup {ClosedRow(r)}
    /\ checks' = checks \cup
         {[number |-> r.number, service |-> s, result |-> s \in r.passed] : s \in Services}
    /\ round_score' = round_score \cup
         {[number |-> r.number, team |-> t, service_points |-> r.earned[t]] :
            t \in {u \in Teams : r.earned[u] # 0}}
    /\ failures' = Counts(r.passed)
    /\ tampered' = tampered \ r.passed
    /\ closing' = {}
    /\ UNCHANGED <<now, points, settings, adjustments, injects, changes, repriced>>

\* The commit fails, or its row is gone, and the clean-up removes what there is
\* of the round; or the engine dies, and the row stays.
FailRound ==
  /\ closing # {} /\ closing' = {}
  /\ rounds' \in {rounds, rounds \ {OpenRow(r) : r \in closing}}
  /\ UNCHANGED <<now, checks, round_score, failures, points, settings, adjustments,
                 injects, changes, history>>

Tick ==
  /\ now < MaxTime /\ now' = now + 1
  /\ UNCHANGED <<closing, tables, points, settings, adjustments, injects, changes, history>>

-----------------------------------------------------------------------------
(* The settings *)

Change == changes < MaxChanges /\ changes' = changes + 1

Configure(c) ==
  /\ Change /\ config' = c
  /\ UNCHANGED <<now, closing, tables, points, injects_shown, freeze, adjustments, injects, history>>

Toggle(name) == Configure([config EXCEPT ![name] = ~@])

\* The forms refuse anything below one; a multiplier must be above zero.
Accepted(v) == v > 0

\* _update_setting
Enter(name) ==
  \E v \in Values[name] : Accepted(v) /\ Configure([config EXCEPT ![name] = v])

UpdateSlaEnabled      == Toggle("sla_enabled")
UpdateAllowNegative   == Toggle("allow_negative")
UpdateDynamicEnabled  == Toggle("dynamic_enabled")
UpdateThreshold       == Enter("penalty_threshold")
UpdatePercent         == Enter("penalty_percent")
UpdateMaxPercent      == Enter("penalty_max_percent")
UpdateEarlyRounds     == Enter("early_rounds")
UpdateEarlyMultiplier == Enter("early_multiplier")
UpdateLateStart       == Enter("late_start_round")
UpdateLateMultiplier  == Enter("late_multiplier")

UpdatePenaltyMode ==
  \E m \in Values["penalty_mode"] \cap Modes : Configure([config EXCEPT !["penalty_mode"] = m])

WeightNames == <<"service_weight", "inject_weight", "flag_weight">>

\* admin_set_weighted_scoring: each field is written as soon as it is found
\* good, so those before a bad one stay.
SetWeightedScoring ==
  \E enabled \in BOOLEAN, asked \in Weights :
    LET good(i) == \A j \in 1..i : asked[j] >= 0
        written == [config EXCEPT !["weighted_scoring_enabled"] = enabled]
    IN  Configure([name \in DOMAIN written |->
          IF \E i \in 1..3 : WeightNames[i] = name /\ good(i)
          THEN asked[CHOOSE i \in 1..3 : WeightNames[i] = name]
          ELSE written[name]])

ToggleInjectScoresVisible ==
  /\ Change /\ injects_shown' = ~injects_shown
  /\ UNCHANGED <<now, closing, tables, points, config, freeze, adjustments, injects, history>>

\* admin_set_freeze: any instant, past or future, or none.
SetFreeze ==
  /\ Change /\ freeze' \in {NotFrozen} \cup 1..MaxTime
  /\ UNCHANGED <<now, closing, tables, points, config, injects_shown, adjustments, injects, history>>

UpdateSettings ==
  \/ UpdateSlaEnabled \/ UpdateAllowNegative \/ UpdateDynamicEnabled
  \/ UpdateThreshold \/ UpdatePercent \/ UpdateMaxPercent \/ UpdatePenaltyMode
  \/ UpdateEarlyRounds \/ UpdateEarlyMultiplier \/ UpdateLateStart \/ UpdateLateMultiplier
  \/ SetWeightedScoring \/ ToggleInjectScoresVisible \/ SetFreeze

-----------------------------------------------------------------------------
(* Points, corrections, adjustments and grades *)

\* admin_update_points: nothing that was stored follows.
UpdatePoints(s) ==
  /\ Change
  /\ \E p \in PointValues : points' = [points EXCEPT ![s] = p]
  /\ repriced' = (repriced \/ rounds # {})
  /\ UNCHANGED <<now, closing, tables, settings, adjustments, injects, tampered>>

\* admin_update_check: neither scores nor counts follow.
UpdateCheck(c) ==
  /\ Change
  /\ checks' = (checks \ {c}) \cup {[c EXCEPT !.result = ~c.result]}
  /\ tampered' = tampered \cup {c.service}
  /\ repriced' = TRUE
  /\ UNCHANGED <<now, closing, rounds, round_score, failures, points, settings, adjustments, injects>>

\* Mutant: the scores of deleted rounds are kept.
ScoresBeforeAll(n) == round_score

ScoresBefore(n) == {w \in round_score : w.number < n}

\* admin_rollback: the rounds from n on go with their checks and scores; the
\* counts stay.
Rollback(n) ==
  /\ Change
  /\ rounds' = {r \in rounds : r.number < n}
  /\ checks' = {c \in checks : c.number < n}
  /\ round_score' = ScoresBefore(n)
  /\ tampered' = Services
  /\ UNCHANGED <<now, closing, failures, points, settings, adjustments, injects, repriced>>

\* admin_create_adjustment
Adjust(t) ==
  /\ Change
  /\ \E p \in Awards :
       adjustments' = adjustments \cup
         {[id |-> Cardinality(adjustments) + 1, team |-> t, points |-> p, created_at |-> now]}
  /\ UNCHANGED <<now, closing, tables, points, settings, injects, history>>

Grade(t) ==
  /\ Change
  /\ \E x \in InjectScores :
       injects' = [injects EXCEPT ![t] = [status |-> "Graded", score |-> x, graded |-> now]]
  /\ UNCHANGED <<now, closing, tables, points, settings, adjustments, history>>

\* The scores stay, the time does not.
Reopen(t) ==
  /\ Change
  /\ injects[t].status = "Graded"
  /\ injects' = [injects EXCEPT ![t].status = "Submitted", ![t].graded = 0]
  /\ UNCHANGED <<now, closing, tables, points, settings, adjustments, history>>

ChangeRecords ==
  \/ \E s \in Services : UpdatePoints(s)
  \/ \E c \in checks : UpdateCheck(c)
  \/ \E n \in 1..LastRound : Rollback(n)
  \/ \E t \in Teams : Adjust(t) \/ Grade(t) \/ Reopen(t)

-----------------------------------------------------------------------------

Init ==
  /\ now = 1
  /\ rounds = {} /\ closing = {} /\ checks = {} /\ round_score = {}
  /\ failures = [s \in Services |-> 0]
  /\ points = StartPoints
  /\ config \in Configs /\ injects_shown = TRUE /\ freeze = NotFrozen
  /\ adjustments = {}
  /\ injects = [t \in Teams |-> [status |-> "Submitted", score |-> 0, graded |-> 0]]
  /\ changes = 0 /\ tampered = {} /\ repriced = FALSE

\* The bound of the model.
AtBound == closing = {} /\ now = MaxTime /\ LastRound = MaxRounds /\ changes = MaxChanges

Next ==
  \/ \E passed \in Outcomes : OpenRound(passed)
  \/ CloseRound \/ FailRound
  \/ Tick
  \/ UpdateSettings
  \/ ChangeRecords
  \/ AtBound /\ UNCHANGED vars

Spec == Init /\ [][Next]_vars

=============================================================================

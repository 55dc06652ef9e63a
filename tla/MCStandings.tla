---------------------------- MODULE MCStandings ----------------------------
(* The instances of ScorePages that TLC checks: two teams with a web server, *)
(* one of which also has a mail server.                                      *)
EXTENDS ScorePages

CONSTANTS web1, mail1, web2, t1, t2

OfTeam == [s \in Services |-> IF s = web2 THEN t2 ELSE t1]
Named  == [s \in Services |-> IF s = mail1 THEN "mail" ELSE "web"]
Worth  == [s \in Services |-> IF s = mail1 THEN 5 ELSE 20]

\* None, all, all of a team, and a tie.
MayPass == {{}, Services, {web1, mail1}, {web1, web2}}

\* The products that are met with and not exact in binary: 25 * 4.6 and
\* 50 * 1.15 come out below, 50 * 1.09 above.
Short == {<<25, 460, 100>>, <<50, 115, 100>>}
Above == {<<50, 109, 100>>}

\* Multipliers of 4.6 and 0.3.
Starts ==
  {[sla_enabled |-> TRUE, allow_negative |-> FALSE, penalty_mode |-> "additive",
    penalty_threshold |-> 1, penalty_percent |-> 50, penalty_max_percent |-> 100,
    dynamic_enabled |-> TRUE, early_rounds |-> 1, early_multiplier |-> 460,
    late_start_round |-> 3, late_multiplier |-> 30,
    weighted_scoring_enabled |-> FALSE,
    service_weight |-> 100, inject_weight |-> 100, flag_weight |-> 100]}

\* Zero is refused.
Entered ==
  [penalty_threshold |-> {0, 2}, penalty_percent |-> {0, 100}, penalty_max_percent |-> {0, 50},
   early_rounds |-> {0, 2}, early_multiplier |-> {0, 150}, late_start_round |-> {0, 1},
   late_multiplier |-> {0, 50}, penalty_mode |-> Modes \cup {"none"}]

\* The request is refused at its third weight.
Asked == {<<109, 115, -1>>}

=============================================================================

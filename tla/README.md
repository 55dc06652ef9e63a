# TLA+ models of the scoring engine

This directory holds TLA+ specifications of the scoring engine, the TLC
configurations that check them on small instances, and TLAPS proofs of what
matters most for every instance. The models are translated from the code in
`src/scoring_engine`; the `map` in `PROJECT.json` gives the lines behind every
definition, `hazards` the places where the code is hard to test.

## 1. The system

The scoring engine runs red/blue team competitions: it probes every service of
every blue team once a round, stores the outcome, and shows standings. Six kinds
of process share a MySQL (MariaDB) database and a Redis server:

| process | code | what it does |
| --- | --- | --- |
| engine | `engine/engine.py`, `bin/engine` | the round loop: dispatches one task per service, waits, stores the round |
| worker | `engine/execute_command.py`, `celery_app.py`, `bin/worker` | Celery worker: runs one check command, stores the result in Redis |
| web | `web/`, `bin/web` | Flask application: scoreboard, overview, team pages, injects, admin pages and API |
| SSE server | `sse_server.py`, `events.py` | pushes events from Redis pub/sub to browsers |
| agents | external, talk to `web/views/api/agent.py` | run on team hosts, are given flags to look for, report captures |
| supervisor | `docker-compose.yml` | restarts a process that exits with a failure |

### 1.1 Components

State, operations, interactions, what is hard, and what makes it correct.

**Engine round loop** (`engine/engine.py`). State: `current_round`, `rounds_run`,
`last_round`, `consecutive_round_failures`, the task ids and harvested results of
the round, the rows it writes. Operations: the loop body of `run` (pause and
schedule gates, number re-sync, dispatch, manifest, polling, round row, results,
closing commit), `_cleanup_failed_round`, `shutdown`. Talks to Celery (dispatch,
results, revoke), the database (three transactions a round), the settings cache
and the web caches. Hard: three separate commits, each of which may fail before or
after taking effect; results that are late, missing, expired or of an earlier
round; the process dying anywhere; numbers reused after a round is backed out.
Correct when rounds land whole or not at all, scores and failure counts always
match the stored checks, numbering has no gaps, finished rounds are never touched,
and a round always ends.

**Score tables** (`scores.py`, `models/round.py`, `check.py`, `round_score.py`, `kb.py`,
`service.py`). State: the tables. Operations: `materialize_round`,
`materialize_all_rounds`, `apply_consecutive_failures`,
`recompute_consecutive_failures_cache`, and the readers, live or as of a freeze.
Hard: two materialized copies (`round_score`, `consecutive_failures_cache`) of
what the checks say, kept in step by every writer by hand. Correct when each copy
equals its recomputation.

**Admin: rollback and edits** (`web/views/api/admin.py`). Operations that write the
tables the engine owns: rollback (pause, wait five seconds, delete in several transactions,
unpause), check edits, point edits, adjustments. Hard: they run in other processes,
between any two steps of a round, of one another, and in pieces. Correct when
afterwards the tables are what they would have been had the removed rounds never run.

**Settings and their cache** (`models/setting.py`). State: one row per setting, a copy of
each in Redis with a 60-second lifetime. Operations: `get_setting` (read-through),
`clear_cache`, the admin's toggles (read, negate, commit, clear) and setters. Hard: a
reader that loaded the row before a commit refills the cache after it; two toggles that
both read before either writes. Correct when the engine sees a pause soon, and when a
write is never lost.

**Competition schedule and scoreboard freeze** (`schedule.py`, `scores.py:get_freeze_time`,
`models/competition_window.py`, window endpoints of `admin.py`). State: windows with
start, end and enabled flag, a copy of the list in Redis; the manual freeze time; pages
computed from the freeze. Operations: create (the end must lie after the start; windows may
overlap), toggle and delete a window, set and clear the freeze, `engine_should_run`,
`window_derived_freeze`. Hard: boundaries, rounds in flight at a window's end, a stale
copy of the list or of a page. Correct when rounds start inside of windows only, and when
the public sees, between windows, the standing at the end of the last one.

**SLA penalties, multipliers and ranks** (`sla.py`, `scores.py:team_penalties`,
`web/views/api/sla.py`, `models/team.py`, `models/score_adjustment.py`). Consecutive
failures over a threshold cost a percentage of the points; dynamic multipliers by phase;
weights; manual adjustments; ranks with ties. Hard: caps, modes, truncation, and the same
number computed in several ways that must agree while an administrator changes the
settings in between rounds.

**Standings pages** (`web/views/api/scoreboard.py`, `overview.py`, `team.py`, `service.py`,
`stats.py`). Readers of all of the above, each with its own query. Correct when they
agree with one another, and when a freeze hides what came after it.

**Injects** (`web/views/api/injects.py`, inject part of `admin.py`, `models/inject.py`).
State: a template per task with scores per rubric item, an inject per team with
a status (`Draft`, `Submitted`, `Revision Requested`, `Resubmitted`, `Graded`), rubric scores,
comments and files. Operations: upload, delete a file, submit, resubmit, request revision,
grade, reopen, comment, edit the rubric. Hard: team and grader act at the same time on a
status each read earlier. Correct when an inject moves only along its workflow, its scores
are of one grade, and what was handed in stays.

**Inject answers in the cache** (`cache.py`, `cache_helper.py`, cached views of
`injects.py`). State: cached responses by key. Operations: read-through per view, deletion
after a write or at the end of a round. Hard: a slow request refills an entry after it was
deleted; a key that is deleted is not the one stored.

**Agent check-in and flags** (`web/views/api/agent.py`, `flags.py`, `models/flag.py`,
`scores.py:flag_points_by_team`). An agent reports flags it found and is given the next.
State: flags with an active time, solves with a uniqueness constraint, the last check-in of
each host. Hard: the same solve reported twice or by two requests at once, answers lost,
hosts of the same name, flags worth points only when not dummies. Correct when a capture
counts once, and the grid shows offline hosts as offline.

**Event delivery** (`events.py`, `sse_server.py`, `cache_helper.py`,
`web/static/vendor/js/sse.js`, the proxy configuration). A publisher writes to a Redis channel;
one listener thread fans out to bounded queues of streams; the browser reconnects, gives up
or polls, and asks for a cached answer at every event. Hard: every link loses events; caches
are cleared beside it. Correct when an open page comes to show what there is to show.

**Announcements** (`models/announcement.py`, `web/views/api/announcements.py`). Plain rows
with an audience; what is hard about them is how a change reaches an open page.

**Others**, not modelled (section 6): check execution, notifications, users and authentication,
health and Celery statistics, competition set-up (`competition.py`, `config_loader.py`),
rendering, migrations and entry points.

## 2. The modules

| module | models | extends |
| --- | --- | --- |
| `ScoreTables` | the tables the scores live in, and what is computed from them | |
| `Scoreboard` | abstract: what the engine promises the readers of the scores | `ScoreTables` |
| `Engine` | the round loop, its transactions, its failures, its supervisor | `ScoreTables`; instantiates `Scoreboard` |
| `Admin` | rollback, running beside the engine | `Engine` |
| `Sla` | the arithmetic: penalties, multipliers, weights, ranks, chart points | |
| `Standings` | what the standings are computed from, and every operation that changes it | `Sla` |
| `ScorePages` | what the pages compute from it, each in its own way | `Standings` |
| `Schedule` | windows, the gate of the engine, the freeze, copies of both, a cached page | |
| `SettingCache` | one setting, its copy in Redis, its readers and writers | |
| `Injects` | one team's inject under concurrent requests | |
| `InjectCache` | the cached answers about an inject and their deletion | |
| `Flags` | check-ins of agents, captures, their score and pages | |
| `Delivery` | events from the engine to open pages, and the answers they ask for | |
| `Sums` | nothing of the code: lemmas about sums over finite sets, for the proofs | |
| `MC...` | the values and symmetries of the instances that TLC checks | the module |
| `..._proofs` | theorems for all values of the constants (section 4) | the module |

Composition: `Admin` runs the whole of `Engine` beside the rollbacks. `Delivery` contains the end
of a round, the cached answer and the stream together; `Schedule` the gate, the round in flight and the
public's page. `Standings` takes a round in two steps, its stamp and its closing commit: that what is stored
lands in one is what the refinement from `Engine` to `Scoreboard` says.

An action is a step that nothing else can see the inside of: a transaction, a Redis
command, or a stretch of computation on values read before. Where the code reads,
computes and then commits, the model has one action that reads and one that commits, and
keeps what was read. In comments, `Mutant` marks a variant of the definition below it, as a
plausible slip in the code would leave it; no specification uses these variants. The runs were
repeated with each in place of the definition it varies, and the property named in
`PROJECT.json` was violated each time.

### 2.1 `ScoreTables`, `Engine` and `Scoreboard`

| state | code |
| --- | --- |
| `rounds`, `checks`, `round_score`, `kb`, `failure_cache`, `last_id` | tables `rounds`, `checks`, `round_score`, `kb`, column `services.consecutive_failures_cache`, the auto-increment of `rounds.id` |
| `closed` of a round | `round_end` is not NULL |
| `pc` | the place in `Engine.run`: `idle` is the loop head, `manifest`, `polling`, `opening`, `collecting`, `closing` are inside the `try` block, `cleanup` is `_cleanup_failed_round`, `landed` is after the closing commit; `down`, `exited` and `finished` are ends of the process |
| `task_metas` | the results harvested so far in this round |
| `task`, `expired` | the Celery result backend |
| `paused` | `engine_paused` is set, or no window is open |
| `abandoned` | history, not in the code: rounds the engine died in or gave up backing out |

`StartRound` is the loop head: pause and schedule gates, re-sync of the number,
dispatch. `SaveManifest`, `OpenRound` and `CloseRound` are the three commits.
`Poll` and `RoundTimeout` are the polling loop, `CollectResults` the final fetch.
`RoundError` is any exception in the `try` block before a commit took effect;
`CommitUnknown` is a commit that took effect although its answer was lost.
`CleanupRound` and `CleanupError` are an attempt of the clean-up that succeeds or fails
(again before or after taking effect); after `CLEANUP_MAX_ATTEMPTS` the engine carries on.
`Crash` covers a kill and the exceptions raised outside the `try` block (settings,
dispatch, cache update); `Restart` is `restart: on-failure` of `docker-compose.yml`.

What is abstracted, and why it does no harm:

- A task whose worker is lost is delivered again (`acks_late`, `reject_on_worker_lost`), so
  a failure may be replaced by a second result, at any time, also after the engine has
  harvested the first; a stored success Celery keeps. The engine scores what it harvested.
- A task's outcome is `pass` or `fail`. A successful task whose output does not match, a
  failed one and a revoked one all score nothing. Celery reports neither STARTED nor
  RETRY here (`task_track_started` is off and the task never retries), so a task is pending
  or terminal.
- The dispatch of the tasks is one step with the start of the round; a process that
  dies half-way through it has written nothing, which is `Crash` in `manifest`.
- A service has one check per round: the engine picks one environment at random.
- The branch that skips a task without environment cannot be reached, since the map it
  looks in was filled from the same tasks.
- Two counters (`rounds_run`, `consecutive_round_failures`) are compared with limits only;
  with no limit they stay at 0. Task ids of a finished round are forgotten (`ForgetResults`):
  nobody asks for them again.
- The closing commit needs its round row (`CommitCloseRound`): a foreign key ties the
  checks to it, and an administrator may have deleted it.
- `get_round_progress` reads the newest manifest; `live` in `kb` tells whether a manifest
  names the tasks dispatched last.

`Scoreboard` is the abstract specification: a round lands whole with its scores and
its effect on the failure counts, in one step; only the newest round can be withdrawn, whole.
`Engine` implements it under the mapping in `Board`: the board is the set of closed rounds.

### 2.2 `Admin`

`RequestRollback` to `Unpause` are the stages of `admin_rollback`: validate and read
`engine_paused`; set it; sleep and collect the rounds; delete their checks in batches of `BatchSize` rounds,
one transaction each (`DeleteChecks`), and scores, manifests and rounds in a transaction each; in `finally`,
unpause if this request paused. `RollbackError` is any of the deletions failing. The deletion of the
rounds is refused while checks or scores refer to one (`Referenced`). `RequestFails` ends a request where nothing catches
it: the commit that pauses lies before the `try`, the one that unpauses in the `finally`, on a session that was not
rolled back after the error, and both may raise, with or without effect; or the web process ends. `stranded` is
history: a request that had found the engine running ended so, and left it paused. Requests and the
engine interleave freely, with the engine's own `RoundError`; its crashes are left to the runs
of `Engine`. Revoking the tasks of deleted rounds is within what its tasks may report anyway.
`incomplete` and `overrun` are history too. `Idle` is the engine asleep while it is paused; `AtBound` is a stutter
of the model at its bound, where the engine cannot go on.

### 2.3 `Sla`, `Standings` and `ScorePages`

`Sla` holds pure definitions: the penalty of a streak in the four modes, the multiplier of a round,
weights, ranks with ties, the sampling of a line chart. A float (multiplier, weight, or percentage over 100) is a
decimal, a whole number of parts of size 1/`Unit`; products are truncated (`IntProduct`) or rounded half to even (`RoundProduct`) exactly
where the code does. A product of floats may lie just beside the exact one: `int(25 * 4.6)` is 114, not 115, and
`round(50 * 1.15)` is 57. The constants `FallsShort` and `Exceeds` say of which products this is so. It makes a difference only
where the exact product is whole, or a half: anywhere else the error is far smaller than the distance to the next
whole number or half, as long as decimals have the few digits that people enter. Products of negative scores are taken
as exact. The proofs hold for any such sets, so that they depend on no table of products; the run has two products that
fall short and one that exceeds, and they are met.

`Standings` has the state and its changes. A round takes two steps, as in the code: `OpenRound` commits the row and
stamps the round (`engine.py:749`), `CloseRound` is the commit that makes it visible (`engine.py:782`), and `FailRound`
a failure or a death in between. Anything may happen between the two, the freeze included. The
number of a round is one more than the last row's. `Outcomes` restricts which sets of services pass, to keep the run small. A `Change` is one request of an administrator: any
setting of `web/views/api/sla.py` with the form's own bounds, the weights (written one at a time, so that
those before a bad one stay), the freeze, the visibility of inject scores, points of a service, the
correction of a check, a rollback, an adjustment, a grade, a reopening. `tampered` (services whose checks
were changed by hand) and `repriced` (points or checks of finished rounds were changed) are history: they say
after which operations stored sums and checks part, which the code does not repair.

`ScorePages` follows the queries: sums of stored rows, scaled row by row; the batched penalties that count
no failures and skip services; the per-team computation; the bar and line charts; the overview with its
ranks; a team's own page; a service's page; the SLA page; the statistics. A dict has an entry only for
those it has rows of, and `Entry` is its `.get(..., 0)`.

### 2.4 `Schedule`

Time is whole ticks. The engine asks for the list of windows (`EngineHit`, `EngineMiss`, later
`EngineRefill`), starts a round or idles, closes it, and clears the page; a request of the public asks for the
freeze in the same way, queries the rounds, and stores the page. An edit commits first and
deletes the copies afterwards, and Redis may fail at each refill or deletion. `Slow` bounds how long a value that was read
is used; it is an assumption about the process, not a number in the code. Two rounds of no length in the same tick count as one.

### 2.5 `SettingCache`

One boolean setting. Every session (the engine or a request) starts a transaction, whose
snapshot is the row it can see; looks the setting up in Redis or, failing that, in the
snapshot, and refills Redis in a later step; a writer then commits and clears the copy. A hit
may be used or may fall through to the database, as the `except` in `get_setting` allows. A
writer whose new value equals the one it loaded writes nothing, as SQLAlchemy finds no change.

### 2.6 `Injects` and `InjectCache`

`Injects` has one `Begin...` action per request, with the guard of the handler, and one
commit. MariaDB's REPEATABLE READ gives each transaction the snapshot of its first read and
does not compare it at commit; SQLAlchemy writes the columns that changed; the foreign key of
a score protects rubric items. A request keeps of its snapshot what its operation goes on to
use. `overlapped` is history: which operations, edits of the template apart, were ever in
flight together. An edit of the template changes one rubric item; ids of removed items may be
used again, which the database would not do and which only adds behaviours.

`InjectCache` keeps of an answer only its age. An answer is `current` or, once something it
shows has changed, `old`; an answer that was already old when its reader stored it is `late`.
The distinction separates entries that a deletion missed from entries that a slow reader put
back. The keys are those of `make_cache_key` and those that `cache_helper.py` deletes,
which differ.

### 2.7 `Flags`

A check-in takes several steps: the report is committed (`Record`) or refused as a whole by the unique constraint
(`Refuse`); if it carried flags, the cached pages of flags are deleted (`UpdateFlagsData`); the next flags are
looked up (`DoCheckin`); the check-in is remembered under the name of
the host, whatever the team, and the answer arrives or is lost (`Remember`). `Fail` ends the request between any two of
them. The agent is not in the repository: it may report any flags it was given, again and while another of its
requests is under way. `GivenBefore` are flags it was given before the clock of the model starts, so that a
report need not be preceded by a check-in.

The grid of solves (`api_flags_solves`) is cached: `Compute` finds no copy in Redis and computes one (`Grid`), `Store` puts it there
for `GridTTL` and shows it, in a later step, so that a slow viewer may store an old grid over what was
reported meanwhile; a report with flags (`UpdateFlagsData`) or the end of a round (`RoundEnds`) deletes it. A report without flags does
not, so a host that is back remains offline until the copy is gone. There is a copy for each role; since they differ in
nothing but their key, one is modelled. `StatusFollowsCheckins` speaks of what a viewer is shown, copy or not. `Slow` bounds the time
between the second and the third step of a check-in, and that of computing a grid.

`FlagPoints` is the score of a team, live or as of a freeze; `Halves` the page of totals, which
looks at neither the freeze nor dummy flags.

### 2.8 `Delivery`

`CloseRound`, `ClearAll` and `PublishRound` are the end of a round as `update_all_cache` orders it. It is called outside the `try` of
the round, so the engine may die at any point of it (`EngineDies`; a killed process, or Redis raising in `cache.clear` or `scan_iter`):
the round has landed, and neither are all answers cleared nor is the event sent. Nothing makes the engine close another round.
`Send` reaches those subscribed to the channel; `Broadcast` puts a message into every queue that has room;
`ListenerFails` is its reconnect. A page loads, fetches a token, opens a stream and hears messages. When the
connection breaks the browser tries again; after `NeverConnectedErrors` errors without ever a stream the page polls,
after `MAX_ERRORS_BEFORE_FALLBACK` it starts anew with another token; and a stream refused before that is closed
for good (`dead`).

A page asks whenever it hears of a round or polls, whatever it has asked before (`Ask`): `base.html:89` neither aborts
a request nor numbers it, so up to `InFlight` requests may be under way, and the page shows the answer that comes in last, be
it that of an earlier one (`Overtaken`). Of an answer is kept whether it shows every announcement and whether a round
was completed since it was computed: it is `current`, `old` if one was, and `late` if it is old where no event will
follow that could renew it: stored by a slow request after the clearing, left behind by an engine that died before
it, or shown after the answer of a newer request. `newest` is the request a page made last, `lost` is history. Others who ask for the same answer are members of
`Pages`, or are answered within a step (`Refill`). The deletion of all keys at the end of a round is one step; one that
stops half-way is covered by `Expire`, which may take any entry at any time, and `EngineDies`.

## 3. What is checked

| run | instance | shows |
| --- | --- | --- |
| `EngineSafety` | 2 services of a team, a team without services, 2 round rows, limits of 2 rounds and 2 failures | `ScoresMatchChecks`, `FailureCacheMatchesChecks`: both copies equal their recomputation; `RoundsAreWhole`; `PassIsOfThisRound`; `NumbersAreSequential`; `HalfWrittenRoundsAccounted`; `FinishedRoundsStay`; `KeepsBoard`: the refinement |
| `EngineLiveness` | 1 service, 2 round rows, exit after 2 failures, fairness | `RoundTerminates`, `EngineRecovers`, `PersistentFailureExits`, `ShutdownHonoured` |
| `AdminRollback` | 1 service, 2 round rows, 2 requests at once, 2 in all, batches of 1 round, fairness | `RollbackLeavesWhole`, `RollbackKeepsEarlier`, `ResyncsAfterRollback`; `EngineResumes`: rollbacks leave the engine paused only if a pausing or unpausing commit, or the process, fails |
| `AdminStaleCounts` | 2 round rows | *violated* `CountsKeptInSync`: after a rollback the failure counts are those of the checks |
| `Standings` | 2 teams, 3 services, 2 rounds, 2 ticks, any 2 changes of an administrator | `PenaltiesAgree`, `PenaltiesWithinBase`, `PlacesAgree`, `LineMeetsBar`, `StatisticsAgree`, `ServicePagesAgree`: different computations, same numbers (`PenaltiesWithinBase` up to a point for each product that falls short); `FrozenScoresStay` |
| `Schedule` | 3 schedules (two days, overlapping windows, none), 6 ticks, 2 rounds, 1 edit, lifetimes of 1 tick, `Slow` 2 | `GateFollowsSchedule`, `OneRoundMissing`, `NothingVanishes`, `LatePageEnds` |
| `Settings` | engine and 2 requests, 2 writes, Redis may fail, fairness | `SerialWritesStick`, `EngineSeesSetting` |
| `InjectWorkflow` | 2 requests at once, 5 in all, 2 rubric items of 1 point | `SerialScoresOfOneGrade`, `StampMatchesStatus`, `HandedInFilesStay` |
| `InjectViews` | 2 writers, 1 reader, detail and comments, fairness | `GradingIsSeen`, `AnswersCatchUp` |
| `InjectStaleComments` | 1 writer, 1 reader | *violated* `CommentsAreCleared` |
| `Flags` | 2 agents of two teams, on hosts of the same name; a user, a root and a dummy flag; 3 check-ins, 2 at once; a viewer; 4 ticks | `CapturesCountOnce`, `TotalsFollowScore`, `StatusFollowsCheckins`, `RefusedOnlyIfRepeated` |
| `Delivery` | a page with 2 requests in flight, a queue of 2, 1 unread message, fairness | `RoundsReachPages`, `PagesCatchUp` |

A violated run states what a comment or docstring in the repository says and shows a
behaviour of the code that differs; `findings` in `PROJECT.json` quotes the line and gives the steps.

What `HalfWrittenRoundsAccounted` leaves open is real: a process that dies between the second
and the third commit, or whose clean-up fails three times, leaves a round without an end, and
nothing removes it at the next start. It scores nothing and has no checks; it does count as a
round.

### 3.1 Bounds, and why they are enough

- `Engine`: a round row is inserted at most `MaxRounds` times. Two rows are enough for a
  round to fail, be backed out and have its number used again, and for a failure to follow a
  finished round. Two services of different points let the scores tell which of them passed; the second
  team, without services, must get no row.
- `Admin`: with two rows a rollback is followed by a round that takes a number again. Two requests
  are what the pairwise races need, one reading `engine_paused` as the other left it. Batches of one round
  let the deletion of the checks of two rounds be interrupted half-way.
- `Standings`: two rounds give a streak that passes a threshold of 1 and one that does not, an early
  phase that ends, and a freeze between them, or between a stamp and its commit; one team has a service the other lacks. Two changes
  allow one to undo, or to fall between, what the other did (a rollback and then a setting). The starting
  configuration has penalties and multipliers on; the values entered include those the forms refuse
  and those that meet the caps.
- `Schedule`: six ticks hold two days with a gap; the overlapping windows end at tick 3, so that the time after a
  freeze in which an old page may still be there is over before the clock ends. One edit is followed by late
  refills, late pages and failed deletions.
- `Settings`: two writers and the engine; a longer history of serial writes returns to the same states.
- `Injects`: five requests allow submit, revision, resubmit, grade and one more at any point among them.
  Rubric items of one point suffice because only the identity of a grade is compared.
- `InjectCache`: a writer's deletions, a second writer's, and a reader between any two of them.
- `Flags`: four ticks hold a flag that is offered before it starts, is live and has ended, and a freeze at any of
  them; three check-ins allow a report, its repetition and another team's or a lost answer. With two intervals of one
  tick a host can go offline and come back while a copy of the grid lives.
- `Delivery`: the queue has room for two events, so that one other event and one of a round fill it, and with
  the next it overflows. Two requests in flight allow one to overtake the other. `MAX_ERRORS_BEFORE_FALLBACK` and
  `NeverConnectedErrors` are smaller than the code's 10 and 3, in the same order.

The proofs in section 4 hold for every value of the constants, these bounds included.

### 3.2 Fairness

`Engine` assumes weak fairness of the engine's own step and of `Restart`
only: the operating system schedules the process, and the supervisor restarts it. Nothing is
assumed of workers (a task may never report), of the database, or of whoever sets the
pause. `RoundTerminates` holds because the polling loop has a ceiling, and the
clean-up a last attempt. `Admin` assumes that a rollback goes on until it ends or fails, `SettingCache`, `InjectCache` and
`Delivery` that a request which has started is served to its end (the web server runs it), and that work left to the server
or the browser is done (expiry by Redis, the listener's loop, the browser's timers, which all repeat by
themselves). Faults are never assumed to happen. `EngineRecovers`, `AnswersCatchUp`, `EngineSeesSetting` and
`PagesCatchUp` are conditional: once faults, or writes, stop. `Delivery` does not assume that rounds go on: the engine
finishes the round it has closed, but a pause, closed windows, the limit of rounds (`engine.py:476-497`), or its end, may
keep it from closing another. A page that polls catches up regardless; a page with an open stream asks at the end of a
round only, and if no more come it may show old announcements for ever. `PagesCatchUp` says so.
`Schedule`, `Standings`, `Flags` and `Injects` state safety only; deadlock is not checked in
`Schedule` and `Flags`, whose clock ends.

### 3.3 Where the code and its description differ, or where operations do

Met while modelling. The first two are runs of their own; the others appear as the conditions under which the
properties are stated, or lie outside of the models.

- `admin.py:1724`: a rollback leaves `consecutive_failures_cache` (`AdminStaleCounts`).
- `cache_helper.py:131`, `:140`: the keys deleted for comments and files are not those stored
  (`InjectStaleComments`).
- `admin.py:1741`: "Unpause engine if we paused it (even on error)" does not hold where the error is that of the commits
  themselves: the session is not rolled back, the unpausing commit may raise, and the engine stays paused (`stranded` in `EngineResumes`).
- `engine.py:749`: `round_end` is stamped before the closing commit, so a round stamped by the freeze may become visible
  after it and change the frozen board, which `get_effective_freeze` means to hold still (`LandsUnderFreeze` in `FrozenScoresStay`).
- `sla.py:505`, `:284`, `:314`, `scores.py:387` and `scoreboard.py:124` truncate or round products of floats: a multiplier of 4.6 makes 114 of 25
  points, but 115 of the same points in five services of 5, so a penalty of 100 percent can exceed the base by a point for such a round (`PenaltiesWithinBase`).
- `flags.py:155`: the totals know no freeze; under one they name teams that the frozen score does not (`TotalsFollowScore`).
- `flags.py:56`: a check-in without flags does not delete the cached grid, which may contradict it for its lifetime of five minutes (`StatusFollowsCheckins`).
- `engine.py:842`: an error of Redis in `update_all_cache` ends the process after the round has landed; no page hears of it (`EngineDies`).
- `admin.py:1690`: five seconds are no guarantee that a round is over; a rollback that overtakes one lets it
  store a number with a gap (`overrun` in `ResyncsAfterRollback`).
- `admin.py:110`: the correction of a check leaves `round_score` and the failure count (`tampered`); `admin.py:190`:
  new points do not reach stored sums (`repriced`).
- `admin.py:675`: two grades in flight leave the scores of both (`Met` in `SerialScoresOfOneGrade`).
- `scoreboard.py:86`: an inject reopened or graded anew disappears from the frozen board. For this reason
  `FrozenScoresStay` speaks of services and adjustments. Penalties are live on a frozen board; team statistics,
  and the SLA summary do not look at the freeze.
- The derived freeze is the end of the last window, so the round in flight at that moment is hidden after the
  last day for good (`OneRoundMissing` allows it).
- `admin_set_weighted_scoring` refuses a bad weight after writing those before it, and then clears no cache;
  `admin_update_points` clears none either.
- The mode `next_check_reduction` never reduces a next check; in totals it is a capped additive one.
- A team without score is in place 0 of the overview and in place 1 on its own page. The rows of the overview are
  not aligned when a team lacks a service. `scoring_overview` counts scores of reopened injects.
- `agent.py:103`: one flag that is known already refuses the whole report and its check-in
  (`RefusedOnlyIfRepeated` says when).
- `update_announcements_data` says it clears all announcements caches, but the cached ids of unread ones stay, and no
  event of type `announcement` is ever published; the badge follows at the next round.
- `sse.js:69` says of a refused token that it is fetched anew, but after a 401 or 502 answer the browser closes the
  stream for good, and the page neither reconnects nor polls (`dead` in `PagesCatchUp`).
- A comment of the white team is announced to the team of its author instead of the inject's (`injects.py:320`).

## 4. What is proved

Eight modules; `theorems` in `PROJECT.json` lists the results. The assumptions are the `ASSUME`s of the modules:
ranges of constants, finite sets of services, teams and windows, a positive lifetime of a copy, at least one agent; of the standings,
that no team has two services of one name, which `competition.py` verifies before anything is stored, and that numeric settings are integers
(floats being whole numbers of parts).
Each proof has the same shape: an inductive invariant stronger than the property, one lemma or step per action,
and a temporal step at the end. What the invariants add is what makes the properties true:

**`Engine_proofs`**: `ScoresMatchChecks`, `FailureCacheMatchesChecks`, `NumbersAreSequential`,
`HalfWrittenRoundsAccounted`, `RoundsAreWhole`, `PassIsOfThisRound` and types. `IInv` adds:

- `Whole`: checks belong to closed rounds only, one per service. Without it the incremental
  failure count (reset or plus one) could not be compared with a scan of the checks.
- `Sequential`: ids are unique and ordered like numbers. "The last failing run" is an
  order of ids in the code; the clean-up deletes by number.
- `Position`: where `current_round` is, relative to the last stored number, at each `pc`. This
  is why a clean-up by number can only reach the newest row, and why the closing commit finds
  its row open.
- `ControlOK`: the types of what is not in the database.

The proof goes table by table: `OpenKeepsDb`, `CloseKeepsDb` and `RemoveKeepsDb` show that
the writing transactions preserve `DbInv`, `StepInv` goes through the actions. The hard step is the
failure count: closing a round extends the run of failures by one or ends it (`FailureExtends`,
`PassResets`), since its id is above every id in the table.

Its last section: `Engine` implements `Scoreboard` (`EngineKeepsBoard`), and `FinishedRoundsStay`. `Bound` says that
ids stay within `MaxRounds` and a number is at most its id; `Told` that stored points and counts are those of the rounds that
landed (a bijection between failing checks since the last pass and rounds since the service was last up);
`EveryStepMoves` that each step lands a round, withdraws the newest or changes nothing the board shows.

Its section on rollbacks (it extends `Admin`): `RollbackLeavesWhole`, `ResyncsAfterRollback`, `RollbackKeepsEarlier`. With a rollback beside it the engine keeps
little of `IInv`: rounds disappear under it batch by batch and table by table, failure counts are not recomputed, numbers may get
gaps. `AInv` is what is left, and is inductive on its own (TLC checked it first, with three rounds):

- `RowsOrdered`, `RefersToRounds`: numbers follow ids, checks and scores belong to closed rounds. A rollback deletes the children
  first; `Collected` says that what it deletes by id is not before the round it was asked for, although rounds may
  have been stored, deleted and stored again under the same numbers since it collected the ids.
- `Ahead`: the engine's number is above every round's but its own, also of a table cut short. The closing commit thus
  cannot finish another round, and the clean-up cannot delete one.
- `DamageKnown`: a closed round lacks checks or scores only while a rollback that will delete it is between its transactions (`Cutting`),
  or one failed there. A round the engine closes in between either lies behind the collected ids and is
  whole, or the second request's transactions delete all of it.
- `InStep`: unless rounds were deleted in the middle of one (`overrun`), the table has no gaps and the engine's number fits.

**`Standings_proofs`**: all seven properties of the run `Standings`. What the pages compute in different ways agrees because of what
the tables hold, `IInv` (TLC checked it first), which every round, setting, correction and rollback preserves:

- `Rounds`: rounds are numbered from one without a gap, through rollbacks too; a service has at most one check in a round (`OneEach`), and no
  check or stored sum is of a round that is not there.
- `Exact`: unless finished rounds were repriced or corrected by hand, a stored sum is that of what its round's passing checks earn, and where a
  team earned something there is one. So no sum is stored twice, and none is missing that another page would count.
- `Kept`: unless the checks of a service were changed by hand, its cached count is the number of its failures since it last passed
  (`Recent`). The penalties of `team_penalties` skip a service whose count is below the threshold, without looking at its checks.
- `Types`, which say that settings stay within the bounds of their forms.

From it, one argument per pair of pages:

- `LineMeetsBar`: the line adds the stored rows by round and keeps a sample of the points; the last one is always kept (`SampleGood`).
- `PenaltiesAgree`: `team_penalties` counts passing checks in three buckets, and multiplies; the other computation adds them one by one.
  The buckets part the checks, also if the late phase starts within the early one, and both truncate what one check is worth
  (`BucketsAgree`). The services skipped are charged nothing.
- `PenaltiesWithinBase`: what a service is charged is at most what it earned (`RoundedWithin`). Services truncate check by check, a
  team's score round by round, and truncated parts add up to no more than the truncated sum (`SumOfQuotients`, `ChecksWithinRounds`), which is at
  most one more than the truncated float product, and not more if that does not fall short.
- `StatisticsAgree`: the checks of a round add up to its stored row (`RoundIsEarned`), and rounds without a row add nothing (`RowsAreRounds`).
- `ServicePagesAgree`: the passes and failures of a service split its checks (`SummaryCounts`), and names lead back to services since a
  team has no two of one name.
- `PlacesAgree`: the ranks of the overview are a recursion down a sorted list. It has one solution, which gives every team one more than the
  number of teams that are better (`RankIs`), however ties are ordered (`RanksArePlaces`).
- `FrozenScoresStay`: a frozen score stays because the set it is summed over stays, and for this a closing round must not take a number that
  a frozen row has. A round being closed adds what it is worth if it was stamped by the freeze, and nothing otherwise.

**`Schedule_proofs`**: `GateFollowsSchedule`, `NothingVanishes`, `OneRoundMissing`, `LatePageEnds`. `OldLists` bounds the age of every
list in Redis or in use by the last edit; `Decided` says that every round was decided on inside
of a window, when the earlier ones were over; `OneAtATime` that rounds do not overlap. The derived freeze only advances (`FreezeAdvances`). The
greatest end of a finite set of windows exists by well-founded induction on its subsets (`FiniteIsBounded`).
For `LatePageEnds`, `PagesInv` follows a page from the moment its request began: a request that began after the freeze, when
the last edit has reached every copy of the schedule (`Past`), goes by the freeze in force and shows no more than its board; any other
page was stored at most `Slow` after that moment and lives for `PageTTL`. A freeze in force was in force ever since it began (`FreezeStays`).

**`Delivery_proofs`**: `RoundsReachPages`, for any pages, requests in flight, queues and events. `OnItsWay` follows the event from the channel to
the queue to the page, or to where it is lost, the death of the engine included; `Expected` says that an old answer is in the cache only before the caches are cleared,
which is why the order of `update_all_cache` matters, and that the newest request of a page computes an old answer only while the event is still to come. An older
request that brings one is either followed by the newest, or was overtaken by it (`ShowOk`).

**`Injects_proofs`**: `SerialScoresOfOneGrade`, `StampMatchesStatus`, `HandedInFilesStay`. `Pairs`: two operations in flight are on record;
`GradesReadAll`: a grade that overlaps no other has read every score there is; `StampFollows` and `FilersMay`: what a
request read of the status still holds, unless one it met changed it.
Of `InjectCache`, `GradingIsSeen`: `OldIsPending` says that after a grade an old detail or old comments are still to be deleted by
some writer, whoever made them old, since a grader's write deletes the entries of every viewer (`GradingClears`).

**`Flags_proofs`**: `StatusFollowsCheckins`, `RefusedOnlyIfRepeated`, and that a capture is recorded once (`CapturedOnce`). `ServedInTime`
bounds the age of a check-in under way, `Remembered` relates the cached time of a host to the last one heard; what a grid showed when it was computed is kept
with it, in a viewer's hands or in Redis, and the age of both is bounded.
From `CapturedOnce` also `CapturesCountOnce`, live and under any freeze, since solves and captures then are in bijection, and `TotalsFollowScore`: the
best capture of each group is chosen, no two groups share one, and the captures chosen are part of those that are scored.

**`Sums`** is about the operator all scores are computed with, `MapThenSumSet`: that the recursion it stands for has one solution
(`PartialUnique`, `PartialExist`), that a sum does not depend on the order its elements are taken in (`SumSplit`), and how sums compare, scale,
and carry over to an image. Each is an induction on finite sets, done as a proof by smallest counterexample (`Smallest`). Sums may be
taken by a key (`SumByKey`), and a sum of quotients is at most the quotient of the sum (`SumOfQuotients`). `Total` of `ScorePages` is a sum of a function, as those of `Sums` are; those of `Flags`
are of expressions, and lemmas like `PointsAsSum` show that both are the same fold.

**`SettingCache_proofs`**: `SerialWritesStick`. `OneActive`, `CopyOfRow` (the copy is the row's unless a writer is about to drop it) and
`UpToDate` (what a session holds is the row).

Only model-checked is liveness, since fairness and `ENABLED` are beyond the prover: `RoundTerminates`, `EngineRecovers`,
`PersistentFailureExits`, `ShutdownHonoured`, `EngineResumes`, `AnswersCatchUp`, `EngineSeesSetting`, `PagesCatchUp`.

No module declares a recursive operator.

## 5. Plan

The order followed: the engine and its tables first, then what writes them from outside (`Admin`, `Standings`), what they
are read through (`ScorePages`, `Schedule`, `SettingCache`, `InjectCache`, `Delivery`), and the state beside them (`Injects`,
`Flags`); abstract specification and proofs after the model-checked properties they state. What is left, in order:

1. Comments, deletion of a template and the selection of teams, in `Injects`.
2. Flag totals of the line chart, and the list of current flags (`/api/flags`), in `Flags`.

## 6. Not modelled

- Check execution (`engine/execute_command.py`, `checks/`): in `Engine` a task reports some result, or none, at any time. What
  is left is the order of three durations, which a model without real time would only restate; checks
  build command lines.
- Notifications: rows per inject step with a read flag, and calls to mail and chat servers.
- Users and authentication: session handling of the web framework; passwords.
- Health and Celery statistics: read only, of the state of libraries.
- Competition set-up (`competition.py`, `config_loader.py`): validation of a file and one bulk insert before anything else runs.
- Rendering, scripts other than the one that keeps a page up to date, formatting of columns.
- Migrations, entry points and deployment, but for the restart policy (`Restart`) and the proxy's answer while the
  server is down (`BadGateway`).
- Of modelled components: endpoints of `admin.py` that write single rows nothing else depends on (hosts, ports, properties,
  accounts, texts); comments of injects beyond their cached list; which team may read which announcement.

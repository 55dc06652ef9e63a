------------------------------- MODULE Engine -------------------------------
(***************************************************************************)
(* The round loop of scoring_engine/engine/engine.py (Engine.run), with    *)
(* the database it writes, the Celery result backend it reads, and the     *)
(* supervisor that restarts it.                                            *)
(*                                                                         *)
(* A round is three transactions: the task manifest (kb), the round row    *)
(* (its round_end still NULL), and then checks, scores, failure counts and *)
(* round_end together.  Any of the three may fail, before taking effect or *)
(* after it (the commit lands and its acknowledgement is lost); the round  *)
(* is then backed out by number.  The process may die at any point.        *)
(***************************************************************************)
EXTENDS ScoreTables

CONSTANTS
  TotalRounds,  \* SCORINGENGINE_NUM_ROUNDS, 0 for no limit
  MaxFailures,  \* max_consecutive_round_failures, 0 for no limit
  MaxRounds     \* bound: round rows ever inserted

ASSUME LimitsAssumption ==
  TotalRounds \in Nat /\ MaxFailures \in Nat /\ MaxRounds \in Nat

VARIABLES
  \* the database
  rounds, checks, round_score,
  kb,             \* task manifests: [number, live]; live: of the tasks last dispatched
  failure_cache,  \* Service.consecutive_failures_cache
  last_id,        \* the auto-increment value of rounds.id
  \* the engine process
  pc, current_round, round_id, rounds_run, consecutive_round_failures,
  last_round, attempt,
  task_metas,     \* what the engine knows of each task of the round
  \* the Celery result backend: what workers stored, and what has expired
  task, expired,
  \* engine_paused is set, or now is outside every competition window
  paused,
  \* history: numbers of rounds the engine died in or could not back out
  abandoned

db       == <<rounds, checks, round_score, kb, failure_cache, last_id>>
counters == <<current_round, rounds_run, consecutive_round_failures>>
backend  == <<task, expired>>
vars     == <<db, pc, counters, round_id, last_round, attempt, task_metas,
              backend, paused, abandoned>>

CLEANUP_MAX_ATTEMPTS == 3

\* The steps of a round that are inside the try block of run().
InTry   == {"manifest", "polling", "opening", "collecting", "closing"}
InRound == InTry \cup {"cleanup"}
Alive   == InRound \cup {"idle", "landed"}

Results == {"pass", "fail"}

\* Nobody asks for the results of a round that is over: their task ids are
\* forgotten, and whatever workers still store is never read.
ForgetResults == task' = [s \in Services |-> "none"] /\ expired' = {}

(***************************************************************************)
(* Between rounds                                                          *)
(***************************************************************************)

\* A counter the code compares only with a limit that 0 switches off; it is
\* left at zero then, which no comparison can tell.
Counted(n, limit) == IF limit = 0 THEN n ELSE n + 1

\* Mutant: a shutdown request is looked at only in a run of limited length.
IsLastRoundLimitedOnly == TotalRounds # 0 /\ (last_round \/ rounds_run = TotalRounds)

IsLastRound == last_round \/ (TotalRounds # 0 /\ rounds_run = TotalRounds)

\* Mutant: the counter is not brought down to the database's.
NextNumberUnsynced == current_round + 1

\* The next number: the counter is first brought down to the database's.
NextNumber ==
  LET db_round == LastRoundNum(rounds)
  IN  (IF db_round < current_round THEN db_round ELSE current_round) + 1

\* Mutant: the results of the previous round are not dropped.
FreshMetasKept == task_metas

FreshMetas == [s \in Services |-> "unknown"]

\* The top of the loop: neither paused nor outside the schedule, a round number,
\* and one task dispatched per service.
StartRound ==
  /\ pc = "idle" /\ ~IsLastRound
  /\ ~paused
  /\ last_id < MaxRounds
  /\ current_round' = NextNumber
  /\ rounds_run' = Counted(rounds_run, TotalRounds)
  /\ task' = [s \in Services |-> "pending"]
  /\ expired' = {}
  /\ kb' = {[k EXCEPT !.live = FALSE] : k \in kb}
  /\ task_metas' = FreshMetas
  /\ pc' = "manifest"
  /\ UNCHANGED <<rounds, checks, round_score, failure_cache, last_id, round_id,
                 consecutive_round_failures, last_round, attempt, paused, abandoned>>

\* The loop condition fails and run() returns.
Finish ==
  /\ pc = "idle" /\ IsLastRound
  /\ pc' = "finished"
  /\ UNCHANGED <<db, counters, round_id, last_round, attempt, task_metas,
                 backend, paused, abandoned>>

(***************************************************************************)
(* The three transactions of a round                                       *)
(***************************************************************************)

\* session.add(KB(...)); session.commit()
CommitManifest ==
  /\ pc = "manifest"
  /\ kb' = kb \cup {[number |-> current_round, live |-> TRUE]}
  /\ UNCHANGED <<rounds, checks, round_score, failure_cache, last_id>>

\* Mutant: round_end is set when the round is opened.
NewRoundEnded(id) == [id |-> id, number |-> current_round, closed |-> TRUE]

NewRound(id) == [id |-> id, number |-> current_round, closed |-> FALSE]

\* session.add(Round(...)); session.commit()
CommitOpenRound ==
  /\ pc = "opening"
  /\ last_id' = last_id + 1
  /\ rounds' = rounds \cup {NewRound(last_id + 1)}
  /\ UNCHANGED <<checks, round_score, kb, failure_cache>>

Passed == {s \in Services : task_metas[s] = "pass"}

\* Mutant: a task that timed out gets no check.
NewChecksOfResults ==
  {[round |-> round_id, service |-> s, result |-> s \in Passed] :
     s \in {u \in Services : task_metas[u] # "timeout"}}

\* One check per task, those that timed out included.
NewChecks ==
  {[round |-> round_id, service |-> s, result |-> s \in Passed] : s \in Services}

\* round_obj.round_end = datetime.utcnow()
Ended(r) == [id |-> r.id, number |-> r.number, closed |-> TRUE]

\* Checks, round_end, materialize_round and apply_consecutive_failures in one
\* commit, all computed from the results held in memory.
CommitCloseRound ==
  /\ pc = "closing"
  /\ \E r \in rounds : r.id = round_id   \* the checks' foreign key
  /\ checks' = checks \cup NewChecks
  /\ rounds' = {IF r.id = round_id THEN Ended(r) ELSE r : r \in rounds}
  /\ round_score' = round_score \cup RowsFor(round_id, current_round, Passed)
  /\ failure_cache' =
       [s \in Services |-> IF s \in Passed THEN 0 ELSE failure_cache[s] + 1]
  /\ UNCHANGED <<kb, last_id>>

SaveManifest ==
  /\ CommitManifest
  /\ pc' = "polling"
  /\ UNCHANGED <<counters, round_id, last_round, attempt, task_metas, backend, paused, abandoned>>

OpenRound ==
  /\ CommitOpenRound
  /\ round_id' = last_id'
  /\ pc' = "collecting"
  /\ UNCHANGED <<counters, last_round, attempt, task_metas, backend, paused, abandoned>>

CloseRound ==
  /\ CommitCloseRound
  /\ pc' = "landed"
  /\ UNCHANGED <<counters, round_id, last_round, attempt, task_metas, backend, paused, abandoned>>

\* After the round landed: the failure counter is reset and the web caches are
\* flushed.
FinishRound ==
  /\ pc = "landed"
  /\ consecutive_round_failures' = 0
  /\ pc' = "idle"
  /\ ForgetResults
  /\ UNCHANGED <<db, current_round, round_id, rounds_run, last_round, attempt,
                 task_metas, paused, abandoned>>

(***************************************************************************)
(* Results.  A result that never came and one that has expired both read   *)
(* as PENDING.  A result is "pass" when it is a successful task's output   *)
(* that matches, and "fail" for every other terminal state.                *)
(***************************************************************************)

Stored(s) == task[s] \in Results /\ s \notin expired

\* all_pending_tasks: asks only for tasks not yet harvested, and keeps what it
\* finds.
Harvest == [s \in Services |->
              IF task_metas[s] = "unknown" /\ Stored(s) THEN task[s] ELSE task_metas[s]]

Poll ==
  /\ pc = "polling"
  /\ task_metas' = Harvest
  /\ pc' = IF \E s \in Services : Harvest[s] = "unknown" THEN "polling" ELSE "opening"
  /\ UNCHANGED <<db, counters, round_id, last_round, attempt, backend, paused, abandoned>>

\* Mutant: the wait for stuck tasks has no ceiling.
RoundTimeoutNever == FALSE

\* max_round_wait elapsed: the stuck tasks are revoked, and scored without.
RoundTimeout ==
  /\ pc = "polling"
  /\ \E s \in Services : task_metas[s] = "unknown"
  /\ pc' = "opening"
  /\ UNCHANGED <<db, counters, round_id, last_round, attempt, task_metas, backend,
                 paused, abandoned>>

\* The final fetch of what polling did not bring in; what is still missing
\* fails as timed out.
FinalFetch == [s \in Services |-> IF Harvest[s] = "unknown" THEN "timeout" ELSE Harvest[s]]

CollectResults ==
  /\ pc = "collecting"
  /\ task_metas' = FinalFetch
  /\ pc' = "closing"
  /\ UNCHANGED <<db, counters, round_id, last_round, attempt, backend, paused, abandoned>>

(***************************************************************************)
(* Failure of a round                                                      *)
(***************************************************************************)

\* Mutant: the counter starts again with every failure.
FailureCountReset == Counted(0, MaxFailures)

FailureCount == Counted(consecutive_round_failures, MaxFailures)

\* except Exception: count the failure and start backing the round out.
Raise ==
  /\ consecutive_round_failures' = FailureCount
  /\ attempt' = 1
  /\ pc' = "cleanup"
  /\ UNCHANGED <<current_round, round_id, rounds_run, last_round, task_metas,
                 backend, paused, abandoned>>

RoundError ==
  /\ pc \in InTry
  /\ Raise
  /\ UNCHANGED db

\* A commit that took effect although the engine sees an error.
CommitUnknown ==
  /\ CommitManifest \/ CommitOpenRound \/ CommitCloseRound
  /\ Raise

\* sys.exit(1) at the limit, otherwise a pause and the next turn of the loop.
AfterFailedRound ==
  /\ ForgetResults
  /\ pc' = IF MaxFailures # 0 /\ consecutive_round_failures >= MaxFailures
           THEN "exited" ELSE "idle"

\* Mutant: the cleanup reaches one round too far back.
RoundsNumberedOffByOne(n) == {r \in rounds : r.number + 1 \in {n, n + 1}}

\* Mutant: the round is removed by the id the engine holds, not by number.
RoundsNumberedById(n) == {r \in rounds : r.id = round_id}

\* The transaction of _cleanup_failed_round: every row of the round goes, by
\* number, and the failure counts of the services it touched are rebuilt.
RoundsNumbered(n) == {r \in rounds : r.number = n}

\* Mutant: the cleanup forgets the materialized scores.
ScoresWithoutNone(ids) == round_score

ScoresWithout(ids) == {w \in round_score : w.round \notin ids}

\* Mutant: the cleanup forgets the failure counts.
CountsRebuiltNever(C, affected) == failure_cache

CountsRebuilt(C, affected) ==
  [s \in Services |-> IF s \in affected THEN ConsecutiveFailures(C, s) ELSE failure_cache[s]]

ManifestsWithout(n) == {k \in kb : k.number # n}

RemoveRound(n) ==
  LET ids == {r.id : r \in RoundsNumbered(n)}
  IN  /\ checks' = {c \in checks : c.round \notin ids}
      /\ round_score' = ScoresWithout(ids)
      /\ rounds' = {r \in rounds : r.id \notin ids}
      /\ failure_cache' = CountsRebuilt(checks', {c.service : c \in checks \ checks'})
      /\ kb' = ManifestsWithout(n)
      /\ UNCHANGED last_id

GiveUp == attempt >= CLEANUP_MAX_ATTEMPTS

CleanupRound ==
  /\ pc = "cleanup"
  /\ RemoveRound(current_round)
  /\ AfterFailedRound
  /\ UNCHANGED <<counters, round_id, last_round, attempt, task_metas, paused, abandoned>>

\* An attempt fails, with or without its transaction taking effect; after the
\* last one the engine gives up and carries on.
CleanupError ==
  /\ pc = "cleanup"
  /\ RemoveRound(current_round) \/ UNCHANGED db
  /\ IF GiveUp
     THEN /\ AfterFailedRound
          /\ abandoned' = abandoned \cup {current_round}
          /\ UNCHANGED attempt
     ELSE attempt' = attempt + 1 /\ UNCHANGED <<pc, backend, abandoned>>
  /\ UNCHANGED <<counters, round_id, last_round, task_metas, paused>>

(***************************************************************************)
(* The process: signals, death and the supervisor                          *)
(***************************************************************************)

\* SIGINT or SIGTERM: engine.shutdown().
Shutdown ==
  /\ pc \in Alive /\ ~last_round
  /\ last_round' = TRUE
  /\ UNCHANGED <<db, pc, counters, round_id, attempt, task_metas, backend, paused, abandoned>>

\* The process is killed, or an exception escapes run(): settings, dispatch
\* and the cache flush are outside the try block.
Crash ==
  /\ pc \in Alive
  /\ pc' = "down"
  /\ abandoned' = IF pc \in InRound THEN abandoned \cup {current_round} ELSE abandoned
  /\ ForgetResults
  /\ UNCHANGED <<db, counters, round_id, last_round, attempt, task_metas, paused>>

\* Mutant: the supervisor leaves a killed engine down.
RestartAfterExitOnly ==
  /\ pc = "exited"
  /\ pc' = "idle"
  /\ current_round' = LastRoundNum(rounds)
  /\ rounds_run' = 0 /\ consecutive_round_failures' = 0
  /\ last_round' = FALSE
  /\ attempt' = 0 /\ round_id' = 0
  /\ task_metas' = [s \in Services |-> "unknown"]
  /\ UNCHANGED <<db, backend, paused, abandoned>>

\* restart: on-failure.  A new process takes its round number from the database.
Restart ==
  /\ pc \in {"down", "exited"}
  /\ pc' = "idle"
  /\ current_round' = LastRoundNum(rounds)
  /\ rounds_run' = 0 /\ consecutive_round_failures' = 0
  /\ last_round' = FALSE
  /\ attempt' = 0 /\ round_id' = 0
  /\ task_metas' = [s \in Services |-> "unknown"]
  /\ UNCHANGED <<db, backend, paused, abandoned>>

(***************************************************************************)
(* The workers, the result backend, the administrator and the clock        *)
(***************************************************************************)

environment == <<db, pc, counters, round_id, last_round, attempt, task_metas, abandoned>>

\* A worker stores a terminal state, also late or after the revocation.  A task
\* whose worker is lost is delivered again (acks_late): its second result may
\* replace a failure; Celery keeps a success.
Report(s) ==
  /\ task[s] \in {"pending", "fail"}
  /\ \E v \in Results : task' = [task EXCEPT ![s] = v]
  /\ expired' = expired \ {s}
  /\ UNCHANGED <<paused, environment>>

\* result_expires
Expire(s) ==
  /\ Stored(s)
  /\ expired' = expired \cup {s}
  /\ UNCHANGED <<task, paused, environment>>

TogglePaused ==
  /\ paused' = ~paused
  /\ UNCHANGED <<backend, environment>>

-----------------------------------------------------------------------------

Init ==
  /\ rounds = {} /\ checks = {} /\ round_score = {} /\ kb = {}
  /\ failure_cache = [s \in Services |-> 0]
  /\ last_id = 0
  /\ pc = "idle"
  /\ current_round = 0 /\ rounds_run = 0 /\ consecutive_round_failures = 0
  /\ round_id = 0 /\ attempt = 0
  /\ last_round = FALSE
  /\ task_metas = [s \in Services |-> "unknown"]
  /\ task = [s \in Services |-> "none"]
  /\ expired = {}
  /\ paused \in BOOLEAN
  /\ abandoned = {}

\* What a healthy engine does next.
EngineStep ==
  \/ StartRound \/ Finish
  \/ SaveManifest \/ Poll \/ RoundTimeout \/ OpenRound
  \/ CollectResults \/ CloseRound \/ FinishRound
  \/ CleanupRound

Fault == RoundError \/ CommitUnknown \/ CleanupError \/ Crash

Next ==
  \/ EngineStep
  \/ Fault
  \/ Shutdown \/ Restart
  \/ \E s \in Services : Report(s) \/ Expire(s)
  \/ TogglePaused

\* The engine's process is scheduled and the supervisor restarts it; nothing
\* is assumed of workers, the database, the administrator or the schedule.
Fairness == WF_vars(EngineStep) /\ WF_vars(Restart)

Spec     == Init /\ [][Next]_vars
FairSpec == Spec /\ Fairness


(***************************************************************************)
(* Correctness                                                             *)
(***************************************************************************)

Outcomes == Results \cup {"unknown", "timeout"}

\* Every variable has its type.
TypeOK ==
  /\ rounds \subseteq RoundRow(Nat)
  /\ checks \subseteq CheckRow(Nat)
  /\ round_score \subseteq ScoreRow(Nat)
  /\ kb \subseteq [number : Nat, live : BOOLEAN]
  /\ failure_cache \in [Services -> Nat]
  /\ last_id \in Nat
  /\ pc \in Alive \cup {"exited", "down", "finished"}
  /\ current_round \in Nat /\ round_id \in Nat /\ rounds_run \in Nat
  /\ consecutive_round_failures \in Nat
  /\ last_round \in BOOLEAN
  /\ attempt \in 0..CLEANUP_MAX_ATTEMPTS
  /\ task_metas \in [Services -> Outcomes]
  /\ task \in [Services -> Results \cup {"none", "pending"}]
  /\ expired \subseteq Services
  /\ paused \in BOOLEAN
  /\ abandoned \subseteq Nat

\* The materialized scores are what a recomputation from the checks would
\* store, in every state a reader can see: through failed, doubtful and
\* backed-out commits, crashes, and rounds that were left half-written.
ScoresMatchChecks == round_score = MaterializeAll(rounds, checks)

\* The incrementally kept failure count is the one a scan of the checks finds,
\* also after a round that had been counted was backed out.
FailureCacheMatchesChecks ==
  \A s \in Services : failure_cache[s] = ConsecutiveFailures(checks, s)

\* A closed round has exactly one check of every service and an open one has
\* none: no reader sees part of a round's checks, or checks of no round.
RoundsAreWhole ==
  /\ \A r \in rounds, s \in Services :
       Cardinality({c \in checks : c.round = r.id /\ c.service = s}) = IF r.closed THEN 1 ELSE 0
  /\ \A c \in checks : \E r \in rounds : c.round = r.id

\* Rounds are numbered 1, 2, ... without gap or duplicate, in the order of
\* their ids, although numbers are reused after a round is backed out.
NumbersAreSequential ==
  /\ \A r, q \in rounds : r.number < q.number <=> r.id < q.id
  /\ {r.number : r \in rounds} = 1..LastRoundNum(rounds)

\* A round without an end is the one the engine is in, or one it died in or
\* gave up backing out.
HalfWrittenRoundsAccounted ==
  \A r \in rounds : ~r.closed =>
    \/ pc \in InRound /\ r.number = current_round
    \/ r.number \in abandoned

\* A pass about to be scored was reported by the task dispatched this round,
\* never by an earlier round's.
PassIsOfThisRound ==
  \A s \in Services : pc \in InTry /\ task_metas[s] = "pass" => task[s] = "pass"

\* A finished round and its checks and scores are never touched again: only
\* the failure path removes a closed round, and only the round in doubt.
FinishedRoundsStay ==
  [][\A r \in rounds :
       r.closed /\ ~(pc = "cleanup" /\ r.number = current_round) =>
         /\ r \in rounds'
         /\ {c \in checks' : c.round = r.id} = {c \in checks : c.round = r.id}
         /\ {w \in round_score' : w.round = r.id} = {w \in round_score : w.round = r.id}]_vars

\* A round ends whatever workers and database do: the wait is bounded and so
\* is the cleanup.
RoundTerminates == pc \in InRound ~> pc \notin InRound

\* The run is over, or at the bound of the model.
Over == pc = "finished" \/ last_id = MaxRounds

\* Once faults stop and the engine stays unpaused, rounds keep landing, after any
\* history of failures, exits and restarts.
EngineRecovers ==
  <>[][~Fault]_vars /\ <>[]~paused => <>(Over /\ pc \notin InRound)

\* Rounds that fail one after another make the process exit.
PersistentFailureExits ==
  MaxFailures # 0 /\ <>[][~(FinishRound \/ Restart)]_vars =>
    ~[]<><<RoundError \/ CommitUnknown>>_vars

\* A requested shutdown happens, paused or not, failing rounds or not.
ShutdownHonoured == last_round ~> pc \in {"finished", "exited", "down"}

\* The promise to the readers of the scores, kept by the engine.
Board == INSTANCE Scoreboard WITH
  Numbers  <- 1..MaxRounds,
  board    <- {[number |-> r.number, passed |-> PassedIn(checks, r.id)] :
                 r \in {q \in rounds : q.closed}},
  scores   <- {[number |-> w.number, team |-> w.team, points |-> w.points] :
                 w \in round_score},
  failures <- failure_cache

KeepsBoard == Board!BoardSpec

=============================================================================

------------------------------- MODULE Admin -------------------------------
(***************************************************************************)
(* The rollback of every round from a given number on                      *)
(* (web/views/api/admin.py).  It runs in the web processes, between any    *)
(* two steps of a round and of other rollbacks.                            *)
(*                                                                         *)
(* A rollback pauses the engine, waits five seconds, collects the rounds,  *)
(* deletes their checks in batches and then their scores, manifests and    *)
(* rows, each in a transaction of its own, and unpauses the engine if it   *)
(* had paused it.  A row another row refers to cannot be deleted, so the   *)
(* last deletion may fail; so may any other, and so may the commits that   *)
(* pause and unpause.                                                      *)
(***************************************************************************)
EXTENDS Engine

CONSTANTS
  Admins,      \* concurrent requests
  BatchSize,   \* BATCH_SIZE
  MaxRequests  \* bound: rollbacks ever requested

ASSUME RequestsAssumption == MaxRequests \in Nat /\ BatchSize \in Nat \ {0}

VARIABLES
  apc,          \* where each request is
  round_number, \* the first round to go
  was_paused,
  round_ids,    \* the rounds collected, as far as their checks are still to go
  requests,
  incomplete,   \* history: a rollback ended without deleting its rounds
  overrun,      \* history: rounds were deleted while the engine was in one
  stranded      \* history: a request that had paused the engine ended before
                \* the commit that unpauses it

adminVars == <<apc, round_number, was_paused, round_ids, requests, incomplete, overrun,
               stranded>>
allVars   == <<vars, adminVars>>

Deleting == {"checks", "scores", "manifests", "rounds"}

\* Mutant: one round too many.
RowsFromOneBefore(n) == {r \in rounds : r.number + 1 >= n}

RowsFrom(n) == {r \in rounds : r.number >= n}
IdsFrom(n)  == {r.id : r \in RowsFrom(n)}

engineProcess ==
  <<pc, counters, round_id, last_round, attempt, task_metas, backend, abandoned>>

Requestable == 1..LastRoundNum(rounds)

\* The request is valid, and the setting is read.  With the engine already
\* paused there is nothing to wait for, and the rounds are those of the same
\* snapshot.
RequestRollback(a) ==
  /\ apc[a] = "none" /\ requests < MaxRequests
  /\ requests' = requests + 1
  /\ \E n \in Requestable :
       /\ round_number' = [round_number EXCEPT ![a] = n]
       /\ round_ids' = [round_ids EXCEPT ![a] = IF paused THEN IdsFrom(n) ELSE {}]
  /\ was_paused' = [was_paused EXCEPT ![a] = paused]
  /\ apc' = [apc EXCEPT ![a] = IF paused THEN "checks" ELSE "pausing"]
  /\ UNCHANGED <<vars, incomplete, overrun, stranded>>

\* engine_paused is set, and the request sleeps.
PauseEngine(a) ==
  /\ apc[a] = "pausing"
  /\ paused' = TRUE
  /\ apc' = [apc EXCEPT ![a] = "waiting"]
  /\ UNCHANGED <<db, engineProcess, round_number, was_paused, round_ids, requests, incomplete, overrun, stranded>>

\* Awake, with a new snapshot.  Nothing looks at what the engine is doing.
CollectRounds(a) ==
  /\ apc[a] = "waiting"
  /\ round_ids' = [round_ids EXCEPT ![a] = IdsFrom(round_number[a])]
  /\ apc' = [apc EXCEPT ![a] = "checks"]
  /\ UNCHANGED <<vars, round_number, was_paused, requests, incomplete, overrun, stranded>>

\* What one transaction takes, in no particular order.
Batches(ids) ==
  {batch \in SUBSET ids :
     Cardinality(batch) = BatchSize \/ (batch = ids /\ Cardinality(ids) < BatchSize)}

\* Batch by batch, until none is left.
DeleteChecks(a) ==
  /\ apc[a] = "checks"
  /\ \E batch \in Batches(round_ids[a]) :
       LET left == round_ids[a] \ batch
       IN  /\ checks' = {c \in checks : c.round \notin batch}
           /\ round_ids' = [round_ids EXCEPT ![a] = left]
           /\ apc' = [apc EXCEPT ![a] = IF left = {} THEN "scores" ELSE "checks"]
  /\ UNCHANGED <<rounds, round_score, kb, failure_cache, last_id, engineProcess, paused,
                 round_number, was_paused, requests, incomplete, overrun, stranded>>

DeleteScores(a) ==
  /\ apc[a] = "scores"
  /\ round_score' = {w \in round_score : w.number < round_number[a]}
  /\ apc' = [apc EXCEPT ![a] = "manifests"]
  /\ UNCHANGED <<rounds, checks, kb, failure_cache, last_id, engineProcess, paused,
                 round_number, was_paused, round_ids, requests, incomplete, overrun, stranded>>

DeleteManifests(a) ==
  /\ apc[a] = "manifests"
  /\ kb' = {k \in kb : k.number < round_number[a]}
  /\ apc' = [apc EXCEPT ![a] = "rounds"]
  /\ UNCHANGED <<rounds, checks, round_score, failure_cache, last_id, engineProcess, paused,
                 round_number, was_paused, round_ids, requests, incomplete, overrun, stranded>>

\* Mutant: the rows are deleted whatever refers to them.
ReferencedNever(n) == FALSE

\* The foreign keys of checks and round_score.
Referenced(n) ==
  \/ \E c \in checks : c.round \in IdsFrom(n)
  \/ \E w \in round_score : w.round \in IdsFrom(n)

DeleteRounds(a) ==
  /\ apc[a] = "rounds"
  /\ ~Referenced(round_number[a])
  /\ rounds' = rounds \ RowsFrom(round_number[a])
  /\ apc' = [apc EXCEPT ![a] = "unpausing"]
  /\ overrun' = (overrun \/ pc \in InRound)
  /\ UNCHANGED <<checks, round_score, kb, failure_cache, last_id, engineProcess, paused,
                 round_number, was_paused, round_ids, requests, incomplete, stranded>>

\* Mutant: an error skips the unpausing, as without the finally.
AfterErrorDone == "none"

AfterError == "unpausing"

\* One of the transactions fails.
RollbackError(a) ==
  /\ apc[a] \in Deleting
  /\ incomplete' = TRUE
  /\ apc' = [apc EXCEPT ![a] = AfterError]
  /\ UNCHANGED <<vars, round_number, was_paused, round_ids, requests, overrun, stranded>>

\* The request is over, and its variables with it.
Ends(a) ==
  /\ apc' = [apc EXCEPT ![a] = "none"]
  /\ round_number' = [round_number EXCEPT ![a] = 1]
  /\ was_paused' = [was_paused EXCEPT ![a] = FALSE]
  /\ round_ids' = [round_ids EXCEPT ![a] = {}]

\* finally: unpause the engine if we paused it.
Unpause(a) ==
  /\ apc[a] = "unpausing"
  /\ paused' = (paused /\ was_paused[a])
  /\ Ends(a)
  /\ UNCHANGED <<db, engineProcess, requests, incomplete, overrun, stranded>>

\* The pausing or the unpausing commit fails, with or without effect, where
\* nothing catches it, or the process ends: nobody else unpauses the engine.
RequestFails(a) ==
  /\ apc[a] # "none"
  /\ paused' \in CASE apc[a] = "pausing"   -> {paused, TRUE}
                    [] apc[a] = "unpausing" -> {paused, paused /\ was_paused[a]}
                    [] OTHER                -> {paused}
  /\ Ends(a)
  /\ incomplete' = (incomplete \/ apc[a] \in Deleting)
  /\ stranded' = (stranded \/ (~was_paused[a] /\ paused'))
  /\ UNCHANGED <<db, engineProcess, requests, overrun>>

Rollback(a) ==
  \/ PauseEngine(a) \/ CollectRounds(a)
  \/ DeleteChecks(a) \/ DeleteScores(a) \/ DeleteManifests(a) \/ DeleteRounds(a)
  \/ RollbackError(a) \/ Unpause(a)

-----------------------------------------------------------------------------

AdminInit ==
  /\ Init /\ ~paused
  /\ apc = [a \in Admins |-> "none"]
  /\ round_number = [a \in Admins |-> 1]
  /\ was_paused = [a \in Admins |-> FALSE]
  /\ round_ids = [a \in Admins |-> {}]
  /\ requests = 0
  /\ incomplete = FALSE /\ overrun = FALSE /\ stranded = FALSE

\* The engine with the failures a rollback can cause it.
EngineAlongside ==
  (EngineStep \/ RoundError \/ \E s \in Services : Report(s)) /\ UNCHANGED adminVars

\* A paused engine only looks again every few seconds.
Idle == paused

\* The bound of the model.
AtBound == last_id = MaxRounds

AdminNext ==
  \/ EngineAlongside
  \/ \E a \in Admins : RequestRollback(a) \/ Rollback(a) \/ RequestFails(a)
  \/ (Idle \/ AtBound) /\ UNCHANGED allVars

AdminSpec == AdminInit /\ [][AdminNext]_allVars

\* The engine is scheduled, and a request goes on until it ends or fails.
AdminFairSpec ==
  /\ AdminSpec
  /\ WF_allVars(EngineStep /\ UNCHANGED adminVars)
  /\ \A a \in Admins : WF_allVars(Rollback(a))

(***************************************************************************)
(* Correctness                                                             *)
(***************************************************************************)

\* No rollback is under way, and none was left half done.
Quiet == ~incomplete /\ \A a \in Admins : apc[a] = "none"

\* Rollbacks that complete leave whole rounds with their scores, although the
\* engine may close a round, and another request delete some, between any two
\* of their transactions.
RollbackLeavesWhole == Quiet => RoundsAreWhole /\ ScoresMatchChecks

\* A rollback touches nothing of a round before the one it was asked for.
RollbackKeepsEarlier ==
  [][\A a \in Admins : apc[a] \in Deleting /\ ~UNCHANGED <<apc[a], round_ids[a]>> =>
       \A r \in rounds : r.number < round_number[a] =>
         /\ r \in rounds'
         /\ {c \in checks' : c.round = r.id} = {c \in checks : c.round = r.id}
         /\ {w \in round_score' : w.round = r.id} = {w \in round_score : w.round = r.id}]_allVars

\* The engine takes its number from what a rollback left, if the rollback
\* did not overtake a round.
ResyncsAfterRollback == ~overrun => NumbersAreSequential

\* The engine is not left paused by rollbacks, whether their deletions succeed
\* or not and however they overlap: only a request that loses the very commits
\* that pause and unpause, or its process, leaves it so.
EngineResumes == paused ~> (~paused \/ stranded)

\* What Service says of consecutive_failures_cache: it is kept in sync with
\* the count recomputed from the checks; here, when no rollback is under way.
CountsKeptInSync == Quiet => FailureCacheMatchesChecks

=============================================================================

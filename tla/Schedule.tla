------------------------------ MODULE Schedule ------------------------------
(***************************************************************************)
(* Competition windows (schedule.py): when the engine starts a round and   *)
(* which rounds the public sees.  The list of enabled windows is copied to *)
(* Redis for a minute, the page computed from the freeze for five; both    *)
(* copies are deleted when an administrator changes the schedule or the    *)
(* freeze, the page also at the end of a round.                            *)
(*                                                                         *)
(* Time is whole ticks.  Whatever a request or the engine has read is used *)
(* within Slow ticks: this is an assumption.                               *)
(***************************************************************************)
EXTENDS Integers, FiniteSets, FiniteSetsExt

CONSTANTS
  Schedules,     \* the windows a competition may start with: sets of windows
  NewWindows,    \* what an administrator may create: <<start_time, end_time>>
  Freezes,       \* the instants of a manual freeze
  CACHE_TTL,     \* how long the list of windows is kept
  PageTTL,       \* how long a page is kept
  Slow,
  MaxTime, MaxRounds, MaxEdits   \* bounds

Window == [id : Nat, start : Nat, end : Nat, enabled : BOOLEAN]

ASSUME ScheduleAssumption ==
  /\ \A W \in Schedules : W \subseteq Window /\ IsFiniteSet(W)
  /\ NewWindows \subseteq Nat \X Nat
  /\ {CACHE_TTL, PageTTL, Slow, MaxTime, MaxRounds, MaxEdits} \subseteq Nat
  /\ CACHE_TTL > 0
  /\ Freezes \subseteq 1..MaxTime

VARIABLES
  now,
  windows,   \* competition_window
  manual,    \* scoreboard_freeze_time, or NotFrozen
  copy,      \* schedule:windows in Redis: [list, till], till = 0 if absent
  rounds,    \* [start, end] of the rounds closed
  engine,    \* [at, list, asked]
  viewer,    \* [at, list, asked, freeze, shown]: a request of the public
  page,      \* the stored page: [shown, till]
  edits,     \* how many edits there were,
  changed,   \* when the last was committed,
  clearing   \* and whether its copies are still to be deleted

vars == <<now, windows, manual, copy, rounds, engine, viewer, page, edits, changed, clearing>>

NotFrozen == 0
NoCopy == [list |-> {}, till |-> 0]
NoPage == [shown |-> {}, till |-> 0]

Present(entry) == now < entry.till

-----------------------------------------------------------------------------
(* The decisions *)

\* _query_windows
Enabled == {w \in windows : w.enabled}

InWindow(W, t) == \E w \in W : w.start <= t /\ t < w.end

\* Mutant: the end of a window is ignored.
EngineShouldRunOnceStarted(W, t) == W = {} \/ \E w \in W : w.start <= t

\* engine_should_run
EngineShouldRun(W, t) == W = {} \/ InWindow(W, t)

\* Mutant: the end of the first window to close.
WindowDerivedFreezeFirst(W, t) ==
  LET closed == {w.end : w \in {v \in W : v.end <= t}}
  IN  IF InWindow(W, t) \/ closed = {} THEN NotFrozen ELSE Min(closed)

\* window_derived_freeze
WindowDerivedFreeze(W, t) ==
  LET closed == {w.end : w \in {v \in W : v.end <= t}}
  IN  IF InWindow(W, t) \/ closed = {} THEN NotFrozen ELSE Max(closed)

\* get_freeze_time
FreezeTime(W, t) == IF manual # NotFrozen THEN manual ELSE WindowDerivedFreeze(W, t)

\* The rounds on the public's board at a freeze.
Board(f) == {r \in rounds : f # NotFrozen => r.end <= f}

-----------------------------------------------------------------------------
(* get_windows: a hit, or a query and then a refill that may fail *)

\* Mutant: the copy is kept for ever.
KeptForEver(ttl) == MaxTime + 1

\* The end of the life of an entry stored now.
KeptFor(ttl) == now + ttl

Refill(list) == copy' \in {copy, [list |-> list, till |-> KeptFor(CACHE_TTL)]}

-----------------------------------------------------------------------------
(* The engine *)

EngineIdle == [at |-> "idle", list |-> {}, asked |-> 0]

Decide(list, asked) ==
  engine' = IF EngineShouldRun(list, asked) /\ Cardinality(rounds) < MaxRounds
            THEN [at |-> "round", list |-> {}, asked |-> now] ELSE EngineIdle

EngineHit ==
  /\ engine.at = "idle" /\ Present(copy)
  /\ Decide(copy.list, now)
  /\ UNCHANGED <<now, windows, manual, copy, rounds, viewer, page, edits, changed, clearing>>

EngineMiss ==
  /\ engine.at = "idle" /\ ~Present(copy)
  /\ engine' = [at |-> "refill", list |-> Enabled, asked |-> now]
  /\ UNCHANGED <<now, windows, manual, copy, rounds, viewer, page, edits, changed, clearing>>

EngineRefill ==
  /\ engine.at = "refill"
  /\ Refill(engine.list)
  /\ Decide(engine.list, engine.asked)
  /\ UNCHANGED <<now, windows, manual, rounds, viewer, page, edits, changed, clearing>>

\* The round is committed; its start is kept in "asked".
CloseRound ==
  /\ engine.at = "round"
  /\ rounds' = rounds \cup {[start |-> engine.asked, end |-> now]}
  /\ engine' = [EngineIdle EXCEPT !.at = "clear"]
  /\ UNCHANGED <<now, windows, manual, copy, viewer, page, edits, changed, clearing>>

\* update_all_cache: the list of windows has no part in it.
UpdateAllCache ==
  /\ engine.at = "clear"
  /\ engine' = EngineIdle /\ page' = NoPage
  /\ UNCHANGED <<now, windows, manual, copy, rounds, viewer, edits, changed, clearing>>

-----------------------------------------------------------------------------
(* A request of the public for the overview: overview_get_data *)

ViewerIdle == [at |-> "idle", list |-> {}, asked |-> 0, freeze |-> NotFrozen, shown |-> {}]

\* The manual freeze comes first, and the windows are then not asked for.
ViewerAsks ==
  /\ viewer.at = "idle" /\ ~Present(page)
  /\ viewer' =
       IF manual # NotFrozen
       THEN [ViewerIdle EXCEPT !.at = "query", !.asked = now, !.freeze = manual]
       ELSE IF Present(copy)
       THEN [ViewerIdle EXCEPT !.at = "query", !.asked = now,
                               !.freeze = WindowDerivedFreeze(copy.list, now)]
       ELSE [ViewerIdle EXCEPT !.at = "refill", !.asked = now, !.list = Enabled]
  /\ UNCHANGED <<now, windows, manual, copy, rounds, engine, page, edits, changed, clearing>>

ViewerRefill ==
  /\ viewer.at = "refill"
  /\ Refill(viewer.list)
  /\ viewer' = [viewer EXCEPT !.at = "query", !.list = {},
                              !.freeze = WindowDerivedFreeze(viewer.list, now)]
  /\ UNCHANGED <<now, windows, manual, rounds, engine, page, edits, changed, clearing>>

ViewerQueries ==
  /\ viewer.at = "query"
  /\ viewer' = [viewer EXCEPT !.at = "store", !.shown = Board(viewer.freeze)]
  /\ UNCHANGED <<now, windows, manual, copy, rounds, engine, page, edits, changed, clearing>>

ViewerStores ==
  /\ viewer.at = "store"
  /\ page' = [shown |-> viewer.shown, till |-> KeptFor(PageTTL)]
  /\ viewer' = ViewerIdle
  /\ UNCHANGED <<now, windows, manual, copy, rounds, engine, edits, changed, clearing>>

-----------------------------------------------------------------------------
(* The administrator; each edit is committed, then the copies are deleted *)

Edit ==
  /\ edits < MaxEdits /\ ~clearing
  /\ edits' = edits + 1 /\ changed' = now /\ clearing' = TRUE
  /\ UNCHANGED <<now, copy, rounds, engine, viewer, page>>

CreateWindow ==
  /\ Edit
  /\ \E w \in NewWindows :
       /\ w[1] < w[2]
       /\ windows' = windows \cup
            {[id |-> Max({0} \cup {v.id : v \in windows}) + 1,
              start |-> w[1], end |-> w[2], enabled |-> TRUE]}
  /\ UNCHANGED manual

ToggleWindow ==
  /\ Edit
  /\ \E w \in windows : windows' = (windows \ {w}) \cup {[w EXCEPT !.enabled = ~@]}
  /\ UNCHANGED manual

DeleteWindow ==
  /\ Edit
  /\ \E w \in windows : windows' = windows \ {w}
  /\ UNCHANGED manual

SetFreeze ==
  /\ Edit
  /\ manual' \in {NotFrozen} \cup Freezes
  /\ UNCHANGED windows

\* _refresh_after_window_change: an error of Redis keeps the list, and nobody
\* is told.
RefreshAfterWindowChange ==
  /\ clearing /\ clearing' = FALSE
  /\ copy' \in {copy, NoCopy}
  /\ page' = NoPage
  /\ UNCHANGED <<now, windows, manual, rounds, engine, viewer, edits, changed>>

-----------------------------------------------------------------------------

InTime(p) == p.at \in {"refill", "query", "store"} => now < p.asked + Slow

Tick ==
  /\ now < MaxTime /\ InTime(engine) /\ InTime(viewer)
  /\ clearing => now < changed + Slow
  /\ now' = now + 1
  \* Redis forgets what is over.
  /\ copy' = IF now' < copy.till THEN copy ELSE NoCopy
  /\ page' = IF now' < page.till THEN page ELSE NoPage
  /\ UNCHANGED <<windows, manual, rounds, engine, viewer, edits, changed, clearing>>

Init ==
  /\ now = 1 /\ windows \in Schedules /\ manual = NotFrozen
  /\ copy = NoCopy /\ rounds = {} /\ engine = EngineIdle
  /\ viewer = ViewerIdle /\ page = NoPage
  /\ edits = 0 /\ changed = 0 /\ clearing = FALSE

Next ==
  \/ EngineHit \/ EngineMiss \/ EngineRefill \/ CloseRound \/ UpdateAllCache
  \/ ViewerAsks \/ ViewerRefill \/ ViewerQueries \/ ViewerStores
  \/ CreateWindow \/ ToggleWindow \/ DeleteWindow \/ SetFreeze
  \/ RefreshAfterWindowChange \/ Tick

Spec == Init /\ [][Next]_vars

(***************************************************************************)
(* Correctness                                                             *)
(***************************************************************************)

\* Long enough after the last edit nobody uses an older list.
Stale(t) == edits > 0 /\ t < changed + CACHE_TTL + Slow

\* Whatever late refills and failed deletions left in Redis, a minute (and the
\* time of a request) after the last change the engine starts rounds inside of
\* windows only, and does not go on to idle inside of one.
GateFollowsSchedule ==
  [][engine.at \in {"idle", "refill"} /\ engine'.at \in {"idle", "round"}
     /\ engine' # engine /\ Cardinality(rounds) < MaxRounds =>
       LET asked == IF engine.at = "idle" THEN now ELSE engine.asked
       IN  Stale(asked) \/ (engine'.at = "round" <=> EngineShouldRun(Enabled, asked))]_vars

\* Between windows the public misses no more than one of the rounds closed: the
\* one that was in flight when the window ended.
OneRoundMissing ==
  edits = 0 => Cardinality(rounds \ Board(FreezeTime(Enabled, now))) <= 1

\* The schedule by itself never takes a round away that the public has seen.
NothingVanishes ==
  [][edits' = edits =>
       Board(FreezeTime(Enabled, now)) \subseteq Board(FreezeTime(Enabled, now))']_vars

\* A page computed before the freeze and stored after it may show the round
\* that was in flight, although later ones do not; but not longer than a page
\* lives.
LatePageEnds ==
  LET f == FreezeTime(Enabled, now)
      since == Max({f} \cup (IF edits = 0 THEN {} ELSE {changed + CACHE_TTL + Slow}))
  IN  f # NotFrozen /\ Present(page) /\ ~(page.shown \subseteq Board(f)) =>
        now < since + Slow + PageTTL

=============================================================================

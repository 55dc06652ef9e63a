------------------------------- MODULE Flags -------------------------------
(***************************************************************************)
(* Black team agents check in (web/views/api/agent.py): they report the    *)
(* flags planted on their host and are given the next ones.  From what     *)
(* they report the red team's score and the pages of                       *)
(* web/views/api/flags.py are computed.  The grid of solves is kept in     *)
(* Redis for GridTTL, unless a report with flags or the end of a round     *)
(* deletes it; of the copies for the roles one is modelled.                *)
(*                                                                         *)
(* The agent is not part of the repository.  It reports flags it has been  *)
(* given, may report them again, may send a second request before it has   *)
(* the answer to the first, and may never get an answer.                   *)
(***************************************************************************)
EXTENDS Integers, FiniteSets, FiniteSetsExt

CONSTANTS
  Flag,        \* the flags: [id, platform, start_time, end_time, perm, dummy]
  Agent,       \* the agents: [host, team, platform]
  GivenBefore, \* the flags the agents know at the start, when no cache has an entry
  Requests,    \* requests that may be served at the same time
  Viewers,     \* computations of the grid at the same time
  EARLY,       \* agent_show_flag_early_mins
  INTERVAL,    \* agent_checkin_interval_sec
  AgentTTL,    \* how long agent_cache keeps an entry
  GridTTL,     \* CACHE_DEFAULT_TIMEOUT, the life of the grid of solves
  Slow,        \* how long a check-in or a page may take: an assumption
  flag_points_user, flag_points_root,
  MaxTime, MaxRequests    \* bounds

Platform == {"win", "nix"}
Perm     == {"user", "root"}

FlagRow ==
  [id : Nat, platform : Platform, start_time : Int, end_time : Int, perm : Perm, dummy : BOOLEAN]

ASSUME FlagsAssumption ==
  /\ Flag \subseteq FlagRow /\ IsFiniteSet(Flag) /\ GivenBefore \subseteq Flag
  /\ Agent # {} /\ \A a \in Agent : a.platform \in Platform
  /\ {EARLY, INTERVAL, AgentTTL, GridTTL, Slow, flag_points_user, flag_points_root} \subseteq Nat

VARIABLES
  now,
  solves,       \* flag_solves: [flag, host, team, created_at]
  agent_cache,  \* the entry of each host: [timestamp, till]
  requests,     \* [at, agent, flags, offered, timestamp]
  given,        \* the flags each agent has been given
  sent,         \* how many requests were sent
  grid,         \* the copy in Redis: [at, status, till], computed at `at`
  views,        \* the copy each viewer has computed and not stored, or NoPage
  heard         \* history: when each host was heard of

cached == <<agent_cache, grid>>
vars   == <<now, solves, cached, requests, given, sent, views, heard>>

Host == {a.host : a \in Agent}
Team == {a.team : a \in Agent}

NotFrozen == 0
NoEntry   == [timestamp |-> 0, till |-> 0]
NoPage    == [at |-> 0]
NoGrid    == [at |-> 0, till |-> 0]
NoRequest == [at |-> "none"]

-----------------------------------------------------------------------------
(* agent_checkin_post *)

\* Mutant: dummy flags count as captures.
RecordableAny(F) == F

Recordable(F) == {f \in F : ~f.dummy}

SolvedBy(a) == {s.flag : s \in {x \in solves : x.host = a.host /\ x.team = a.team}}

\* Mutants: the constraint is on the flag and the host; it includes the time.
KnownOfAnyTeam(a, F) == \E s \in solves : s.flag \in F /\ s.host = a.host
KnownNow(a, F) == \E s \in solves :
  s.flag \in F /\ s.host = a.host /\ s.team = a.team /\ s.created_at = now

\* The unique constraint on flag, host and team.
Known(a, F) == SolvedBy(a) \cap F # {}

Near(f) == f.start_time < now + EARLY /\ now < f.end_time

Offered(a) == {f \in Flag : f.platform = a.platform /\ Near(f)} \ SolvedBy(a)

Send(r, a) ==
  /\ requests[r].at = "none" /\ sent < MaxRequests
  /\ \E F \in SUBSET given[a] :
       requests' = [requests EXCEPT ![r] =
         [at |-> "received", agent |-> a, flags |-> F, offered |-> {}, timestamp |-> 0]]
  /\ sent' = sent + 1
  /\ UNCHANGED <<now, solves, cached, given, views, heard>>

\* One flag that is known already, and nothing of the report is kept: the
\* agent gets an error.
Refuse(r) ==
  LET a == requests[r].agent
  IN  /\ requests[r].at = "received"
      /\ Known(a, Recordable(requests[r].flags))
      /\ requests' = [requests EXCEPT ![r] = NoRequest]
      /\ UNCHANGED <<now, solves, cached, given, sent, views, heard>>

\* A report without flags goes on to the check-in.  Nothing looks at the flags
\* again.
Record(r) ==
  LET a == requests[r].agent
      F == Recordable(requests[r].flags)
  IN  /\ requests[r].at = "received"
      /\ ~Known(a, F)
      /\ solves' = solves \cup
           {[flag |-> f, host |-> a.host, team |-> a.team, created_at |-> now] : f \in F}
      /\ requests' = [requests EXCEPT
           ![r].at = IF requests[r].flags = {} THEN "checkin" ELSE "recorded", ![r].flags = {}]
      /\ UNCHANGED <<now, cached, given, sent, views, heard>>

\* update_flags_data, also when all the flags were dummies.
UpdateFlagsData(r) ==
  /\ requests[r].at = "recorded"
  /\ grid' = NoGrid
  /\ requests' = [requests EXCEPT ![r].at = "checkin"]
  /\ UNCHANGED <<now, solves, agent_cache, given, sent, views, heard>>

\* Redis raises, or the process ends: the solves stay, the agent gets no answer.
Fail(r) ==
  /\ requests[r].at \in {"recorded", "checkin", "offered"}
  /\ requests' = [requests EXCEPT ![r] = NoRequest]
  /\ UNCHANGED <<now, solves, cached, given, sent, views, heard>>

-----------------------------------------------------------------------------
(* do_checkin *)

DoCheckin(r) ==
  /\ requests[r].at = "checkin"
  /\ requests' = [requests EXCEPT ![r].at = "offered", ![r].timestamp = now,
                                  ![r].offered = Offered(requests[r].agent)]
  /\ UNCHANGED <<now, solves, cached, given, sent, views, heard>>

\* The check-in is kept under the name of the host, whatever the team; the
\* answer arrives or is lost.
Remember(r) ==
  LET a == requests[r].agent
  IN  /\ requests[r].at = "offered"
      /\ agent_cache' = [agent_cache EXCEPT ![a.host] =
                           [timestamp |-> requests[r].timestamp, till |-> now + AgentTTL]]
      /\ heard' = [heard EXCEPT ![a.host] = @ \cup {now}]
      /\ given' \in {given, [given EXCEPT ![a] = @ \cup requests[r].offered]}
      /\ requests' = [requests EXCEPT ![r] = NoRequest]
      /\ UNCHANGED <<now, solves, grid, sent, views>>

-----------------------------------------------------------------------------
(* api_flags_solves *)

\* The flags of the grid of solves.
Active == {f \in Flag : f.start_time < now /\ now < f.end_time /\ ~f.dummy}

\* Mutant: one missed check-in is enough.
OfflineThresholdOne == INTERVAL

OfflineThreshold == 2 * INTERVAL

\* What the grid shows for a host of a team.
Status(h, t) ==
  LET of(perm) == \E s \in solves : /\ s.host = h /\ s.team = t /\ s.flag \in Active
                                    /\ s.flag.perm = perm
      last == IF now < agent_cache[h].till THEN agent_cache[h].timestamp ELSE 0
  IN  [user |-> of("user"), root |-> of("root"),
       offline |-> ~of("user") /\ ~of("root")
                   /\ (last = 0 \/ now - last > OfflineThreshold)]

Grid == [at |-> now, status |-> [a \in Agent |-> Status(a.host, a.team)]]

\* There is no copy, and the viewer computes one.
Compute(v) ==
  /\ views[v] = NoPage /\ now >= grid.till
  /\ views' = [views EXCEPT ![v] = Grid]
  /\ UNCHANGED <<now, solves, cached, requests, given, sent, heard>>

\* The viewer is shown it, and it is stored, although it may be old by now;
\* an error of Redis is passed over.
Store(v) ==
  /\ views[v] # NoPage
  /\ grid' \in {grid, [at |-> views[v].at, status |-> views[v].status, till |-> now + GridTTL]}
  /\ views' = [views EXCEPT ![v] = NoPage]
  /\ UNCHANGED <<now, solves, agent_cache, requests, given, sent, heard>>

\* The engine deletes the copy at the end of a round.
RoundEnds ==
  /\ grid # NoGrid /\ grid' = NoGrid
  /\ UNCHANGED <<now, solves, agent_cache, requests, given, sent, views, heard>>

-----------------------------------------------------------------------------

Tick ==
  /\ now < MaxTime /\ now' = now + 1
  /\ \A r \in Requests : requests[r].at = "offered" => now < requests[r].timestamp + Slow
  /\ \A v \in Viewers : views[v] # NoPage => now < views[v].at + Slow
  /\ UNCHANGED <<solves, cached, requests, given, sent, views, heard>>

Init ==
  /\ now = 1 /\ solves = {} /\ sent = 0
  /\ agent_cache = [h \in Host |-> NoEntry]
  /\ requests = [r \in Requests |-> NoRequest]
  /\ given = [a \in Agent |-> GivenBefore]
  /\ grid = NoGrid
  /\ views = [v \in Viewers |-> NoPage]
  /\ heard = [h \in Host |-> {}]

Next ==
  \/ \E r \in Requests :
       \/ \E a \in Agent : Send(r, a)
       \/ Refuse(r) \/ Record(r) \/ UpdateFlagsData(r) \/ Fail(r) \/ DoCheckin(r) \/ Remember(r)
  \/ \E v \in Viewers : Compute(v) \/ Store(v)
  \/ RoundEnds
  \/ Tick

Spec == Init /\ [][Next]_vars

-----------------------------------------------------------------------------
(* The scores *)

Sum(f(_), S) == MapThenSumSet(f, S)

\* flag_points_by_team, as of a freeze.
FlagPoints(t, f) ==
  Sum(LAMBDA s : IF s.flag.perm = "root" THEN flag_points_root ELSE flag_points_user,
      {s \in solves : s.team = t /\ ~s.flag.dummy /\ (f # NotFrozen => s.created_at <= f)})

\* api_flags_totals, whatever the freeze, in halves: one for a host, platform
\* and start time of which user flags were captured, two if a root flag was
\* among them.
Halves(t) ==
  LET mine == {s \in solves : s.team = t}
      group(s) == <<s.flag.platform, s.host, s.flag.start_time>>
      root(g) == \E s \in mine : group(s) = g /\ s.flag.perm = "root"
  IN  Sum(LAMBDA g : IF root(g) THEN 2 ELSE 1, {group(s) : s \in mine})

(***************************************************************************)
(* Correctness                                                             *)
(***************************************************************************)

\* A capture is worth its points once, live and as of any freeze, however often
\* and by how many requests at a time it is reported.
CapturesCountOnce ==
  \A t \in Team, f \in {NotFrozen} \cup 1..now :
    LET captures == {<<s.flag, s.host>> :
                       s \in {x \in solves : x.team = t /\ (f # NotFrozen => x.created_at <= f)}}
    IN  FlagPoints(t, f) =
          Sum(LAMBDA c : IF c[1].perm = "root" THEN flag_points_root ELSE flag_points_user, captures)

\* The page of totals, which does not look at dummy flags, and the live score,
\* which leaves them out, name the same teams; and the totals, which take the
\* best capture of a host at a time, are never worth more than the score.  The
\* totals know no freeze: they name every team the frozen score does, and may
\* name more.
TotalsFollowScore ==
  flag_points_root = 2 * flag_points_user /\ flag_points_user > 0 =>
    \A t \in Team :
      /\ Halves(t) = 0 <=> FlagPoints(t, NotFrozen) = 0
      /\ Halves(t) * flag_points_user <= FlagPoints(t, NotFrozen)
      /\ \A f \in 1..now : FlagPoints(t, f) > 0 => Halves(t) > 0

\* A report is refused only if this team's agent on this host has reported one
\* of its flags before: captures of other hosts and teams are no obstacle.
RefusedOnlyIfRepeated ==
  [][\A r \in Requests :
       requests[r].at = "received" /\ requests'[r].at = "none" =>
         \E s \in solves : /\ s.flag \in requests[r].flags /\ ~s.flag.dummy
                           /\ s.host = requests[r].agent.host /\ s.team = requests[r].agent.team]_vars

\* What a viewer may be shown now: the copy, or what it has just computed.
Shown ==
  {views[v] : v \in {x \in Viewers : views[x] # NoPage}}
    \cup {g \in {grid} : now < g.till}

\* The grid a viewer is shown was right at most the life of a copy and the time
\* to compute one ago, whatever was reported since.  At that time no agent had
\* been heard on a host shown as offline for a while, although a slow check-in
\* may put an older time over a newer one; a host that is shown neither as
\* offline nor as captured had been heard of within two intervals; and a capture
\* that is shown was of a flag then active.
StatusFollowsCheckins ==
  \A g \in Shown, a \in Agent :
    LET status == g.status[a]
        captured(perm) == \E s \in solves :
          /\ s.host = a.host /\ s.team = a.team /\ s.flag.perm = perm /\ s.created_at <= g.at
          /\ s.flag.start_time < g.at /\ g.at < s.flag.end_time
    IN  /\ now - g.at <= GridTTL + Slow
        /\ status.offline /\ 2 * INTERVAL < AgentTTL =>
             \A x \in heard[a.host] : x < g.at => g.at - x + Slow > 2 * INTERVAL
        /\ ~status.offline /\ ~status.user /\ ~status.root =>
             \E x \in heard[a.host] : x <= g.at /\ g.at - x <= 2 * INTERVAL
        /\ status.user => captured("user")
        /\ status.root => captured("root")

=============================================================================

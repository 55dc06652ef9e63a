---------------------------- MODULE Flags_proofs ----------------------------
(***************************************************************************)
(* Proofs about the check-ins of agents, for any flags, agents, teams and  *)
(* requests at a time, and any intervals.                                  *)
(***************************************************************************)
EXTENDS Flags, Sums, TLAPS

Received ==
  [at : {"received", "recorded", "checkin", "offered"}, agent : Agent,
   flags : SUBSET Flag, offered : SUBSET Flag, timestamp : Nat]

RequestTypes == requests \in [Requests -> Received \cup {NoRequest}]

Types ==
  /\ now \in Nat \ {0}
  /\ RequestTypes
  /\ given \in [Agent -> SUBSET Flag]
  /\ agent_cache \in [Host -> [timestamp : Nat, till : Nat]]
  /\ heard \in [Host -> SUBSET Nat]
  /\ views = [v \in Viewers |-> views[v]]
  /\ IsFiniteSet(solves)

\* A check-in under way began not long ago.
ServedInTime ==
  \A r \in Requests : requests[r].at = "offered" =>
    /\ 0 < requests[r].timestamp
    /\ requests[r].timestamp <= now /\ now <= requests[r].timestamp + Slow

\* What is remembered of a host is the last time it was heard of, or a time not
\* long before, put over it by a check-in answered later; and it is remembered
\* for AgentTTL.
RememberedOf(entry, times) ==
  IF times = {} THEN entry.timestamp = 0
  ELSE \E last \in times :
         /\ \A x \in times : x <= last
         /\ 0 < entry.timestamp /\ entry.timestamp <= last /\ last <= entry.timestamp + Slow
         /\ last + AgentTTL <= entry.till

Remembered ==
  \A h \in Host :
    /\ \A x \in heard[h] : x <= now
    /\ RememberedOf(agent_cache[h], heard[h])

\* A flag is captured once from a host by a team.
CapturedOnce ==
  /\ \A s \in solves : ~s.flag.dummy
  /\ \A s, z \in solves : s.flag = z.flag /\ s.host = z.host /\ s.team = z.team => s = z

SolvesStamped == \A s \in solves : s.created_at \in Nat /\ s.created_at <= now

\* A grid agrees with what was heard and captured at the time it is of.
Captured(S, a, perm, at) ==
  \E s \in S : /\ s.host = a.host /\ s.team = a.team /\ s.flag.perm = perm /\ s.created_at <= at
              /\ s.flag.start_time < at /\ at < s.flag.end_time

Right(page, H, S) ==
  \A a \in Agent :
    LET status == page.status[a]
        at     == page.at
    IN  /\ status.offline /\ 2 * INTERVAL < AgentTTL =>
             \A x \in H[a.host] : x < at => at - x + Slow > 2 * INTERVAL
        /\ ~status.offline /\ ~status.user /\ ~status.root =>
             \E x \in H[a.host] : x <= at /\ at - x <= 2 * INTERVAL
        /\ status.user => Captured(S, a, "user", at)
        /\ status.root => Captured(S, a, "root", at)

\* The grids kept and computed agree with their time, which is not long ago.
Kept(g) ==
  /\ g.till \in Nat
  /\ g.till > 0 =>
       /\ g.at \in Nat /\ g.at <= now /\ g.till <= g.at + Slow + GridTTL
       /\ Right(g, heard, solves)

Computed(p) ==
  /\ p.at \in Nat /\ p.at <= now /\ now <= p.at + Slow
  /\ Right(p, heard, solves)

Pages == Kept(grid) /\ \A v \in Viewers : views[v] # NoPage => Computed(views[v])

IInv == Types /\ ServedInTime /\ Remembered /\ CapturedOnce /\ SolvesStamped /\ Pages

-----------------------------------------------------------------------------

\* A grid that agrees with what was heard and captured goes on to, whatever is
\* heard from its time on and whatever is captured.
LEMMA StaysRight ==
  ASSUME NEW page, NEW H, NEW K, NEW S, NEW Z, Right(page, H, S), S \subseteq Z,
         \A a \in Agent : /\ H[a.host] \subseteq K[a.host]
                          /\ \A x \in K[a.host] : x \in H[a.host] \/ ~(x < page.at)
  PROVE  Right(page, K, Z)
  <1>1. \A a, perm : Captured(S, a, perm, page.at) => Captured(Z, a, perm, page.at)
    BY DEF Captured
  <1> QED
    BY <1>1 DEF Right

LEMMA HostOf == \A a \in Agent : a.host \in Host
  BY DEF Host

\* So do the grids kept and being computed, if time stands still.
LEMMA PagesStay ==
  ASSUME IInv, UNCHANGED <<now, views>>, grid' \in {grid, NoGrid}, solves \subseteq solves',
         \A h \in Host : /\ heard[h] \subseteq heard'[h]
                         /\ \A x \in heard'[h] : x \in heard[h] \/ x = now
  PROVE  Pages'
  <1>1. now \in Nat
    BY DEF IInv, Types
  <1>2. ASSUME NEW page, page.at \in Nat, page.at <= now, Right(page, heard, solves)
        PROVE  Right(page, heard', solves')
    <2>1. \A a \in Agent : /\ heard[a.host] \subseteq heard'[a.host]
                           /\ \A x \in heard'[a.host] : x \in heard[a.host] \/ ~(x < page.at)
      BY <1>1, <1>2, HostOf
    <2> QED
      BY <1>2, <2>1, StaysRight
  <1>3. \A v \in Viewers : views[v] # NoPage => Computed(views[v])'
    BY <1>2 DEF IInv, Pages, Computed
  <1>4. Kept(grid)'
    <2>1. CASE grid' = NoGrid
      BY <2>1 DEF Kept, NoGrid
    <2>2. CASE grid' = grid
      BY <1>2, <2>2 DEF IInv, Pages, Kept
    <2> QED
      BY <2>1, <2>2
  <1> QED
    BY <1>3, <1>4 DEF Pages

\* The grid is right when it is computed.
LEMMA FreshRight == IInv => Right(Grid, heard, solves) /\ Grid.at = now
  <1> SUFFICES ASSUME IInv, NEW a \in Agent
               PROVE  LET status == Status(a.host, a.team)
                      IN  /\ status.offline /\ 2 * INTERVAL < AgentTTL =>
                               \A x \in heard[a.host] : x < now => now - x + Slow > 2 * INTERVAL
                          /\ ~status.offline /\ ~status.user /\ ~status.root =>
                               \E x \in heard[a.host] : x <= now /\ now - x <= 2 * INTERVAL
                          /\ status.user => Captured(solves, a, "user", now)
                          /\ status.root => Captured(solves, a, "root", now)
    BY DEF Right, Grid
  <1> DEFINE h == a.host
             e == agent_cache[h]
             last == IF now < e.till THEN e.timestamp ELSE 0
             status == Status(h, a.team)
  <1>1. /\ h \in Host /\ now \in Nat /\ heard[h] \subseteq Nat /\ e.timestamp \in Nat /\ e.till \in Nat
        /\ AgentTTL \in Nat /\ Slow \in Nat /\ INTERVAL \in Nat
        /\ \A x \in heard[h] : x <= now
        /\ RememberedOf(e, heard[h])
    BY HostOf, FlagsAssumption DEF IInv, Types, Remembered
  <1>2. status.offline = (~status.user /\ ~status.root /\ (last = 0 \/ now - last > 2 * INTERVAL))
    BY DEF Status, OfflineThreshold
  <1>3. /\ status.user => Captured(solves, a, "user", now)
        /\ status.root => Captured(solves, a, "root", now)
    BY DEF Status, Active, Captured, IInv, SolvesStamped
  <1> HIDE DEF status, e, h
  <1>4. ASSUME last = 0 \/ now - last > 2 * INTERVAL, 2 * INTERVAL < AgentTTL, NEW x \in heard[h]
        PROVE  now - x + Slow > 2 * INTERVAL
    <2>1. PICK z \in heard[h] :
            /\ x <= z
            /\ 0 < e.timestamp /\ e.timestamp <= z /\ z <= e.timestamp + Slow
            /\ z + AgentTTL <= e.till
      BY <1>1, <1>4 DEF RememberedOf
    <2>2. x \in Nat /\ z \in Nat
      BY <1>1
    <2> QED
      BY <1>1, <1>4, <2>1, <2>2
  <1>5. ASSUME ~(last = 0 \/ now - last > 2 * INTERVAL)
        PROVE  \E x \in heard[h] : x <= now /\ now - x <= 2 * INTERVAL
    <2>1. last = e.timestamp /\ e.timestamp # 0
      BY <1>5
    <2>2. PICK z \in heard[h] : e.timestamp <= z
      BY <1>1, <2>1 DEF RememberedOf
    <2>3. z \in Nat /\ z <= now
      BY <1>1
    <2> QED
      BY <1>1, <1>5, <2>1, <2>2, <2>3
  <1> HIDE DEF last
  <1> QED
    BY <1>2, <1>3, <1>4, <1>5 DEF status, h

LEMMA InitOk == Init => IInv
  <1> SUFFICES ASSUME Init PROVE IInv
    OBVIOUS
  <1>1. RequestTypes /\ \A r \in Requests : requests[r].at = "none"
    BY DEF Init, RequestTypes, NoRequest
  <1>2. Types
    BY <1>1, FS_EmptySet, FlagsAssumption DEF Init, Types, NoEntry
  <1>3. Remembered /\ SolvesStamped
    BY DEF Init, Remembered, RememberedOf, NoEntry, SolvesStamped
  <1>4. Pages
    BY DEF Init, Pages, Kept, NoGrid
  <1> QED
    BY <1>1, <1>2, <1>3, <1>4 DEF Init, IInv, ServedInTime, CapturedOnce

\* A request is replaced by another.
LEMMA RequestReplaced ==
  ASSUME RequestTypes, NEW r \in Requests, NEW q \in Received \cup {NoRequest},
         requests' = [requests EXCEPT ![r] = q]
  PROVE  /\ RequestTypes'
         /\ requests'[r] = q /\ \A p \in Requests : p # r => requests'[p] = requests[p]
  BY DEF RequestTypes

\* A request that is served was received.
LEMMA RequestServed ==
  ASSUME RequestTypes, NEW r \in Requests, requests[r].at # "none"
  PROVE  requests[r] \in Received
  BY DEF RequestTypes, NoRequest

\* Steps that move a request on, and touch no table.
LEMMA RequestStep ==
  ASSUME IInv, NEW r \in Requests, NEW q \in Received \cup {NoRequest},
         requests' = [requests EXCEPT ![r] = q],
         q.at = "offered" => q.timestamp = now,
         UNCHANGED <<now, solves, agent_cache, given, views, heard>>, grid' \in {grid, NoGrid}
  PROVE  IInv'
  <1>1. Pages'
    BY PagesStay
  <1>2. /\ RequestTypes' /\ requests'[r] = q
        /\ \A p \in Requests : p # r => requests'[p] = requests[p]
    BY RequestReplaced DEF IInv, Types
  <1>3. Types'
    BY <1>2 DEF IInv, Types
  <1>4. ServedInTime'
    <2>1. now \in Nat \ {0} /\ Slow \in Nat
      BY FlagsAssumption DEF IInv, Types
    <2> QED
      BY <1>2, <2>1 DEF IInv, ServedInTime
  <1> QED
    BY <1>1, <1>3, <1>4 DEF IInv, Remembered, CapturedOnce, SolvesStamped

LEMMA RecordStep == ASSUME IInv, NEW r \in Requests, Record(r) PROVE IInv'
  <1> USE DEF IInv
  <1> DEFINE a == requests[r].agent
             F == Recordable(requests[r].flags)
             at == IF requests[r].flags = {} THEN "checkin" ELSE "recorded"
             q == [requests[r] EXCEPT !.at = at, !.flags = {}]
  <1>0. RequestTypes /\ now \in Nat \ {0} /\ requests[r] \in Received
    BY RequestServed DEF Types, Record
  <1>1. /\ ~Known(a, F)
        /\ solves' = solves \cup
             {[flag |-> f, host |-> a.host, team |-> a.team, created_at |-> now] : f \in F}
        /\ requests' = [requests EXCEPT ![r] = q]
        /\ UNCHANGED <<now, agent_cache, given, heard, views, grid>>
    BY <1>0 DEF Record, cached, RequestTypes
  <1>2. q \in Received /\ q.at # "offered"
    BY <1>0 DEF Received
  <1> HIDE DEF q
  <1>3. /\ RequestTypes' /\ requests'[r].at # "offered"
        /\ \A p \in Requests : p # r => requests'[p] = requests[p]
    BY <1>0, <1>1, <1>2, RequestReplaced
  <1>4. \A s \in solves' : s \in solves \/
          \E f \in F : s = [flag |-> f, host |-> a.host, team |-> a.team, created_at |-> now]
    BY <1>1
  <1>5. CapturedOnce'
    <2>1. \A s \in solves : ~(s.host = a.host /\ s.team = a.team /\ s.flag \in F)
      BY <1>1 DEF Known, SolvedBy
    <2>2. \A f \in F : ~f.dummy
      BY DEF Recordable
    <2> HIDE DEF a, F
    <2> QED
      BY <1>4, <2>1, <2>2 DEF CapturedOnce
  <1>6. SolvesStamped'
    <2> HIDE DEF a, F
    <2> QED
      BY <1>0, <1>1, <1>4 DEF SolvesStamped
  <1>7. IsFiniteSet(solves')
    <2> DEFINE new == {[flag |-> f, host |-> a.host, team |-> a.team, created_at |-> now] : f \in F}
    <2>1. IsFiniteSet(F)
      <3>1. F \in SUBSET Flag
        BY <1>0 DEF Received, Recordable
      <3> QED
        BY <3>1, FlagsAssumption, FS_Subset
    <2>2. IsFiniteSet(new)
      <3> DEFINE e == [f \in F |-> [flag |-> f, host |-> a.host, team |-> a.team, created_at |-> now]]
      <3>1. new = {e[f] : f \in F}
        OBVIOUS
      <3> HIDE DEF e, a, F, new
      <3> QED
        BY <2>1, <3>1, FiniteImage
    <2> HIDE DEF new
    <2>3. IsFiniteSet(solves \cup new)
      BY <2>2, FS_Union DEF Types
    <2> QED
      BY <1>1, <2>3 DEF new
  <1>8. Pages'
    <2>1. solves \subseteq solves'
      BY <1>1
    <2> QED
      BY <1>1, <2>1, PagesStay
  <1> HIDE DEF a, F
  <1> QED
    BY <1>1, <1>3, <1>5, <1>6, <1>7, <1>8 DEF Types, ServedInTime, Remembered

LEMMA RememberStep == ASSUME IInv, NEW r \in Requests, Remember(r) PROVE IInv'
  <1> USE DEF IInv
  <1> DEFINE a == requests[r].agent
             t == requests[r].timestamp
             entry == [timestamp |-> t, till |-> now + AgentTTL]
  <1>0. /\ RequestTypes /\ now \in Nat \ {0} /\ requests[r] \in Received
        /\ AgentTTL \in Nat /\ Slow \in Nat
    BY RequestServed, FlagsAssumption DEF Types, Remember
  <1>1. /\ agent_cache' = [agent_cache EXCEPT ![a.host] = entry]
        /\ heard' = [heard EXCEPT ![a.host] = heard[a.host] \cup {now}]
        /\ given' \in {given, [given EXCEPT ![a] = given[a] \cup requests[r].offered]}
        /\ requests' = [requests EXCEPT ![r] = NoRequest]
        /\ UNCHANGED <<now, solves, grid, views>>
    BY DEF Remember
  <1>2. /\ a \in Agent /\ t \in Nat /\ a.host \in Host /\ requests[r].offered \in SUBSET Flag
        /\ 0 < t /\ t <= now /\ now <= t + Slow
    BY <1>0, HostOf DEF Received, ServedInTime, Remember
  <1>3. /\ RequestTypes' /\ requests'[r].at = "none"
        /\ \A p \in Requests : p # r => requests'[p] = requests[p]
    <2>1. NoRequest.at = "none" /\ NoRequest \in Received \cup {NoRequest}
      BY DEF NoRequest
    <2> QED
      BY <1>0, <1>1, <2>1, RequestReplaced
  <1>4. given' \in [Agent -> SUBSET Flag]
    BY <1>1, <1>2 DEF Types
  <1>5. entry \in [timestamp : Nat, till : Nat] /\ entry.timestamp = t /\ entry.till = now + AgentTTL
    BY <1>0, <1>2
  <1> HIDE DEF a, t, entry
  <1>6. /\ agent_cache' \in [Host -> [timestamp : Nat, till : Nat]] /\ heard' \in [Host -> SUBSET Nat]
        /\ agent_cache'[a.host] = entry /\ heard'[a.host] = heard[a.host] \cup {now}
        /\ \A h \in Host : h # a.host => agent_cache'[h] = agent_cache[h] /\ heard'[h] = heard[h]
    BY <1>0, <1>1, <1>2, <1>5 DEF Types
  <1>7. Remembered'
    <2> SUFFICES ASSUME NEW h \in Host
                 PROVE  /\ \A x \in heard'[h] : x <= now
                        /\ RememberedOf(agent_cache'[h], heard'[h])
      BY <1>1 DEF Remembered
    <2>1. CASE h = a.host
      <3>1. now \in heard'[h] /\ \A x \in heard'[h] : x <= now
        BY <1>0, <1>6, <2>1 DEF Remembered
      <3> QED
        BY <1>0, <1>2, <1>5, <1>6, <2>1, <3>1 DEF RememberedOf
    <2>2. CASE h # a.host
      BY <1>6, <2>2 DEF Remembered
    <2> QED
      BY <2>1, <2>2
  <1>8. Pages'
    <2>1. \A h \in Host : /\ heard[h] \subseteq heard'[h]
                          /\ \A x \in heard'[h] : x \in heard[h] \/ x = now
      BY <1>6
    <2> QED
      BY <1>1, <2>1, PagesStay
  <1> QED
    BY <1>1, <1>3, <1>4, <1>6, <1>7, <1>8 DEF Types, ServedInTime, CapturedOnce, SolvesStamped

\* Computing and storing the grid.
LEMMA PageStep == ASSUME IInv, NEW v \in Viewers, Compute(v) \/ Store(v) PROVE IInv'
  <1> USE DEF IInv
  <1>1. UNCHANGED <<now, solves, agent_cache, requests, given, heard>>
    BY DEF Compute, Store, cached
  <1>2. now \in Nat /\ Slow \in Nat /\ GridTTL \in Nat
    BY FlagsAssumption DEF Types
  <1>3. CASE Compute(v)
    <2>1. views' = [views EXCEPT ![v] = Grid] /\ UNCHANGED grid
      BY <1>3 DEF Compute, cached
    <2>2. Computed(Grid)
      BY <1>2, FreshRight DEF Computed
    <2> DEFINE g == Grid
    <2>3. Computed(g) /\ views' = [views EXCEPT ![v] = g]
      BY <2>1, <2>2
    <2> HIDE DEF g
    <2>4. /\ views' = [w \in Viewers |-> views'[w]] /\ views'[v] = g
          /\ \A w \in Viewers : w # v => views'[w] = views[w]
      BY <2>3 DEF Types
    <2>5. \A p : Computed(p) <=> /\ p.at \in Nat /\ p.at <= now /\ now <= p.at + Slow
                                 /\ Right(p, heard, solves)
      BY DEF Computed
    <2>6. \A w \in Viewers : views'[w] # NoPage => Computed(views[w])'
      BY <1>1, <2>3, <2>4, <2>5 DEF Pages, Computed
    <2>7. Kept(grid)'
      BY <1>1, <2>1 DEF Pages, Kept
    <2> QED
      BY <1>1, <2>4, <2>6, <2>7
         DEF Types, RequestTypes, ServedInTime, Remembered, CapturedOnce, SolvesStamped, Pages
  <1>4. CASE Store(v)
    <2> DEFINE p == views[v]
               g == [at |-> p.at, status |-> p.status, till |-> now + GridTTL]
    <2>1. /\ p # NoPage /\ grid' \in {grid, g} /\ views' = [views EXCEPT ![v] = NoPage]
      BY <1>4 DEF Store
    <2>2. Computed(p)
      BY <2>1 DEF Pages
    <2>3. Kept(g)
      <3>1. g.at = p.at /\ g.status = p.status /\ g.till = now + GridTTL
        OBVIOUS
      <3> HIDE DEF g, p
      <3>2. Right(g, heard, solves)
        BY <2>2, <3>1 DEF Computed, Right
      <3> QED
        BY <1>2, <2>2, <3>1, <3>2 DEF Kept, Computed
    <2> HIDE DEF g, p
    <2>4. Kept(grid)'
      <3>1. \A k : Kept(k) =>
              /\ k.till \in Nat
              /\ k.till > 0 => /\ k.at \in Nat /\ k.at <= now /\ k.till <= k.at + Slow + GridTTL
                               /\ Right(k, heard, solves)
        BY DEF Kept
      <3> QED
        BY <1>1, <2>1, <2>3, <3>1 DEF Pages, Kept
    <2>5. /\ views' = [w \in Viewers |-> views'[w]] /\ views'[v] = NoPage
          /\ \A w \in Viewers : w # v => views'[w] = views[w]
      BY <2>1 DEF Types
    <2>6. \A w \in Viewers : views'[w] # NoPage => Computed(views[w])'
      BY <1>1, <2>5 DEF Pages, Computed
    <2> QED
      BY <1>1, <2>4, <2>5, <2>6
         DEF Types, RequestTypes, ServedInTime, Remembered, CapturedOnce, SolvesStamped, Pages
  <1> QED
    BY <1>3, <1>4

LEMMA TickStep == ASSUME IInv, Tick PROVE IInv'
  <1> USE DEF IInv
  <1>1. /\ now' = now + 1 /\ now \in Nat \ {0} /\ Slow \in Nat /\ GridTTL \in Nat
        /\ \A r \in Requests : requests[r].at = "offered" => now < requests[r].timestamp + Slow
        /\ \A v \in Viewers : views[v] # NoPage => now < views[v].at + Slow
        /\ UNCHANGED <<solves, agent_cache, grid, requests, given, views, heard>>
    BY FlagsAssumption DEF Tick, cached, Types
  <1>2. Types'
    BY <1>1 DEF Types, RequestTypes
  <1>3. ServedInTime'
    <2> SUFFICES ASSUME NEW r \in Requests, requests[r].at = "offered"
                 PROVE  /\ 0 < requests[r].timestamp
                        /\ requests[r].timestamp <= now + 1 /\ now + 1 <= requests[r].timestamp + Slow
      BY <1>1 DEF ServedInTime
    <2>1. requests[r].timestamp \in Nat
      BY RequestServed DEF Types, Received
    <2> QED
      BY <1>1, <2>1 DEF ServedInTime
  <1>4. Remembered' /\ SolvesStamped'
    <2>1. \A h \in Host : heard[h] \subseteq Nat
      BY DEF Types
    <2> QED
      BY <1>1, <2>1 DEF Remembered, SolvesStamped
  <1>5. Pages'
    <2>1. Kept(grid)'
      BY <1>1 DEF Pages, Kept
    <2>2. \A v \in Viewers : views[v] # NoPage => Computed(views[v])'
      BY <1>1 DEF Pages, Computed
    <2> QED
      BY <1>1, <2>1, <2>2 DEF Pages
  <1> QED
    BY <1>1, <1>2, <1>3, <1>4, <1>5 DEF CapturedOnce

LEMMA StepOk == IInv /\ [Next]_vars => IInv'
  <1> SUFFICES ASSUME IInv, [Next]_vars PROVE IInv'
    OBVIOUS
  <1>0. RequestTypes /\ now \in Nat \ {0}
    BY DEF IInv, Types
  <1>1. ASSUME NEW r \in Requests, NEW a \in Agent, Send(r, a) PROVE IInv'
    <2>1. PICK F \in SUBSET given[a] :
            requests' = [requests EXCEPT ![r] =
              [at |-> "received", agent |-> a, flags |-> F, offered |-> {}, timestamp |-> 0]]
      BY <1>1 DEF Send
    <2> DEFINE q == [at |-> "received", agent |-> a, flags |-> F, offered |-> {}, timestamp |-> 0]
    <2>2. q \in Received /\ q.at # "offered"
      BY DEF IInv, Types, Received
    <2>3. requests' = [requests EXCEPT ![r] = q]
          /\ UNCHANGED <<now, solves, agent_cache, grid, given, views, heard>>
      BY <1>1, <2>1 DEF Send, cached
    <2> HIDE DEF q
    <2> QED
      BY <2>2, <2>3, RequestStep
  <1>2. ASSUME NEW r \in Requests, Refuse(r) \/ Fail(r) PROVE IInv'
    <2>1. requests' = [requests EXCEPT ![r] = NoRequest]
          /\ UNCHANGED <<now, solves, agent_cache, grid, given, views, heard>>
      BY <1>2 DEF Refuse, Fail, cached
    <2>2. NoRequest.at # "offered"
      BY DEF NoRequest
    <2> QED
      BY <2>1, <2>2, RequestStep
  <1>3. ASSUME NEW r \in Requests, UpdateFlagsData(r) PROVE IInv'
    <2> DEFINE q == [requests[r] EXCEPT !.at = "checkin"]
    <2>1. requests' = [requests EXCEPT ![r] = q] /\ grid' = NoGrid
          /\ UNCHANGED <<now, solves, agent_cache, given, views, heard>>
      BY <1>0, <1>3 DEF UpdateFlagsData, RequestTypes
    <2>2. q \in Received /\ q.at # "offered"
      BY <1>0, <1>3, RequestServed DEF UpdateFlagsData, Received
    <2> HIDE DEF q
    <2> QED
      BY <2>1, <2>2, RequestStep
  <1>4. ASSUME NEW r \in Requests, DoCheckin(r) PROVE IInv'
    <2> DEFINE O == Offered(requests[r].agent)
               q == [requests[r] EXCEPT !.at = "offered", !.timestamp = now, !.offered = O]
    <2>1. requests' = [requests EXCEPT ![r] = q]
          /\ UNCHANGED <<now, solves, agent_cache, grid, given, views, heard>>
      BY <1>0, <1>4 DEF DoCheckin, RequestTypes, cached
    <2>2. O \in SUBSET Flag
      BY DEF Offered
    <2>3. q \in Received /\ q.timestamp = now
      <3>1. requests[r] \in Received
        BY <1>0, <1>4, RequestServed DEF DoCheckin
      <3> HIDE DEF O
      <3> QED
        BY <1>0, <2>2, <3>1 DEF Received
    <2> HIDE DEF q
    <2> QED
      BY <2>1, <2>3, RequestStep
  <1>5. CASE RoundEnds
    <2>1. UNCHANGED <<now, solves, agent_cache, requests, given, views, heard>> /\ grid' = NoGrid
      BY <1>5 DEF RoundEnds
    <2>2. Pages'
      BY <2>1, PagesStay
    <2> QED
      BY <2>1, <2>2
         DEF IInv, Types, RequestTypes, ServedInTime, Remembered, CapturedOnce, SolvesStamped
  <1>6. CASE UNCHANGED vars
    <2>1. UNCHANGED <<now, solves, agent_cache, grid, requests, given, views, heard>>
      BY <1>6 DEF vars, cached
    <2>2. Pages'
      BY <2>1, PagesStay
    <2> QED
      BY <2>1, <2>2
         DEF IInv, Types, RequestTypes, ServedInTime, Remembered, CapturedOnce, SolvesStamped
  <1> QED
    BY <1>1, <1>2, <1>3, <1>4, <1>5, <1>6, RecordStep, RememberStep, PageStep, TickStep DEF Next

LEMMA Inductive == Spec => []IInv
  BY InitOk, StepOk, PTL DEF Spec

-----------------------------------------------------------------------------
(* The sums *)

Worth(f) == IF f.perm = "root" THEN flag_points_root ELSE flag_points_user

Mine(t) == {s \in solves : s.team = t}

\* As of a freeze.
MineBy(t, f) == {s \in Mine(t) : f # NotFrozen => s.created_at <= f}

PointsOf(S) == [s \in S |-> Worth(s.flag)]

\* The score of a team is the sum of what its captures are worth, none being a
\* dummy.
LEMMA PointsAsSum ==
  ASSUME CapturedOnce, NEW t, NEW by
  PROVE  FlagPoints(t, by) = SumOver(PointsOf(MineBy(t, by)), MineBy(t, by))
  <1> DEFINE S == {s \in solves : s.team = t /\ ~s.flag.dummy /\ (by # NotFrozen => s.created_at <= by)}
             f == PointsOf(S)
             E(g) == [u \in SUBSET S |-> IF u = {} THEN 0 ELSE
                        (IF First(u).flag.perm = "root" THEN flag_points_root ELSE flag_points_user)
                        + g[u \ {First(u)}]]
  <1>1. ASSUME NEW g PROVE E(g) = Steps(f, S, g)
    <2>1. \A u \in SUBSET S : u # {} => First(u) \in S
      BY FirstIsIn
    <2> QED
      BY <2>1 DEF Steps, PointsOf, Worth
  <1>2. FlagPoints(t, by) = (CHOOSE g : g = E(g))[S]
    BY Zenon DEF FlagPoints, Sum, MapThenSumSet, MapThenFoldSet, First
  <1>3. S = MineBy(t, by)
    BY DEF CapturedOnce, Mine, MineBy
  <1> HIDE DEF E, f, S
  <1>4. (CHOOSE g : g = E(g)) = Partial(f, S)
    BY <1>1, Zenon DEF Partial
  <1>5. FlagPoints(t, by) = SumOver(f, S)
    BY <1>2, <1>4, SumByPartial, Zenon
  <1> QED
    BY <1>3, <1>5 DEF f

Capture(s) == <<s.flag, s.host>>

CapturePoints(C) ==
  [c \in C |-> IF c[1].perm = "root" THEN flag_points_root ELSE flag_points_user]

\* What counting captures, as pairs of a flag and a host, comes to.
LEMMA CapturesAsSum ==
  ASSUME NEW C
  PROVE  Sum(LAMBDA c : IF c[1].perm = "root" THEN flag_points_root ELSE flag_points_user, C)
           = SumOver(CapturePoints(C), C)
  <1> DEFINE f == CapturePoints(C)
             E(g) == [u \in SUBSET C |-> IF u = {} THEN 0 ELSE
                        (IF First(u)[1].perm = "root" THEN flag_points_root ELSE flag_points_user)
                        + g[u \ {First(u)}]]
  <1>1. ASSUME NEW g PROVE E(g) = Steps(f, C, g)
    <2>1. \A u \in SUBSET C : u # {} => First(u) \in C
      BY FirstIsIn
    <2> QED
      BY <2>1 DEF Steps, CapturePoints
  <1>2. Sum(LAMBDA c : IF c[1].perm = "root" THEN flag_points_root ELSE flag_points_user, C)
          = (CHOOSE g : g = E(g))[C]
    BY Zenon DEF Sum, MapThenSumSet, MapThenFoldSet, First
  <1> HIDE DEF E, f
  <1>3. (CHOOSE g : g = E(g)) = Partial(f, C)
    BY <1>1, Zenon DEF Partial
  <1> QED
    BY <1>2, <1>3, SumByPartial, Zenon DEF f

Group(s) == <<s.flag.platform, s.host, s.flag.start_time>>

Groups(t) == {Group(s) : s \in Mine(t)}

RootIn(t, g) == \E s \in Mine(t) : Group(s) = g /\ s.flag.perm = "root"

HalvesOf(t) == [g \in Groups(t) |-> IF RootIn(t, g) THEN 2 ELSE 1]

\* The total of a team is a sum over the groups of its captures.
LEMMA HalvesAsSum ==
  ASSUME NEW t
  PROVE  Halves(t) = SumOver(HalvesOf(t), Groups(t))
  <1> DEFINE G == Groups(t)
             f == HalvesOf(t)
             E(h) == [u \in SUBSET G |-> IF u = {} THEN 0 ELSE
                        (IF RootIn(t, First(u)) THEN 2 ELSE 1) + h[u \ {First(u)}]]
  <1>1. ASSUME NEW h PROVE E(h) = Steps(f, G, h)
    <2>1. \A u \in SUBSET G : u # {} => First(u) \in G
      BY FirstIsIn
    <2> HIDE DEF G
    <2> QED
      BY <2>1 DEF Steps, HalvesOf, G
  <1>2. Halves(t) = (CHOOSE h : h = E(h))[G]
    BY Zenon DEF Halves, Sum, MapThenSumSet, MapThenFoldSet, First, Groups, Group, RootIn, Mine
  <1> HIDE DEF E, f, G
  <1>3. (CHOOSE h : h = E(h)) = Partial(f, G)
    BY <1>1, Zenon DEF Partial
  <1> QED
    BY <1>2, <1>3, SumByPartial, Zenon DEF f, G

\* A team's captures can be summed up.
LEMMA PointsAreSummable ==
  ASSUME IInv, NEW t, NEW by
  PROVE  LET S == MineBy(t, by)
         IN  /\ Summable(PointsOf(S), S)
             /\ \A s \in S : PointsOf(S)[s] \in {flag_points_root, flag_points_user}
             /\ flag_points_root \in Nat /\ flag_points_user \in Nat
  <1>1. IsFiniteSet(MineBy(t, by))
    BY FS_Subset DEF IInv, Types, Mine, MineBy
  <1> QED
    BY <1>1, FlagsAssumption DEF Summable, PointsOf, Worth

\* A team's captures are as many as the pairs of a flag and a host.
LEMMA CountedOnce == IInv => CapturesCountOnce
  <1> SUFFICES ASSUME IInv, NEW t \in Team, NEW by \in {NotFrozen} \cup 1..now
               PROVE  FlagPoints(t, by) =
                        Sum(LAMBDA c : IF c[1].perm = "root" THEN flag_points_root ELSE flag_points_user,
                            {<<s.flag, s.host>> :
                               s \in {x \in solves : x.team = t /\ (by # NotFrozen => x.created_at <= by)}})
    BY Zenon DEF CapturesCountOnce
  <1> DEFINE S == MineBy(t, by)
             C == {<<s.flag, s.host>> :
                     s \in {x \in solves : x.team = t /\ (by # NotFrozen => x.created_at <= by)}}
             f == PointsOf(S)
             g == CapturePoints(C)
             h == [s \in S |-> Capture(s)]
  <1>1. Summable(f, S) /\ DOMAIN h = S
    BY PointsAreSummable
  <1>2. C = {h[s] : s \in S}
    BY DEF Mine, MineBy, Capture
  <1>3. \A s \in S : f[s] = g[h[s]]
    <2> SUFFICES ASSUME NEW s \in S PROVE f[s] = g[h[s]]
      OBVIOUS
    <2>1. h[s] \in C /\ h[s][1] = s.flag
      BY <1>2 DEF Capture
    <2> HIDE DEF C, h, S
    <2> QED
      BY <2>1 DEF PointsOf, Worth, CapturePoints
  <1>4. \A x, y \in S : h[x] = h[y] => x = y
    BY DEF Mine, MineBy, Capture, IInv, CapturedOnce
  <1>5. FlagPoints(t, by) = SumOver(f, S)
    BY PointsAsSum DEF IInv
  <1>6. Sum(LAMBDA c : IF c[1].perm = "root" THEN flag_points_root ELSE flag_points_user, C) = SumOver(g, C)
    BY CapturesAsSum
  <1> HIDE DEF S, C, f, g, h
  <1>7. SumOver(f, S) = SumOver(g, C)
    BY <1>1, <1>2, <1>3, <1>4, SumImage
  <1> QED
    BY <1>5, <1>6, <1>7, Zenon DEF C

\* A team has points if and only if it has captures, and the best capture of
\* each group is worth what the group counts for.
LEMMA TotalsWithinScore == IInv => TotalsFollowScore
  <1> SUFFICES ASSUME IInv, NEW t \in Team,
                      flag_points_root = 2 * flag_points_user, flag_points_user > 0
               PROVE  /\ Halves(t) = 0 <=> FlagPoints(t, NotFrozen) = 0
                      /\ Halves(t) * flag_points_user <= FlagPoints(t, NotFrozen)
                      /\ \A by \in 1..now : FlagPoints(t, by) > 0 => Halves(t) > 0
    BY DEF TotalsFollowScore
  <1> DEFINE S == Mine(t)
             G == Groups(t)
             p == PointsOf(S)
             h == HalvesOf(t)
             u == flag_points_user
  <1>1. /\ Summable(p, S) /\ u \in Nat /\ flag_points_root \in Nat
        /\ \A s \in S : p[s] \in Nat /\ p[s] > 0
    <2>1. MineBy(t, NotFrozen) = S
      BY DEF MineBy
    <2> QED
      BY <2>1, PointsAreSummable
  <1>2. Summable(h, G) /\ \A g \in G : h[g] \in {1, 2}
    <2> DEFINE e == [s \in S |-> Group(s)]
    <2>1. G = {e[s] : s \in S}
      BY DEF Groups
    <2> HIDE DEF e, S
    <2>2. IsFiniteSet(G)
      <3> HIDE DEF G
      <3> QED
        BY <1>1, <2>1, FiniteImage DEF Summable
    <2> QED
      BY <2>2 DEF Summable, HalvesOf
  <1>3. FlagPoints(t, NotFrozen) = SumOver(p, S)
    <2>1. MineBy(t, NotFrozen) = S
      BY DEF MineBy
    <2> QED
      BY <2>1, PointsAsSum DEF IInv
  <1>4. Halves(t) = SumOver(h, G)
    BY HalvesAsSum
  <1>5. SumOver(p, S) \in Int /\ SumOver(h, G) \in Int
    <2> HIDE DEF p, S, h, G
    <2> QED
      BY <1>1, <1>2, SumInt
  <1>6. ASSUME S = {} PROVE Halves(t) = 0 /\ FlagPoints(t, NotFrozen) = 0
    <2>1. G = {}
      BY <1>6 DEF Groups
    <2>2. SumOver(p, S) = 0 /\ SumOver(h, G) = 0
      <3> HIDE DEF p, S, h, G
      <3> QED
        BY <1>6, <2>1, SumEmpty
    <2> HIDE DEF p, S, h, G
    <2> QED
      BY <1>1, <1>3, <1>4, <2>2
  <1>7. ASSUME S # {} PROVE Halves(t) > 0 /\ FlagPoints(t, NotFrozen) > 0
    <2>1. PICK s : s \in S
      BY <1>7
    <2>2. Group(s) \in G
      BY <2>1 DEF Groups
    <2>3. SumOver(p, S) > 0
      <3>1. p[s] > 0 /\ \A z \in S : p[z] >= 0
        BY <1>1, <2>1
      <3> HIDE DEF p, S
      <3> QED
        BY <1>1, <2>1, <3>1, SumPositive
    <2>4. SumOver(h, G) > 0
      <3>1. h[Group(s)] > 0 /\ \A g \in G : h[g] >= 0
        BY <1>2, <2>2
      <3> HIDE DEF h, G
      <3> QED
        BY <1>2, <2>2, <3>1, SumPositive
    <2> HIDE DEF p, S, h, G
    <2> QED
      BY <1>3, <1>4, <2>3, <2>4
  <1> DEFINE Best(g, s) == s \in S /\ Group(s) = g /\ (RootIn(t, g) => s.flag.perm = "root")
             best == [g \in G |-> CHOOSE s : Best(g, s)]
             w == [g \in G |-> h[g] * u]
             T == {best[g] : g \in G}
  <1>8. \A g \in G : Best(g, best[g])
    <2> SUFFICES ASSUME NEW g \in G PROVE \E s : Best(g, s)
      OBVIOUS
    <2> QED
      BY DEF Groups, RootIn
  <1>9. \A g \in G : w[g] = p[best[g]]
    <2> SUFFICES ASSUME NEW g \in G PROVE w[g] = p[best[g]]
      OBVIOUS
    <2>1. best[g] \in S /\ Group(best[g]) = g /\ (RootIn(t, g) => best[g].flag.perm = "root")
      BY <1>8
    <2>2. RootIn(t, g) <=> best[g].flag.perm = "root"
      BY <2>1 DEF RootIn
    <2>3. h[g] = IF RootIn(t, g) THEN 2 ELSE 1
      BY DEF HalvesOf
    <2>4. w[g] = h[g] * u
      OBVIOUS
    <2> HIDE DEF best, w, h, S, G
    <2>5. p[best[g]] = IF best[g].flag.perm = "root" THEN flag_points_root ELSE u
      BY <2>1 DEF PointsOf, Worth
    <2> HIDE DEF p
    <2> QED
      BY <1>1, <2>2, <2>3, <2>4, <2>5
  <1>10. Summable(w, G) /\ SumOver(w, G) = SumOver(h, G) * u
    <2>1. \A g \in G : w[g] = h[g] * u
      OBVIOUS
    <2> HIDE DEF w, h, G
    <2> QED
      BY <1>1, <1>2, <2>1, SumScaled
  <1>11. SumOver(w, G) = SumOver(p, T)
    <2>1. DOMAIN best = G
      OBVIOUS
    <2>2. \A x, y \in G : best[x] = best[y] => x = y
      BY <1>8
    <2> HIDE DEF w, h, G, p, S, best
    <2> QED
      BY <1>9, <1>10, <2>1, <2>2, SumImage
  <1>12. SumOver(p, T) <= SumOver(p, S)
    <2>1. T \in SUBSET S
      BY <1>8
    <2>2. \A s \in S : p[s] >= 0
      BY <1>1
    <2> HIDE DEF T, p, S
    <2> QED
      BY <1>1, <2>1, <2>2, SumOfPart
  <1>13. ASSUME NEW by \in 1..now, FlagPoints(t, by) > 0 PROVE Halves(t) > 0
    <2>1. CASE S = {}
      <3> DEFINE B == MineBy(t, by)
                 q == PointsOf(B)
      <3>1. B = {}
        BY <2>1 DEF MineBy
      <3>2. Summable(q, B) /\ FlagPoints(t, by) = SumOver(q, B)
        BY PointsAreSummable, PointsAsSum DEF IInv
      <3> HIDE DEF B, q
      <3>3. SumOver(q, B) = 0
        BY <3>1, <3>2, SumEmpty
      <3> QED
        BY <1>13, <3>2, <3>3
    <2>2. CASE S # {}
      BY <1>7, <2>2
    <2> QED
      BY <2>1, <2>2
  <1> HIDE DEF S, G, p, h, w, T, best
  <1> QED
    BY <1>3, <1>4, <1>5, <1>6, <1>7, <1>10, <1>11, <1>12, <1>13

-----------------------------------------------------------------------------
(* The theorems *)

\* No flag is ever recorded twice for a host of a team, and none that is a
\* dummy, however requests overlap, are repeated or go unanswered.
THEOREM CapturesAreUnique == Spec => []CapturedOnce
  <1>1. IInv => CapturedOnce
    BY DEF IInv
  <1> QED
    BY <1>1, Inductive, PTL

\* A capture is worth its points once, however often it is reported.
THEOREM CapturesAreCounted == Spec => []CapturesCountOnce
  BY CountedOnce, Inductive, PTL

\* The page of totals and the live score name the same teams, the totals are
\* never worth more than the score, and no team of a frozen score is missing from
\* the totals, which know no freeze.
THEOREM TotalsAreWithinScore == Spec => []TotalsFollowScore
  BY TotalsWithinScore, Inductive, PTL

\* What a viewer of the grid is shown was right not long ago, with the life of the
\* copy in Redis and the time to compute one: then no host shown as offline had
\* been heard of for a while, one shown as neither offline nor captured had been,
\* and a capture shown was of an active flag.
THEOREM StatusIsRecent == Spec => []StatusFollowsCheckins
  <1>1. ASSUME IInv PROVE StatusFollowsCheckins
    <2> SUFFICES ASSUME NEW g \in Shown
                 PROVE  Right(g, heard, solves) /\ now - g.at <= GridTTL + Slow
      BY DEF StatusFollowsCheckins, Right, Captured
    <2>1. now \in Nat /\ Slow \in Nat /\ GridTTL \in Nat
      BY <1>1, FlagsAssumption DEF IInv, Types
    <2>2. CASE g = grid /\ now < grid.till
      BY <1>1, <2>1, <2>2 DEF IInv, Pages, Kept
    <2>3. CASE \E v \in Viewers : views[v] # NoPage /\ g = views[v]
      BY <1>1, <2>1, <2>3 DEF IInv, Pages, Computed
    <2> QED
      BY <2>2, <2>3 DEF Shown
  <1> QED
    BY <1>1, Inductive, PTL

\* A report is refused only because of a capture of the same host and team.
THEOREM RefusalsAreRepeats == Spec => RefusedOnlyIfRepeated
  <1>1. ASSUME IInv, [Next]_vars, NEW r \in Requests,
               requests[r].at = "received", requests'[r].at = "none"
        PROVE  \E s \in solves : /\ s.flag \in requests[r].flags /\ ~s.flag.dummy
                                 /\ s.host = requests[r].agent.host /\ s.team = requests[r].agent.team
    <2>0. RequestTypes
      BY <1>1 DEF IInv, Types
    <2>1. requests' # requests
      BY <1>1
    <2>2. Refuse(r)
      <3>1. ASSUME NEW q \in Requests, NEW a \in Agent, Send(q, a) PROVE FALSE
        BY <1>1, <2>0, <3>1 DEF Send, RequestTypes
      <3>2. ASSUME NEW q \in Requests, q # r, Refuse(q) PROVE FALSE
        BY <1>1, <2>0, <3>2 DEF Refuse, RequestTypes
      <3>3. ASSUME NEW q \in Requests,
                   Record(q) \/ UpdateFlagsData(q) \/ Fail(q) \/ DoCheckin(q) \/ Remember(q)
            PROVE  FALSE
        <4>1. requests[q].at # "received" \/ requests'[q].at # "none"
          <5>1. CASE Record(q)
            <6>1. requests[q] \in Received
              BY <2>0, <5>1, RequestServed DEF Record
            <6> QED
              BY <2>0, <5>1, <6>1 DEF Record, RequestTypes, Received
          <5>2. CASE ~Record(q)
            BY <3>3, <5>2 DEF UpdateFlagsData, Fail, DoCheckin, Remember
          <5> QED
            BY <5>1, <5>2
        <4>2. q # r => requests'[r] = requests[r]
          BY <2>0, <3>3
             DEF Record, UpdateFlagsData, Fail, DoCheckin, Remember, RequestTypes
        <4> QED
          BY <1>1, <4>1, <4>2
      <3>4. ~Tick /\ ~UNCHANGED vars /\ ~RoundEnds /\ \A v \in Viewers : ~Compute(v) /\ ~Store(v)
        BY <2>1 DEF Tick, vars, RoundEnds, Compute, Store
      <3> QED
        BY <1>1, <3>1, <3>2, <3>3, <3>4 DEF Next
    <2> QED
      BY <2>2 DEF Refuse, Known, SolvedBy, Recordable
  <1>2. IInv /\ [Next]_vars =>
          [\A r \in Requests :
             requests[r].at = "received" /\ requests'[r].at = "none" =>
               \E s \in solves : /\ s.flag \in requests[r].flags /\ ~s.flag.dummy
                                 /\ s.host = requests[r].agent.host /\ s.team = requests[r].agent.team]_vars
    BY <1>1
  <1> QED
    BY <1>2, Inductive, PTL DEF Spec, RefusedOnlyIfRepeated

=============================================================================

------------------------------ MODULE Delivery ------------------------------
(***************************************************************************)
(* How a change reaches an open page.  The page asks for a cached answer    *)
(* when it is loaded and again at every "round_complete": the number of     *)
(* unread announcements, which every page shows, or the scoreboard.  The    *)
(* event goes from the engine (cache_helper.py) through a Redis channel     *)
(* (events.py) and one listener with a bounded queue per stream             *)
(* (sse_server.py) to the browser (vendor/js/sse.js), which polls if it     *)
(* cannot open a stream.  On every link an event may be lost.               *)
(*                                                                         *)
(* Of an answer is kept whether it shows all changes made by administrators *)
(* so far, and whether a round was completed since it was computed.         *)
(***************************************************************************)
EXTENDS Naturals, FiniteSets, Sequences, SequencesExt

CONSTANTS
  Pages,        \* open pages
  Class,        \* the viewer of each of them: [role, team_id]
  OtherEvents,  \* events a page may receive beside "round_complete"
  QueueSize,    \* of the queue of a stream (50 in the code)
  MAX_ERRORS_BEFORE_FALLBACK,
  NeverConnectedErrors,   \* errors before a page that never had a stream polls
  InFlight,     \* bound: requests of one page that are not answered yet
  MaxChannel    \* bound: messages the listener has not read yet

ASSUME InFlightAssumption == InFlight \in Nat \ {0}

VARIABLES
  engine,       \* the step of the end of a round that is next; 0 outside of it
  cache,        \* the cached answer for each kind of viewer
  listener,     \* whether the listener is subscribed
  channel,      \* messages it has not read
  stream,       \* "loading", "trying", "open", "polling", "dead"
  token,        \* whether the server still knows the token of the page
  ever,         \* _everConnected
  errors,       \* _errorCount
  queue,        \* events not yet sent to the page
  request,      \* "none", "asked" or the answer computed
  newest,       \* the request each page made last
  page,         \* the answer shown
  lost          \* history: a "round_complete" since the last request never came

engineVars  == <<engine, listener, channel>>
streamVars  == <<stream, token, ever, errors, queue>>
answerVars  == <<cache, request, newest, page>>
vars == <<engineVars, streamVars, answerVars, lost>>

Classes == {Class[v] : v \in Pages}

\* A page may have several requests in flight.
Requests == Pages \X (1..InFlight)

None    == [shown |-> FALSE, age |-> "none"]
Asked   == [shown |-> FALSE, age |-> "asked"]
Fresh   == [shown |-> TRUE, age |-> "current"]

RoundComplete == [type |-> "round_complete", visibility |-> "public", team_id |-> 0]

\* should_send_event
ShouldSend(e, c) ==
  \/ e.visibility = "public"
  \/ c.role = "white"
  \/ e.visibility = "blue" /\ c.role = "blue" /\ e.team_id = c.team_id
  \/ e.visibility = "red" /\ c.role = "red"

\* Mutant: the page waits for events about announcements only.
HandledAnnouncements(e) == e.type = "announcement"

\* The events at which base.html asks for the announcements once more.  None of
\* type "announcement" is published.
Handled(e) == e.type \in {"round_complete", "announcement"}

\* An answer, wherever it is, after a round was closed: a newer one exists.
Outdated(a) == IF a.age \in {"current", "late"} THEN [a EXCEPT !.age = "old"] ELSE a
Missing(a)  == [a EXCEPT !.shown = FALSE]

\* An old answer where no event will follow it any more.
Late(a) == IF a.age = "old" THEN [a EXCEPT !.age = "late"] ELSE a

\* The pages that will not hear of the events of s.
LoseAll(s) == [v \in Pages |-> lost[v] \/ RoundComplete \in ToSet(s)]

-----------------------------------------------------------------------------
(* The web containers and the engine *)

\* An announcement is created, changed, deleted, (un)pinned or (de)activated, or
\* its time is over.  update_announcements_data deletes the cached lists of
\* announcements; the cached ids stay, and no event is sent.
Announce ==
  /\ cache' = [c \in Classes |-> Missing(cache[c])]
  /\ request' = [r \in Requests |-> Missing(request[r])]
  /\ page' = [v \in Pages |-> Missing(page[v])]
  /\ UNCHANGED <<engineVars, streamVars, newest, lost>>

\* Mutant: the event is published before the answers are cleared.
StepsEventFirst == <<"publish", "clear">>

\* update_all_cache
Steps == <<"clear", "publish">>

After(step) == IF step = Len(Steps) THEN 0 ELSE step + 1

\* Answers stored now will be cleared before the round ends.
ToBeCleared == engine > 0 /\ \E i \in engine..Len(Steps) : Steps[i] = "clear"

\* The round is committed.
CloseRound ==
  /\ engine = 0 /\ engine' = 1
  /\ cache' = [c \in Classes |-> Outdated(cache[c])]
  /\ request' = [r \in Requests |-> Outdated(request[r])]
  /\ page' = [v \in Pages |-> Outdated(page[v])]
  /\ UNCHANGED <<listener, channel, streamVars, newest, lost>>

ClearAll ==
  /\ engine > 0 /\ Steps[engine] = "clear" /\ engine' = After(engine)
  /\ cache' = [c \in Classes |-> None]
  /\ UNCHANGED <<listener, channel, streamVars, request, newest, page, lost>>

\* update_all_cache is called outside of the round's try: if Redis raises in it,
\* or the process is killed, the round stays and the rest is never done.  What
\* the clearing would have removed outlives it.
EngineDies ==
  /\ engine > 0 /\ engine' = 0
  /\ cache' = [c \in Classes |-> IF ToBeCleared THEN Late(cache[c]) ELSE cache[c]]
  /\ lost' = LoseAll(<<RoundComplete>>)
  /\ UNCHANGED <<listener, channel, streamVars, request, newest, page>>

\* publish_event: Redis hands a message to those subscribed now.
Send(e) ==
  IF listener
  THEN Len(channel) < MaxChannel /\ channel' = Append(channel, e) /\ UNCHANGED lost
  ELSE lost' = LoseAll(<<e>>) /\ UNCHANGED channel

PublishRound ==
  /\ engine > 0 /\ Steps[engine] = "publish" /\ engine' = After(engine)
  /\ Send(RoundComplete)
  /\ UNCHANGED <<listener, streamVars, answerVars>>

\* An error of Redis is swallowed.
PublishError ==
  /\ engine > 0 /\ Steps[engine] = "publish" /\ engine' = After(engine)
  /\ lost' = LoseAll(<<RoundComplete>>)
  /\ UNCHANGED <<listener, channel, streamVars, answerVars>>

\* A request publishes "inject_update" or "settings_changed".
PublishOther ==
  /\ \E e \in OtherEvents : Send(e)
  /\ UNCHANGED <<engine, listener, streamVars, answerVars>>

\* Flask-Caching gives every entry its default time.
Expire(c) ==
  /\ cache[c] # None
  /\ cache' = [cache EXCEPT ![c] = None]
  /\ UNCHANGED <<engineVars, streamVars, request, newest, page, lost>>

-----------------------------------------------------------------------------
(* The server of the streams *)

\* _redis_listener, one message: every stream that may, and can, is given it.
Broadcast ==
  /\ listener /\ channel # <<>>
  /\ LET e == Head(channel)
         Room(v) == stream[v] = "open" /\ Len(queue[v]) < QueueSize
     IN  /\ queue' = [v \in Pages |-> IF Room(v) /\ ShouldSend(e, Class[v])
                                     THEN Append(queue[v], e) ELSE queue[v]]
         /\ lost' = [v \in Pages |-> lost[v] \/ (e = RoundComplete /\ ~Room(v))]
  /\ channel' = Tail(channel)
  /\ UNCHANGED <<engine, listener, stream, token, ever, errors, answerVars>>

\* The connection to Redis fails, and what was not read goes with it.
ListenerFails ==
  /\ listener /\ listener' = FALSE
  /\ channel' = <<>> /\ lost' = LoseAll(channel)
  /\ UNCHANGED <<engine, streamVars, answerVars>>

ListenerSubscribes ==
  /\ ~listener /\ listener' = TRUE
  /\ UNCHANGED <<engine, channel, streamVars, answerVars, lost>>

\* handle_sse; onopen.
Accept(v) ==
  /\ stream[v] = "trying" /\ token[v]
  /\ stream' = [stream EXCEPT ![v] = "open"]
  /\ ever' = [ever EXCEPT ![v] = TRUE] /\ errors' = [errors EXCEPT ![v] = 0]
  /\ queue' = [queue EXCEPT ![v] = <<>>]
  /\ UNCHANGED <<engineVars, token, answerVars, lost>>

\* The token was not used for five minutes.
TokenExpires(v) ==
  /\ token[v] /\ stream[v] # "loading"
  /\ token' = [token EXCEPT ![v] = FALSE]
  /\ UNCHANGED <<engineVars, stream, ever, errors, queue, answerVars, lost>>

-----------------------------------------------------------------------------
(* The browser: ScoringEngineSSE *)

GetToken(v) ==
  /\ stream[v] = "loading"
  /\ stream' = [stream EXCEPT ![v] = "trying"] /\ token' = [token EXCEPT ![v] = TRUE]
  /\ UNCHANGED <<engineVars, ever, errors, queue, answerVars, lost>>

NoToken(v) ==
  /\ stream[v] = "loading"
  /\ stream' = [stream EXCEPT ![v] = "polling"]
  /\ UNCHANGED <<engineVars, token, ever, errors, queue, answerVars, lost>>

\* onerror: the page gives up, begins anew or leaves it to EventSource.
OnError(v, otherwise) ==
  LET n == errors[v] + 1
      giveUp == ~ever[v] /\ n >= NeverConnectedErrors
      anew   == ~giveUp /\ n >= MAX_ERRORS_BEFORE_FALLBACK
  IN  /\ stream' = [stream EXCEPT ![v] = IF giveUp THEN "polling" ELSE
                                         IF anew THEN "loading" ELSE otherwise]
      /\ errors' = [errors EXCEPT ![v] = IF anew THEN 0 ELSE n]

\* EventSource tries again if the connection breaks or cannot be made ...
Disconnected(v) ==
  /\ stream[v] \in {"trying", "open"}
  /\ OnError(v, "trying")
  /\ queue' = [queue EXCEPT ![v] = <<>>]
  /\ lost' = [lost EXCEPT ![v] = @ \/ RoundComplete \in ToSet(queue[v])]
  /\ UNCHANGED <<engineVars, token, ever, answerVars>>

\* ... and stops for good at an answer other than 200.
Rejected(v) ==
  /\ stream[v] = "trying" /\ ~token[v]
  /\ OnError(v, "dead")
  /\ UNCHANGED <<engineVars, token, ever, queue, answerVars, lost>>

\* The proxy in front of the server answers that it cannot be reached.
BadGateway(v) ==
  /\ stream[v] = "trying"
  /\ OnError(v, "dead")
  /\ UNCHANGED <<engineVars, token, ever, queue, answerVars, lost>>

\* Nothing holds a request back while others are in flight, and none is aborted.
Ask(v) ==
  \E i \in 1..InFlight :
    /\ request[<<v, i>>] = None /\ \A j \in 1..(i - 1) : request[<<v, j>>] # None
    /\ request' = [request EXCEPT ![<<v, i>>] = Asked]
    /\ newest' = [newest EXCEPT ![v] = i]
    /\ lost' = [lost EXCEPT ![v] = FALSE]

\* onmessage
OnMessage(v) ==
  /\ stream[v] = "open" /\ queue[v] # <<>>
  /\ queue' = [queue EXCEPT ![v] = Tail(@)]
  /\ IF Handled(Head(queue[v])) THEN Ask(v) ELSE UNCHANGED <<request, newest, lost>>
  /\ UNCHANGED <<engineVars, stream, token, ever, errors, cache, page>>

\* Every POLL_INTERVAL
Poll(v) ==
  /\ stream[v] = "polling" /\ Ask(v)
  /\ UNCHANGED <<engineVars, streamVars, cache, page>>

-----------------------------------------------------------------------------
(* A request for the answer *)

\* Whether the page has had the answer of a newer request already.
Overtaken(r) == r[2] # newest[r[1]] /\ request[<<r[1], newest[r[1]]>>] = None

\* The page shows whatever answer comes in last, be it that of an earlier request.
Show(r, a) ==
  /\ request' = [request EXCEPT ![r] = None]
  /\ page' = [page EXCEPT ![r[1]] = IF Overtaken(r) THEN Late(a) ELSE a]
  /\ UNCHANGED <<engineVars, streamVars, newest, lost>>

Hit(r) ==
  /\ request[r] = Asked /\ cache[Class[r[1]]] # None
  /\ Show(r, cache[Class[r[1]]]) /\ UNCHANGED cache

Miss(r) ==
  /\ request[r] = Asked /\ cache[Class[r[1]]] = None
  /\ request' = [request EXCEPT ![r] = Fresh]
  /\ UNCHANGED <<engineVars, streamVars, newest, cache, page, lost>>

\* What a slow request puts into the cache after the clearing stays there.
Store(r) ==
  /\ request[r] \notin {None, Asked}
  /\ cache' = [cache EXCEPT ![Class[r[1]]] =
                 IF ToBeCleared THEN request[r] ELSE Late(request[r])]
  /\ Show(r, request[r])

\* Another viewer of the same kind is answered at once.  (Who is not is a page.)
Refill(c) ==
  /\ cache[c] = None
  /\ cache' = [cache EXCEPT ![c] = Fresh]
  /\ UNCHANGED <<engineVars, streamVars, request, newest, page, lost>>

-----------------------------------------------------------------------------

\* A page asks when it is loaded, and for a token at the same time.
Init ==
  /\ engine = 0 /\ listener = TRUE /\ channel = <<>>
  /\ cache = [c \in Classes |-> None]
  /\ stream = [v \in Pages |-> "loading"] /\ token = [v \in Pages |-> FALSE]
  /\ ever = [v \in Pages |-> FALSE] /\ errors = [v \in Pages |-> 0]
  /\ queue = [v \in Pages |-> <<>>] /\ lost = [v \in Pages |-> FALSE]
  /\ request = [r \in Requests |-> IF r \in Pages \X {1} THEN Asked ELSE None]
  /\ newest = [v \in Pages |-> 1]
  /\ page = [v \in Pages |-> None]

Fault ==
  \/ EngineDies \/ PublishError \/ ListenerFails
  \/ \E v \in Pages : NoToken(v) \/ Disconnected(v) \/ BadGateway(v)

Connect(v) == GetToken(v) \/ Accept(v) \/ Rejected(v)
Answer(r)  == Hit(r) \/ Miss(r) \/ Store(r)

Next ==
  \/ Announce \/ CloseRound \/ ClearAll \/ PublishRound \/ PublishOther
  \/ \E c \in Classes : Expire(c) \/ Refill(c)
  \/ Broadcast \/ ListenerSubscribes \/ Fault
  \/ \E v \in Pages : TokenExpires(v) \/ Connect(v) \/ OnMessage(v) \/ Poll(v)
  \/ \E r \in Requests : Answer(r)

Spec == Init /\ [][Next]_vars

\* The engine ends the round it has closed, the server and the browsers do what
\* is left to do, requests are answered and cached answers expire.  Nothing makes
\* the engine close another round: it may be paused, idle between two windows of
\* the schedule, or have run the last of its rounds.
FairSpec ==
  /\ Spec
  /\ WF_vars(ClearAll) /\ WF_vars(PublishRound)
  /\ WF_vars(Broadcast) /\ WF_vars(ListenerSubscribes)
  /\ \A c \in Classes : WF_vars(Expire(c))
  /\ \A v \in Pages : WF_vars(Connect(v)) /\ WF_vars(OnMessage(v)) /\ WF_vars(Poll(v))
  /\ \A r \in Requests : WF_vars(Answer(r))

(***************************************************************************)
(* Correctness                                                             *)
(***************************************************************************)

\* A page that shows less than the last round waits for the answer of its newest
\* request, or the engine is still at the end of the round, or the event is on its
\* way, or has been lost since that request: on a link that failed or was full, or
\* with the engine that died before it published.  ("Late" pages are not "old":
\* they were given the answer of a slow request, whose place in the cache outlived
\* the clearing, or which came in after that of a newer one.)
RoundsReachPages ==
  \A v \in Pages : page[v].age = "old" =>
    \/ engine > 0
    \/ RoundComplete \in ToSet(channel) \cup ToSet(queue[v])
    \/ request[<<v, newest[v]>>] # None
    \/ lost[v]

\* Announcements send no event, links fail, queues overflow and answers overtake
\* one another; but once that is over, a page comes to show every announcement,
\* be it by its stream or by polling.  Two pages may not: one whose stream was
\* refused for good, and one with an open stream while no more rounds are closed,
\* since it is only the end of a round that makes it ask.
PagesCatchUp ==
  <>[][~Announce /\ ~Fault /\ ~PublishOther]_vars =>
    \A v \in Pages :
      \/ <>(stream[v] = "dead")
      \/ <>[](engine = 0 /\ stream[v] = "open")
      \/ <>[](page[v].shown)

=============================================================================

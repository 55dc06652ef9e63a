--------------------------- MODULE Delivery_proofs ---------------------------
(***************************************************************************)
(* Proof that no event of a round is lost unnoticed, for any number of      *)
(* pages and of requests in flight, any other events, and queues of any     *)
(* size.                                                                    *)
(***************************************************************************)
EXTENDS Delivery, TLAPS

Events  == OtherEvents \cup {RoundComplete}
Answers == [shown : BOOLEAN, age : {"current", "old", "late"}]

Types ==
  /\ engine \in 0..2 /\ listener \in BOOLEAN /\ channel \in Seq(Events)
  /\ stream \in [Pages -> {"loading", "trying", "open", "polling", "dead"}]
  /\ queue \in [Pages -> Seq(Events)]
  /\ lost \in [Pages -> BOOLEAN]
  /\ cache \in [Classes -> Answers \cup {None}]
  /\ request \in [Requests -> Answers \cup {None, Asked}]
  /\ newest \in [Pages -> 1..InFlight]
  /\ page \in [Pages -> Answers \cup {None}]

\* The event of the last round is still to come, or was lost.
OnItsWay(v) ==
  \/ engine > 0
  \/ RoundComplete \in ToSet(channel) \cup ToSet(queue[v])
  \/ lost[v]

Newest(v) == request[<<v, newest[v]>>]

\* Old answers are in the cache only until it is cleared; a page whose newest
\* request computes one, or which shows one and waits for no newer, can still
\* expect the event; and events are queued for open streams only.
Expected ==
  /\ \A c \in Classes : cache[c].age = "old" => engine = 1
  /\ \A v \in Pages : Newest(v).age = "old" => OnItsWay(v)
  /\ \A v \in Pages : page[v].age = "old" => OnItsWay(v) \/ Newest(v) # None
  /\ \A v \in Pages : stream[v] # "open" => queue[v] = <<>>

IInv == Types /\ Expected

\* What a sequence holds when one is added and when the first is taken.
LEMMA SetOfAppend ==
  ASSUME NEW S, NEW s \in Seq(S), NEW e \in S
  PROVE  ToSet(Append(s, e)) = ToSet(s) \cup {e}
  <1>1. DOMAIN Append(s, e) = 1..(Len(s) + 1)
    OBVIOUS
  <1>2. \A i \in 1..Len(s) : Append(s, e)[i] = s[i]
    OBVIOUS
  <1>3. Append(s, e)[Len(s) + 1] = e
    OBVIOUS
  <1>4. DOMAIN s = 1..Len(s) /\ 1..(Len(s) + 1) = (1..Len(s)) \cup {Len(s) + 1}
    OBVIOUS
  <1> QED
    BY <1>1, <1>2, <1>3, <1>4 DEF ToSet

LEMMA SetOfTail ==
  ASSUME NEW S, NEW s \in Seq(S), s # <<>>
  PROVE  ToSet(s) = {Head(s)} \cup ToSet(Tail(s))
  <1>1. DOMAIN Tail(s) = 1..(Len(s) - 1) /\ DOMAIN s = 1..Len(s) /\ Len(s) \in Nat \ {0}
    OBVIOUS
  <1>2. \A i \in 1..(Len(s) - 1) : Tail(s)[i] = s[i + 1]
    OBVIOUS
  <1>3. Head(s) = s[1]
    OBVIOUS
  <1>4. \A i \in 1..Len(s) : i = 1 \/ (i - 1 \in 1..(Len(s) - 1) /\ s[i] = Tail(s)[i - 1])
    BY <1>1, <1>2
  <1>5. ToSet(s) \subseteq {Head(s)} \cup ToSet(Tail(s))
    <2>1. SUFFICES ASSUME NEW i \in 1..Len(s) PROVE s[i] \in {Head(s)} \cup ToSet(Tail(s))
      BY <1>1 DEF ToSet
    <2>2. CASE i = 1
      BY <2>2, <1>3
    <2>3. CASE i - 1 \in 1..(Len(s) - 1) /\ s[i] = Tail(s)[i - 1]
      BY <2>3, <1>1 DEF ToSet
    <2> QED
      BY <2>2, <2>3, <1>4
  <1>6. {Head(s)} \cup ToSet(Tail(s)) \subseteq ToSet(s)
    <2>1. \A i \in 1..(Len(s) - 1) : i + 1 \in 1..Len(s)
      BY <1>1
    <2> QED
      BY <1>1, <1>2, <1>3, <2>1 DEF ToSet
  <1> QED
    BY <1>5, <1>6

LEMMA SetOfEmpty == ToSet(<<>>) = {}
  BY DEF ToSet

\* The clearing comes first, the event second.
LEMMA TwoSteps ==
  /\ Steps[1] = "clear" /\ Steps[2] = "publish" /\ After(1) = 2 /\ After(2) = 0
  /\ engine \in 0..2 => (ToBeCleared <=> engine = 1)
  <1>1. Steps[1] = "clear" /\ Steps[2] = "publish" /\ Len(Steps) = 2
    BY DEF Steps
  <1>2. engine \in 0..2 => (ToBeCleared <=> engine = 1)
    BY <1>1 DEF ToBeCleared
  <1> QED
    BY <1>1, <1>2 DEF After

\* The two markers are no answers, and marking one keeps its kind.
LEMMA AnswerKinds ==
  /\ None \notin Answers /\ Asked \notin Answers /\ None # Asked
  /\ None.age # "old" /\ Asked.age # "old" /\ Fresh \in Answers /\ Fresh.age # "old"
  /\ \A a \in Answers : Missing(a) \in Answers /\ Missing(a).age = a.age
  /\ Missing(None) = None /\ Missing(Asked) = Asked
  /\ \A a \in Answers : Outdated(a) \in Answers
  /\ Outdated(None) = None /\ Outdated(Asked) = Asked
  /\ Late(None) = None
  /\ \A a \in Answers : Late(a) \in Answers /\ Late(a).age # "old"
  <1>1. None \notin Answers /\ Asked \notin Answers
    BY DEF None, Asked, Answers
  <1>2. None # Asked /\ None.age # "old" /\ Asked.age # "old" /\ Fresh.age # "old"
    BY DEF None, Asked, Fresh
  <1>3. Fresh \in Answers
    BY DEF Fresh, Answers
  <1>4. \A a \in Answers : Missing(a) \in Answers /\ Missing(a).age = a.age
    BY DEF Answers, Missing
  <1>5. Missing(None) = None /\ Missing(Asked) = Asked
    <2>1. \A a \in [shown : {FALSE}, age : {"none", "asked"}] : Missing(a) = a
      BY DEF Missing
    <2>2. /\ None \in [shown : {FALSE}, age : {"none", "asked"}]
          /\ Asked \in [shown : {FALSE}, age : {"none", "asked"}]
      BY DEF None, Asked
    <2> QED
      BY <2>1, <2>2
  <1>6. \A a \in Answers : Outdated(a) \in Answers
    BY DEF Answers, Outdated
  <1>7. Outdated(None) = None /\ Outdated(Asked) = Asked
    BY DEF None, Asked, Outdated
  <1>8. Late(None) = None /\ \A a \in Answers : Late(a) \in Answers /\ Late(a).age # "old"
    BY DEF None, Answers, Late
  <1> QED
    BY <1>1, <1>2, <1>3, <1>4, <1>5, <1>6, <1>7, <1>8

\* The request a page made last is one of its requests.
LEMMA NewestIsOne ==
  ASSUME Types, NEW v \in Pages
  PROVE  <<v, newest[v]>> \in Requests /\ newest[v] \in 1..InFlight
  BY DEF Types, Requests

LEMMA RoundsAreForAll ==
  /\ \A c : ShouldSend(RoundComplete, c)
  /\ Handled(RoundComplete)
  /\ RoundComplete \in Events
  BY DEF ShouldSend, Handled, RoundComplete, Events

LEMMA InitOk == Init => IInv
  <1> SUFFICES ASSUME Init PROVE IInv
    OBVIOUS
  <1>1. Types
    BY InFlightAssumption DEF Init, Types, Classes
  <1>2. \A v \in Pages : Newest(v) = Asked
    BY <1>1, NewestIsOne DEF Init, Newest
  <1>3. Expected
    BY <1>2, AnswerKinds DEF Init, Expected
  <1> QED
    BY <1>1, <1>3 DEF IInv

-----------------------------------------------------------------------------
(* The end of a round *)

LEMMA AnnounceOk == IInv /\ Announce => IInv'
  <1> SUFFICES ASSUME IInv, Announce PROVE IInv'
    OBVIOUS
  <1> USE DEF IInv, Announce, engineVars, streamVars
  <1>1. Types'
    BY AnswerKinds DEF Types
  <1>2. /\ \A c \in Classes : cache'[c].age = cache[c].age
        /\ \A r \in Requests : request'[r].age = request[r].age
        /\ \A v \in Pages : page'[v].age = page[v].age
    <2>1. \A a \in Answers \cup {None, Asked} : Missing(a).age = a.age
      BY AnswerKinds
    <2> QED
      BY <2>1 DEF Types
  <1>3. \A r \in Requests : request[r] # None => request'[r] # None
    BY AnswerKinds DEF Types
  <1>4. \A v \in Pages : /\ Newest(v)'.age = Newest(v).age
                         /\ Newest(v) # None => Newest(v)' # None
    BY <1>2, <1>3, NewestIsOne DEF Newest
  <1>5. Expected'
    BY <1>2, <1>4 DEF Expected, OnItsWay
  <1> QED
    BY <1>1, <1>5

LEMMA CloseRoundOk == IInv /\ CloseRound => IInv'
  <1> SUFFICES ASSUME IInv, CloseRound PROVE IInv'
    OBVIOUS
  <1> USE DEF IInv, CloseRound, streamVars
  <1>1. Types'
    <2>1. \A a \in Answers \cup {None, Asked} :
            /\ a \in Answers \cup {None} => Outdated(a) \in Answers \cup {None}
            /\ Outdated(a) \in Answers \cup {None, Asked}
      BY AnswerKinds
    <2>2. cache' \in [Classes -> Answers \cup {None}]
      BY <2>1 DEF Types
    <2>3. request' \in [Requests -> Answers \cup {None, Asked}]
      BY <2>1 DEF Types
    <2>4. page' \in [Pages -> Answers \cup {None}]
      BY <2>1 DEF Types
    <2> QED
      BY <2>2, <2>3, <2>4 DEF Types
  <1>2. Expected'
    BY DEF Expected, OnItsWay
  <1> QED
    BY <1>1, <1>2

LEMMA ClearAllOk == IInv /\ ClearAll => IInv'
  <1> SUFFICES ASSUME IInv, ClearAll PROVE IInv'
    OBVIOUS
  <1> USE DEF IInv, ClearAll, streamVars
  <1>1. engine = 1 /\ engine' = 2
    BY TwoSteps DEF Types
  <1>2. Types'
    BY <1>1 DEF Types
  <1>3. Expected'
    BY <1>1, AnswerKinds DEF Expected, OnItsWay, Newest
  <1> QED
    BY <1>2, <1>3

\* The engine dies: no page will hear of the round, and what should have been
\* cleared is no longer expected to be.
LEMMA EngineDiesOk == IInv /\ EngineDies => IInv'
  <1> SUFFICES ASSUME IInv, EngineDies PROVE IInv'
    OBVIOUS
  <1> USE DEF IInv, EngineDies, streamVars
  <1>1. lost' = [v \in Pages |-> TRUE]
    <2>1. RoundComplete \in ToSet(<<RoundComplete>>)
      BY DEF ToSet
    <2> QED
      BY <2>1 DEF LoseAll
  <1>2. \A c \in Classes : /\ cache'[c] \in Answers \cup {None}
                           /\ cache'[c].age # "old"
    <2> SUFFICES ASSUME NEW c \in Classes
                 PROVE  cache'[c] \in Answers \cup {None} /\ cache'[c].age # "old"
      OBVIOUS
    <2>1. cache[c] \in Answers \cup {None}
      BY DEF Types
    <2>2. CASE ToBeCleared
      BY <2>1, <2>2, AnswerKinds
    <2>3. CASE ~ToBeCleared
      <3>1. cache'[c] = cache[c]
        BY <2>3
      <3>2. engine # 1
        BY <2>3, TwoSteps DEF Types
      <3> QED
        BY <2>1, <3>1, <3>2 DEF Expected
    <2> QED
      BY <2>2, <2>3
  <1>3. Types'
    <2>1. cache' \in [Classes -> Answers \cup {None}]
      <3>1. cache' = [c \in Classes |-> IF ToBeCleared THEN Late(cache[c]) ELSE cache[c]]
        OBVIOUS
      <3>2. \A c \in Classes : (IF ToBeCleared THEN Late(cache[c]) ELSE cache[c])
                                  \in Answers \cup {None}
        BY <1>2, <3>1
      <3> QED
        BY <3>1, <3>2, Zenon
    <2>2. lost' \in [Pages -> BOOLEAN]
      BY <1>1, Zenon
    <2>3. engine' = 0 /\ UNCHANGED <<listener, channel, stream, queue, request, newest, page>>
      OBVIOUS
    <2> HIDE DEF EngineDies
    <2> QED
      BY <2>1, <2>2, <2>3 DEF Types
  <1>4. Expected'
    BY <1>1, <1>2 DEF Expected, OnItsWay
  <1> QED
    BY <1>3, <1>4

\* What is handed to Redis reaches the listener, or the pages have lost it.
LEMMA SendOk ==
  ASSUME IInv, NEW e \in Events, Send(e)
  PROVE  /\ channel' \in Seq(Events) /\ lost' \in [Pages -> BOOLEAN]
         /\ ToSet(channel) \subseteq ToSet(channel') /\ \A v \in Pages : lost[v] => lost'[v]
         /\ e = RoundComplete => \A v \in Pages : e \in ToSet(channel') \/ lost'[v]
  <1>1. CASE listener
    <2>1. channel' = Append(channel, e) /\ lost' = lost
      BY <1>1 DEF Send
    <2>2. ToSet(channel') = ToSet(channel) \cup {e}
      BY <2>1, SetOfAppend DEF IInv, Types
    <2> QED
      BY <2>1, <2>2 DEF IInv, Types
  <1>2. CASE ~listener
    <2>1. channel' = channel /\ lost' = LoseAll(<<e>>)
      BY <1>2 DEF Send
    <2>2. e \in ToSet(<<e>>)
      BY DEF ToSet
    <2> QED
      BY <2>1, <2>2 DEF IInv, Types, LoseAll
  <1> QED
    BY <1>1, <1>2

LEMMA PublishRoundOk == IInv /\ PublishRound => IInv'
  <1> SUFFICES ASSUME IInv, PublishRound PROVE IInv'
    OBVIOUS
  <1> USE DEF PublishRound, streamVars, answerVars
  <1>1. engine = 2 /\ engine' = 0
    BY TwoSteps DEF IInv, Types
  <1>2. /\ channel' \in Seq(Events) /\ lost' \in [Pages -> BOOLEAN]
        /\ \A v \in Pages : RoundComplete \in ToSet(channel') \/ lost'[v]
    BY SendOk, RoundsAreForAll
  <1>3. Types'
    BY <1>1, <1>2 DEF IInv, Types
  <1>4. Expected'
    BY <1>1, <1>2 DEF IInv, Expected, OnItsWay, Newest
  <1> QED
    BY <1>3, <1>4 DEF IInv

LEMMA PublishErrorOk == IInv /\ PublishError => IInv'
  <1> SUFFICES ASSUME IInv, PublishError PROVE IInv'
    OBVIOUS
  <1> USE DEF IInv, PublishError, streamVars, answerVars
  <1>1. engine = 2 /\ engine' = 0
    BY TwoSteps DEF Types
  <1>2. \A v \in Pages : lost'[v]
    <2>1. RoundComplete \in ToSet(<<RoundComplete>>)
      BY DEF ToSet
    <2> QED
      BY <2>1 DEF LoseAll
  <1>3. Types'
    BY <1>1 DEF Types, LoseAll
  <1>4. Expected'
    BY <1>1, <1>2 DEF Expected, OnItsWay
  <1> QED
    BY <1>3, <1>4

LEMMA PublishOtherOk == IInv /\ PublishOther => IInv'
  <1> SUFFICES ASSUME IInv, PublishOther PROVE IInv'
    OBVIOUS
  <1> USE DEF PublishOther, streamVars, answerVars
  <1>1. /\ channel' \in Seq(Events) /\ lost' \in [Pages -> BOOLEAN]
        /\ ToSet(channel) \subseteq ToSet(channel') /\ \A v \in Pages : lost[v] => lost'[v]
    BY SendOk DEF Events
  <1>2. Types'
    BY <1>1 DEF IInv, Types
  <1>3. Expected'
    BY <1>1 DEF IInv, Expected, OnItsWay, Newest
  <1> QED
    BY <1>2, <1>3 DEF IInv

LEMMA EntryOk == IInv /\ (\E c \in Classes : Expire(c) \/ Refill(c)) => IInv'
  <1> SUFFICES ASSUME IInv, NEW c \in Classes, Expire(c) \/ Refill(c) PROVE IInv'
    OBVIOUS
  <1>1. /\ \E a \in {None, Fresh} : cache' = [cache EXCEPT ![c] = a]
        /\ UNCHANGED <<engine, listener, channel, stream, queue, request, newest, page, lost>>
    BY DEF Expire, Refill, engineVars, streamVars
  <1>2. Types'
    BY <1>1, AnswerKinds DEF IInv, Types
  <1>3. Expected'
    BY <1>1, AnswerKinds DEF IInv, Types, Expected, OnItsWay, Newest
  <1> QED
    BY <1>2, <1>3 DEF IInv

-----------------------------------------------------------------------------
(* The streams *)

LEMMA BroadcastOk == IInv /\ Broadcast => IInv'
  <1> SUFFICES ASSUME IInv, Broadcast PROVE IInv'
    OBVIOUS
  <1> DEFINE e == Head(channel)
             Room(v) == stream[v] = "open" /\ Len(queue[v]) < QueueSize
             Given(v) == Room(v) /\ ShouldSend(e, Class[v])
  <1>1. e \in Events /\ channel' = Tail(channel) /\ channel' \in Seq(Events)
    BY DEF Broadcast, IInv, Types
  <1>2. /\ queue' = [v \in Pages |-> IF Given(v) THEN Append(queue[v], e) ELSE queue[v]]
        /\ lost' = [v \in Pages |-> lost[v] \/ (e = RoundComplete /\ ~Room(v))]
    BY DEF Broadcast
  <1>3. UNCHANGED <<engine, listener, stream, cache, request, newest, page>>
    BY DEF Broadcast, answerVars
  <1>4. ToSet(channel) = {e} \cup ToSet(channel')
    BY <1>1, SetOfTail DEF Broadcast, IInv, Types
  <1>5. \A v \in Pages : ToSet(queue'[v]) = ToSet(queue[v]) \cup (IF Given(v) THEN {e} ELSE {})
    <2> SUFFICES ASSUME NEW v \in Pages
                 PROVE  ToSet(queue'[v]) = ToSet(queue[v]) \cup (IF Given(v) THEN {e} ELSE {})
      OBVIOUS
    <2>1. queue[v] \in Seq(Events)
      BY DEF IInv, Types
    <2>2. ToSet(Append(queue[v], e)) = ToSet(queue[v]) \cup {e}
      BY <1>1, <2>1, SetOfAppend
    <2>3. queue'[v] = IF Given(v) THEN Append(queue[v], e) ELSE queue[v]
      BY <1>2
    <2> HIDE DEF Given
    <2> QED
      BY <2>2, <2>3
  <1>6. Types'
    <2>1. queue' \in [Pages -> Seq(Events)]
      <3> HIDE DEF Given, e
      <3> QED
        BY <1>1, <1>2 DEF IInv, Types
    <2>2. lost' \in [Pages -> BOOLEAN]
      BY <1>2
    <2> QED
      BY <1>1, <1>3, <2>1, <2>2 DEF IInv, Types
  <1>7. \A v \in Pages : e = RoundComplete => Given(v) \/ lost'[v]
    BY <1>2, RoundsAreForAll
  <1>8. \A v \in Pages : OnItsWay(v) => OnItsWay(v)'
    <2> SUFFICES ASSUME NEW v \in Pages, OnItsWay(v) PROVE OnItsWay(v)'
      OBVIOUS
    <2>1. lost[v] => lost'[v]
      BY <1>2
    <2> HIDE DEF Given, e
    <2> QED
      BY <1>3, <1>4, <1>5, <1>7, <2>1 DEF OnItsWay
  <1>9. \A v \in Pages : stream'[v] # "open" => queue'[v] = <<>>
    BY <1>2, <1>3 DEF IInv, Expected
  <1> QED
    BY <1>3, <1>6, <1>8, <1>9 DEF IInv, Expected, Newest

LEMMA ListenerOk == IInv /\ (ListenerFails \/ ListenerSubscribes) => IInv'
  <1>1. ASSUME IInv, ListenerFails PROVE IInv'
    <2> USE <1>1 DEF IInv, ListenerFails, streamVars, answerVars
    <2>1. lost' = [v \in Pages |-> lost[v] \/ RoundComplete \in ToSet(channel)]
      BY DEF LoseAll
    <2>2. Types'
      <3>1. lost' \in [Pages -> BOOLEAN]
        BY <2>1
      <3>2. listener' = FALSE /\ channel' = <<>> /\ <<>> \in Seq(Events)
        OBVIOUS
      <3> QED
        BY <3>1, <3>2 DEF Types
    <2>3. \A v \in Pages : OnItsWay(v) => OnItsWay(v)'
      BY <2>1 DEF OnItsWay
    <2> QED
      BY <2>2, <2>3 DEF Expected, Newest
  <1>2. ASSUME IInv, ListenerSubscribes PROVE IInv'
    <2> USE <1>2 DEF IInv, ListenerSubscribes, streamVars, answerVars
    <2>1. Types'
      BY DEF Types
    <2> QED
      BY <2>1 DEF Expected, OnItsWay, Newest
  <1> QED
    BY <1>1, <1>2

\* Steps of a stream that is not open, and stays so, or opens with its queue empty.
LEMMA ConnectOk ==
  ASSUME IInv, NEW v \in Pages,
         Accept(v) \/ TokenExpires(v) \/ GetToken(v) \/ NoToken(v) \/ Rejected(v) \/ BadGateway(v)
  PROVE  IInv'
  <1>1. UNCHANGED <<engine, listener, channel, cache, request, newest, page, lost>>
    BY DEF Accept, TokenExpires, GetToken, NoToken, Rejected, BadGateway, engineVars, answerVars
  <1>2. queue' = queue
    <2>1. CASE Accept(v)
      <3>1. queue[v] = <<>>
        BY <2>1 DEF Accept, IInv, Expected
      <3> QED
        BY <2>1, <3>1 DEF Accept, IInv, Types
    <2> QED
      BY <2>1 DEF Accept, TokenExpires, GetToken, NoToken, Rejected, BadGateway
  <1>3. /\ stream' \in [Pages -> {"loading", "trying", "open", "polling", "dead"}]
        /\ \A w \in Pages : stream[w] = "open" => stream'[w] = "open"
    BY DEF Accept, TokenExpires, GetToken, NoToken, Rejected, BadGateway, OnError, IInv, Types
  <1>4. Types'
    BY <1>1, <1>2, <1>3 DEF IInv, Types
  <1>5. Expected'
    BY <1>1, <1>2, <1>3 DEF IInv, Expected, OnItsWay, Newest
  <1> QED
    BY <1>4, <1>5 DEF IInv

LEMMA DisconnectedOk ==
  ASSUME IInv, NEW v \in Pages, Disconnected(v) PROVE IInv'
  <1> USE DEF Disconnected
  <1>1. UNCHANGED <<engine, listener, channel, cache, request, newest, page>>
    BY DEF engineVars, answerVars
  <1>2. /\ queue' \in [Pages -> Seq(Events)] /\ lost' \in [Pages -> BOOLEAN]
        /\ queue'[v] = <<>> /\ lost'[v] = (lost[v] \/ RoundComplete \in ToSet(queue[v]))
        /\ \A w \in Pages \ {v} : queue'[w] = queue[w] /\ lost'[w] = lost[w]
    BY DEF IInv, Types
  <1>3. /\ stream' \in [Pages -> {"loading", "trying", "open", "polling", "dead"}]
        /\ \A w \in Pages \ {v} : stream'[w] = stream[w]
    BY DEF OnError, IInv, Types
  <1>4. Types'
    BY <1>1, <1>2, <1>3 DEF IInv, Types
  <1>5. \A w \in Pages : OnItsWay(w) => OnItsWay(w)'
    BY <1>1, <1>2 DEF OnItsWay
  <1>6. Expected'
    BY <1>1, <1>2, <1>3, <1>5 DEF IInv, Expected, Newest
  <1> QED
    BY <1>4, <1>6 DEF IInv

-----------------------------------------------------------------------------
(* The requests *)

\* A page that asks waits for an answer that is not old; nothing changes for the
\* other pages.
LEMMA AskOk ==
  ASSUME Types, NEW v \in Pages, Ask(v)
  PROVE  /\ request' \in [Requests -> Answers \cup {None, Asked}]
         /\ newest' \in [Pages -> 1..InFlight] /\ lost' \in [Pages -> BOOLEAN]
         /\ Newest(v)' = Asked
         /\ \A w \in Pages \ {v} : Newest(w)' = Newest(w) /\ lost'[w] = lost[w]
  <1>1. PICK i \in 1..InFlight : /\ request' = [request EXCEPT ![<<v, i>>] = Asked]
                                 /\ newest' = [newest EXCEPT ![v] = i]
                                 /\ lost' = [lost EXCEPT ![v] = FALSE]
    BY DEF Ask
  <1>2. <<v, i>> \in Requests
    BY DEF Requests
  <1>3. Newest(v)' = Asked
    BY <1>1, <1>2 DEF Newest, Types
  <1>4. ASSUME NEW w \in Pages \ {v} PROVE Newest(w)' = Newest(w) /\ lost'[w] = lost[w]
    <2>1. <<w, newest[w]>> # <<v, i>> /\ newest'[w] = newest[w] /\ <<w, newest[w]>> \in Requests
      BY <1>1, NewestIsOne DEF Types
    <2> QED
      BY <1>1, <2>1 DEF Newest, Types
  <1> QED
    BY <1>1, <1>2, <1>3, <1>4 DEF Types

\* An event is taken from the queue; if it is that of a round, the page asks.
LEMMA OnMessageOk ==
  ASSUME IInv, NEW v \in Pages, OnMessage(v) PROVE IInv'
  <1> USE DEF OnMessage
  <1>1. UNCHANGED <<engine, listener, channel, stream, cache, page>>
    BY DEF engineVars
  <1>2. /\ queue' = [queue EXCEPT ![v] = Tail(@)] /\ Tail(queue[v]) \in Seq(Events)
        /\ ToSet(queue[v]) = {Head(queue[v])} \cup ToSet(queue'[v])
    BY SetOfTail DEF IInv, Types
  <1>3. /\ stream[v] = "open" /\ queue' \in [Pages -> Seq(Events)]
        /\ \A w \in Pages \ {v} : queue'[w] = queue[w]
    BY <1>2 DEF IInv, Types
  <1>4. CASE Handled(Head(queue[v]))
    <2>1. /\ request' \in [Requests -> Answers \cup {None, Asked}]
          /\ newest' \in [Pages -> 1..InFlight] /\ lost' \in [Pages -> BOOLEAN]
          /\ Newest(v)' = Asked
          /\ \A w \in Pages \ {v} : Newest(w)' = Newest(w) /\ lost'[w] = lost[w]
      BY <1>4, AskOk DEF IInv
    <2>2. Types'
      BY <1>1, <1>3, <2>1 DEF IInv, Types
    <2>3. Newest(v)' # None /\ Newest(v)'.age # "old"
      BY <2>1, AnswerKinds
    <2>4. \A w \in Pages \ {v} : OnItsWay(w) => OnItsWay(w)'
      BY <1>1, <1>3, <2>1 DEF OnItsWay
    <2>5. Expected'
      BY <1>1, <1>3, <2>1, <2>3, <2>4 DEF IInv, Expected
    <2> QED
      BY <2>2, <2>5 DEF IInv
  <1>5. CASE ~Handled(Head(queue[v]))
    <2>1. UNCHANGED <<request, newest, lost>>
      BY <1>5
    <2>2. Types'
      BY <1>1, <1>3, <2>1 DEF IInv, Types
    <2>3. RoundComplete \in ToSet(queue[v]) => RoundComplete \in ToSet(queue'[v])
      BY <1>2, <1>5, RoundsAreForAll
    <2>4. \A w \in Pages : OnItsWay(w) => OnItsWay(w)'
      BY <1>1, <1>3, <2>1, <2>3 DEF OnItsWay
    <2>5. Expected'
      BY <1>1, <1>3, <2>1, <2>4 DEF IInv, Expected, Newest
    <2> QED
      BY <2>2, <2>5 DEF IInv
  <1> QED
    BY <1>4, <1>5

LEMMA PollOk == ASSUME IInv, NEW v \in Pages, Poll(v) PROVE IInv'
  <1>1. UNCHANGED <<engine, listener, channel, stream, queue, cache, page>>
    BY DEF Poll, engineVars, streamVars
  <1>2. /\ request' \in [Requests -> Answers \cup {None, Asked}]
        /\ newest' \in [Pages -> 1..InFlight] /\ lost' \in [Pages -> BOOLEAN]
        /\ Newest(v)' = Asked
        /\ \A w \in Pages \ {v} : Newest(w)' = Newest(w) /\ lost'[w] = lost[w]
    BY AskOk DEF IInv, Poll
  <1>3. Types'
    BY <1>1, <1>2 DEF IInv, Types
  <1>4. Newest(v)' # None /\ Newest(v)'.age # "old"
    BY <1>2, AnswerKinds
  <1>5. \A w \in Pages \ {v} : OnItsWay(w) => OnItsWay(w)'
    BY <1>1, <1>2 DEF OnItsWay
  <1>6. Expected'
    BY <1>1, <1>2, <1>4, <1>5 DEF IInv, Expected
  <1> QED
    BY <1>3, <1>6 DEF IInv

LEMMA MissOk == ASSUME IInv, NEW r \in Requests, Miss(r) PROVE IInv'
  <1>1. UNCHANGED <<engine, listener, channel, stream, queue, newest, cache, page, lost>>
    BY DEF Miss, engineVars, streamVars
  <1>2. request' = [request EXCEPT ![r] = Fresh]
    BY DEF Miss
  <1>3. Types'
    BY <1>1, <1>2, AnswerKinds DEF IInv, Types
  <1>4. Fresh # None /\ Fresh.age # "old"
    BY AnswerKinds
  <1>5. \A w \in Pages : Newest(w)' = Newest(w) \/ Newest(w)' = Fresh
    BY <1>1, <1>2, NewestIsOne DEF IInv, Types, Newest
  <1>6. \A w \in Pages : OnItsWay(w) => OnItsWay(w)'
    BY <1>1 DEF OnItsWay
  <1>7. Expected'
    BY <1>1, <1>4, <1>5, <1>6 DEF IInv, Expected
  <1> QED
    BY <1>3, <1>7 DEF IInv

\* A page is shown an answer.  If it is old and that of the newest request, the
\* page can expect the event; if of another, the newest is still to be answered,
\* or this one came in after it.
LEMMA ShowOk ==
  ASSUME IInv, NEW r \in Requests, NEW a \in Answers, Show(r, a),
         cache' \in [Classes -> Answers \cup {None}],
         \A c \in Classes : cache'[c].age = "old" => engine = 1,
         r[2] = newest[r[1]] /\ a.age = "old" => OnItsWay(r[1])
  PROVE  IInv'
  <1> DEFINE v == r[1]
             b == IF Overtaken(r) THEN Late(a) ELSE a
  <1>1. UNCHANGED <<engine, listener, channel, stream, queue, newest, lost>>
    BY DEF Show, engineVars, streamVars
  <1>2. v \in Pages /\ r[2] \in 1..InFlight /\ r = <<v, r[2]>>
    BY DEF Requests
  <1>3. b \in Answers /\ (Overtaken(r) => b.age # "old") /\ (~Overtaken(r) => b = a)
    BY AnswerKinds
  <1>4. page' = [page EXCEPT ![v] = b] /\ request' = [request EXCEPT ![r] = None]
    BY DEF Show
  <1>5. Types'
    BY <1>1, <1>2, <1>3, <1>4 DEF IInv, Types
  <1>6. \A w \in Pages : OnItsWay(w) => OnItsWay(w)'
    BY <1>1 DEF OnItsWay
  <1>7. ASSUME NEW w \in Pages \ {v} PROVE Newest(w)' = Newest(w) /\ page'[w] = page[w]
    <2>1. <<w, newest[w]>> # r /\ <<w, newest[w]>> \in Requests
      BY <1>2, NewestIsOne DEF IInv
    <2> QED
      BY <1>1, <1>4, <2>1 DEF IInv, Types, Newest
  <1>8. page'[v] = b
    BY <1>2, <1>4 DEF IInv, Types
  <1>9. None.age # "old"
    BY AnswerKinds
  <1>10. CASE r[2] = newest[v]
    <2>1. Newest(v)' = None
      BY <1>1, <1>2, <1>4, <1>10 DEF IInv, Types, Newest
    <2>2. ~Overtaken(r)
      BY <1>10 DEF Overtaken
    <2>3. page'[v].age = "old" => OnItsWay(v)'
      BY <1>2, <1>3, <1>6, <1>8, <1>10, <2>2
    <2> HIDE DEF v, b
    <2> QED
      BY <1>1, <1>5, <1>6, <1>7, <1>9, <2>1, <2>3 DEF IInv, Expected
  <1>11. CASE r[2] # newest[v]
    <2>1. r # <<v, newest[v]>> /\ <<v, newest[v]>> \in Requests
      BY <1>2, <1>11, NewestIsOne DEF IInv
    <2>2. Newest(v)' = Newest(v)
      BY <1>1, <1>4, <2>1 DEF IInv, Types, Newest
    <2>3. Newest(v) = None => Overtaken(r)
      BY <1>11 DEF Overtaken, Newest
    <2>4. page'[v].age = "old" => Newest(v)' # None
      BY <1>3, <1>8, <2>2, <2>3
    <2> HIDE DEF v, b
    <2> QED
      BY <1>1, <1>5, <1>6, <1>7, <2>2, <2>4 DEF IInv, Expected
  <1> QED
    BY <1>10, <1>11

LEMMA HitOk == ASSUME IInv, NEW r \in Requests, Hit(r) PROVE IInv'
  <1> DEFINE c == Class[r[1]]
  <1>1. c \in Classes /\ cache[c] # None
    BY DEF Hit, Classes, Requests
  <1>2. cache[c] \in Answers
    BY <1>1 DEF IInv, Types
  <1>3. cache[c].age = "old" => OnItsWay(r[1])
    BY <1>1 DEF IInv, Expected, OnItsWay
  <1>4. Show(r, cache[c]) /\ cache' = cache
    BY DEF Hit
  <1> HIDE DEF c
  <1> QED
    BY <1>2, <1>3, <1>4, ShowOk DEF IInv, Types, Expected

LEMMA StoreOk == ASSUME IInv, NEW r \in Requests, Store(r) PROVE IInv'
  <1> DEFINE b == IF ToBeCleared THEN request[r] ELSE Late(request[r])
  <1>1. request[r] \in Answers
    BY DEF Store, IInv, Types
  <1>2. b \in Answers /\ (b.age = "old" => ToBeCleared)
    BY <1>1, AnswerKinds
  <1>3. b.age = "old" => engine = 1
    BY <1>2, TwoSteps DEF IInv, Types
  <1>4. cache' = [cache EXCEPT ![Class[r[1]]] = b] /\ Show(r, request[r])
    BY DEF Store
  <1> HIDE DEF b
  <1>5. /\ cache' \in [Classes -> Answers \cup {None}]
        /\ \A c \in Classes : cache'[c].age = "old" => engine = 1
    BY <1>2, <1>3, <1>4 DEF IInv, Types, Expected
  <1>6. r[1] \in Pages /\ r = <<r[1], r[2]>>
    BY DEF Requests
  <1>7. r[2] = newest[r[1]] /\ request[r].age = "old" => OnItsWay(r[1])
    BY <1>6 DEF IInv, Expected, Newest
  <1> QED
    BY <1>1, <1>4, <1>5, <1>7, ShowOk

-----------------------------------------------------------------------------

LEMMA StutterOk == IInv /\ UNCHANGED vars => IInv'
  BY DEF IInv, Types, Expected, OnItsWay, Newest, vars, engineVars, streamVars, answerVars

LEMMA StepOk == IInv /\ [Next]_vars => IInv'
  <1> SUFFICES ASSUME IInv, [Next]_vars PROVE IInv'
    OBVIOUS
  <1>1. CASE Announce \/ CloseRound \/ ClearAll \/ PublishRound \/ PublishOther \/ PublishError
                \/ EngineDies
    BY <1>1, AnnounceOk, CloseRoundOk, ClearAllOk, PublishRoundOk, PublishOtherOk, PublishErrorOk,
       EngineDiesOk
  <1>2. CASE \E c \in Classes : Expire(c) \/ Refill(c)
    BY <1>2, EntryOk
  <1>3. CASE Broadcast \/ ListenerFails \/ ListenerSubscribes
    BY <1>3, BroadcastOk, ListenerOk
  <1>4. CASE \E v \in Pages : NoToken(v) \/ BadGateway(v) \/ TokenExpires(v) \/ Connect(v)
    BY <1>4, ConnectOk DEF Connect
  <1>5. CASE \E v \in Pages : Disconnected(v)
    BY <1>5, DisconnectedOk
  <1>6. CASE \E v \in Pages : OnMessage(v) \/ Poll(v)
    BY <1>6, OnMessageOk, PollOk
  <1>7. CASE \E r \in Requests : Answer(r)
    BY <1>7, HitOk, StoreOk, MissOk DEF Answer
  <1>8. CASE UNCHANGED vars
    BY <1>8, StutterOk
  <1> QED
    BY <1>1, <1>2, <1>3, <1>4, <1>5, <1>6, <1>7, <1>8 DEF Next, Fault

\* Whatever fails, a page that shows less than the last round waits for the answer
\* of its newest request, can still expect the event, or has lost it: on a link
\* that failed or was full, or with the engine.  update_all_cache clears first, and
\* no step in between takes an event away unnoticed.
THEOREM RoundsArriveOrAreLost == Spec => []RoundsReachPages
  <1>1. IInv => RoundsReachPages
    BY DEF IInv, Expected, OnItsWay, Newest, RoundsReachPages
  <1> QED
    BY InitOk, StepOk, <1>1, PTL DEF Spec

=============================================================================

----------------------------- MODULE InjectCache -----------------------------
(***************************************************************************)
(* The cached answers about an inject (web/views/api/injects.py) and the   *)
(* deletions meant to keep them fresh (cache_helper.py).  Three views are  *)
(* cached per kind of viewer; a request that changes something deletes     *)
(* keys after its commit, one at a time; an entry also goes when its time  *)
(* is over and when the engine clears the cache at the end of a round.     *)
(*                                                                         *)
(* Of an answer only its age is kept: it is current, or old because        *)
(* something it shows has changed since it was computed.                   *)
(***************************************************************************)

CONSTANTS
  team,       \* the team the inject is given to
  graders,    \* the white team
  Views,      \* the cached views looked at: "detail", "comments", "files"
  Readers,    \* requests for a view
  Writers     \* requests that change something

ASSUME ViewsAssumption ==
  team # graders /\ Views \subseteq {"detail", "comments", "files"} /\ "detail" \in Views

VARIABLES
  cache,      \* the answer under each key: "none", "current", "old", or "late",
              \* old already when it was stored
  pending,    \* the keys each writing request has still to delete
  last,       \* the kind and the author of the last write
  filling     \* the answer each reader has computed: [key, age]

viewsVars == <<cache, pending, last, filling>>

Parts   == {"row", "comments", "files"}
Viewers == {team, graders}

\* make_cache_key: the path and the kind of viewer.
Key(view, viewer) == <<view, viewer>>

Keys == {Key(view, viewer) : view \in Views, viewer \in Viewers}

\* The key given by update_inject_comments and update_inject_files for a
\* team: ".../comments_3" where the answer is stored under ".../comments_team_3".
Unprefixed(view, viewer) == <<view, viewer, "unprefixed">>

\* The parts of the inject that a view shows.
Shown(view) == IF view = "detail" THEN Parts ELSE {view}

Nothing == [key |-> Key("detail", team), age |-> "none"]

\* What a request may do: hand in (submit, resubmit), comment, upload or delete
\* a file; and for a grader grade, reopen or request a revision ("grading").
Writes == {"handin", "comment", "upload", "delete", "grading"}

Changed(kind) ==
  CASE kind = "comment" -> {"comments"}
    [] kind \in {"upload", "delete"} -> {"files"}
    [] OTHER -> {"row", "comments"}

\* Mutant: a grader's write clears the graders' own views only.
ClearedByGraderOwn(by) == {Key(view, by) : view \in {"detail", "comments"}}

\* update_inject_data(inject_id) and update_inject_comments(inject_id): the
\* entries of every viewer.
ClearedByGrader(by) == {Key(view, viewer) : view \in {"detail", "comments"}, viewer \in Viewers}

\* update_inject_data(inject_id, current_user.team.id): no entry of a grader's
\* ends in _team_<id>.
ClearedDetail(by) == IF by = team THEN {Key("detail", team)} ELSE {}

Cleared(kind, by) ==
  CASE kind = "grading" -> ClearedByGrader(by)
    [] kind = "upload"   -> {Unprefixed("files", by)}
    [] kind = "delete"   -> {Unprefixed("files", by)} \cup ClearedDetail(by)
    [] OTHER -> {Unprefixed("comments", by)} \cup ClearedDetail(by)

\* The one who may: graders grade, the team hands in, both comment.
May(kind, by) == kind = "comment" \/ (by = graders <=> kind = "grading")

\* The age of an answer to key k after a write of this kind.
Aged(age, k, kind) ==
  IF age = "current" /\ Shown(k[1]) \cap Changed(kind) # {} THEN "old" ELSE age

\* The commit of a request that changes the inject.
Write(w, kind, by) ==
  /\ May(kind, by) /\ pending[w] = {}
  /\ cache' = [k \in Keys |-> Aged(cache[k], k, kind)]
  /\ filling' = [r \in Readers |->
                   [filling[r] EXCEPT !.age = Aged(@, filling[r].key, kind)]]
  /\ pending' = [pending EXCEPT ![w] = Cleared(kind, by)]
  /\ last' = <<kind, by>>

\* One of the deletions; a key nothing is stored under changes nothing.
Delete(w) ==
  /\ \E k \in pending[w] :
       /\ pending' = [pending EXCEPT ![w] = @ \ {k}]
       /\ cache' = [c \in Keys |-> IF c = k THEN "none" ELSE cache[c]]
  /\ UNCHANGED <<last, filling>>

\* A miss: the answer is computed from the database ...
Compute(r, k) ==
  /\ filling[r].age = "none" /\ cache[k] = "none"
  /\ filling' = [filling EXCEPT ![r] = [key |-> k, age |-> "current"]]
  /\ UNCHANGED <<cache, pending, last>>

\* ... and stored.
Store(r) ==
  /\ filling[r].age # "none"
  /\ cache' = [cache EXCEPT ![filling[r].key] =
                 IF filling[r].age = "old" THEN "late" ELSE "current"]
  /\ filling' = [filling EXCEPT ![r] = Nothing]
  /\ UNCHANGED <<pending, last>>

\* Mutant: entries are kept for ever.
ExpireNever(k) == FALSE

\* The entry's time is over: the cache is configured without a timeout, so that
\* Flask-Caching gives every entry its default one.
Expire(k) ==
  /\ cache[k] # "none"
  /\ cache' = [cache EXCEPT ![k] = "none"]
  /\ UNCHANGED <<pending, last, filling>>

\* update_all_cache at the end of a round.
ClearAll ==
  /\ cache' = [k \in Keys |-> "none"]
  /\ UNCHANGED <<pending, last, filling>>

ViewsInit ==
  /\ cache = [k \in Keys |-> "none"]
  /\ pending = [w \in Writers |-> {}]
  /\ last = <<"none", team>>
  /\ filling = [r \in Readers |-> Nothing]

ViewsNext ==
  \/ \E w \in Writers : Delete(w) \/ \E kind \in Writes, by \in Viewers : Write(w, kind, by)
  \/ ClearAll
  \/ \E r \in Readers : Store(r) \/ \E k \in Keys : Compute(r, k)
  \/ \E k \in Keys : Expire(k)

ViewsSpec == ViewsInit /\ [][ViewsNext]_viewsVars

\* Requests are served to their end, and entries live for a limited time.
ViewsFairSpec ==
  /\ ViewsSpec
  /\ \A w \in Writers : WF_viewsVars(Delete(w))
  /\ \A r \in Readers : WF_viewsVars(Store(r))
  /\ \A k \in Keys : WF_viewsVars(Expire(k))

(***************************************************************************)
(* Correctness                                                             *)
(***************************************************************************)

\* Every write so far has deleted what it deletes.
Settled == \A w \in Writers : pending[w] = {}

\* An entry may be old only if a reader stored it late.
Fresh(k) == cache[k] # "old"

\* After a grade, a reopening or a request for revision nobody is shown an
\* older detail or older comments, whatever the writes before it left stale.
GradingIsSeen ==
  Settled /\ last[1] = "grading" =>
    \A view \in Views \ {"files"}, viewer \in Viewers : Fresh(Key(view, viewer))

\* What update_inject_comments says it does: it clears the cached comments of
\* the inject, at least for the one who commented or handed in.
CommentsAreCleared ==
  Settled /\ last[1] \in {"handin", "comment"} => Fresh(Key("comments", last[2]))

\* Once nobody writes any more, whatever was missed, and however late a reader
\* put an old answer back, every viewer comes to be shown the inject as it is.
AnswersCatchUp ==
  <>[][~\E w \in Writers, kind \in Writes, by \in Viewers : Write(w, kind, by)]_viewsVars =>
    <>[](\A k \in Keys : cache[k] \in {"none", "current"})

=============================================================================

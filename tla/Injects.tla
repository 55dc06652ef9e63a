------------------------------- MODULE Injects -------------------------------
(***************************************************************************)
(* One team's inject and the requests that move it along its workflow: the *)
(* team's (web/views/api/injects.py) and the graders' (the inject part of  *)
(* web/views/api/admin.py).                                                *)
(*                                                                         *)
(* A request reads the inject, its scores and its template's rubric in the *)
(* snapshot of its transaction, decides, and commits.  Nothing locks the   *)
(* rows in between and nothing is compared at the commit; only columns     *)
(* whose value differs from the one read are written, and the foreign keys *)
(* of the scores are checked.                                              *)
(***************************************************************************)
EXTENDS Naturals, FiniteSets

CONSTANTS
  Requests,   \* requests in flight at once
  Items,      \* ids a rubric item may have
  MaxPoints,  \* bound: points of a rubric item
  MaxActs     \* bound: requests ever made, and files after a request's first

ASSUME InjectsAssumption == MaxPoints \in Nat /\ MaxActs \in Nat

VARIABLES
  inject,   \* the row: [status, graded]; graded: the time stamp is set
  scores,   \* inject_rubric_score: [grade, item, score], grade the request's number
  files,    \* inject_file, by number
  points,   \* the template's rubric: points of its items, 0 for no such item
  ended,    \* the template's end_time has passed
  rpc,      \* what each request is about to commit, or "none"
  read,     \* what it read
  acts,
  overlapped  \* history: the pairs of operations, edits of the template apart, that
              \* were in flight at once

vars == <<inject, scores, files, points, ended, rpc, read, acts, overlapped>>

Statuses == {"Draft", "Submitted", "Revision Requested", "Resubmitted", "Graded"}

Operations ==
  {"submit", "resubmit", "upload", "delete", "grade", "reopen", "revision", "edit"}

Editable == {"Draft", "Revision Requested"}

InRubric(p) == {i \in Items : p[i] # 0}

InFlight == {q \in Requests : rpc[q] # "none"}

\* The id of the rows that a request inserts.
NewId == acts + 1

NoInject == [status |-> "Draft", graded |-> FALSE]
NoRead   == [id |-> 0, inject |-> NoInject, scores |-> {}, points |-> [i \in Items |-> 0],
             files |-> {}]

\* Of what a request reads, what its operation goes on to use.
Snapshot(operation) ==
  LET current == [id |-> NewId, inject |-> inject, scores |-> scores, points |-> points,
                  files |-> files]
  IN  CASE operation \in {"grade", "edit"} -> [current EXCEPT !.files = {}]
        [] operation = "delete" -> [NoRead EXCEPT !.files = files]
        [] operation = "upload" -> [NoRead EXCEPT !.id = NewId]
        [] OTHER -> [NoRead EXCEPT !.inject = inject]

\* The read of a request that found what its operation asks for.
Begin(r, operation) ==
  /\ rpc[r] = "none" /\ acts < MaxActs
  /\ acts' = acts + 1
  /\ overlapped' = overlapped \cup
       {pair \in {{operation, rpc[q]} : q \in InFlight} : "edit" \notin pair}
  /\ rpc' = [rpc EXCEPT ![r] = operation]
  /\ read' = [read EXCEPT ![r] = Snapshot(operation)]
  /\ UNCHANGED <<inject, scores, files, points, ended>>

\* Mutant: files may change until the inject is graded.
FilesOpenUngraded == inject.status # "Graded"

FilesOpen == inject.status \in Editable

BeginSubmit(r)   == ~ended /\ inject.status = "Draft" /\ Begin(r, "submit")
BeginResubmit(r) == ~ended /\ inject.status = "Revision Requested" /\ Begin(r, "resubmit")
BeginUpload(r)   == ~ended /\ FilesOpen /\ Begin(r, "upload")
BeginDelete(r)   == files # {} /\ FilesOpen /\ Begin(r, "delete")
BeginGrade(r)    == InRubric(points) # {} /\ Begin(r, "grade")
BeginReopen(r)   == inject.status = "Graded" /\ Begin(r, "reopen")
BeginRevision(r) == inject.status \in {"Submitted", "Resubmitted"} /\ Begin(r, "revision")
BeginEdit(r)     == Begin(r, "edit")

Over(r) ==
  /\ rpc' = [rpc EXCEPT ![r] = "none"]
  /\ read' = [read EXCEPT ![r] = NoRead]
  /\ UNCHANGED <<ended, acts, overlapped>>

Commit(r, operation) == rpc[r] = operation /\ Over(r)

\* The status after request r sets it: a value equal to the one read is not
\* written.
SetStatus(r, status) == IF status = read[r].inject.status THEN inject.status ELSE status

\* The team hands in, for the first time or again.
Submit(r) ==
  /\ \/ Commit(r, "submit")   /\ inject' = [inject EXCEPT !.status = SetStatus(r, "Submitted")]
     \/ Commit(r, "resubmit") /\ inject' = [inject EXCEPT !.status = SetStatus(r, "Resubmitted")]
  /\ UNCHANGED <<scores, files, points>>

\* A file is stored and its row committed; if the request has more of them it
\* goes on without looking at the inject again.
Upload(r) ==
  /\ files' = files \cup {read[r].id}
  /\ \/ Commit(r, "upload")
     \/ /\ rpc[r] = "upload" /\ acts < MaxActs
        /\ acts' = acts + 1
        /\ read' = [read EXCEPT ![r].id = NewId]
        /\ UNCHANGED <<ended, rpc, overlapped>>
  /\ UNCHANGED <<inject, scores, points>>

DeleteFile(r) ==
  /\ Commit(r, "delete")
  /\ \E f \in read[r].files : files' = files \ {f}
  /\ UNCHANGED <<inject, scores, points>>

\* Mutant: the earlier scores stay.
ReplacedNone(r) == {}

\* The scores a grade removes: those it read.
Replaced(r) == read[r].scores

\* A score per item, at most the item's points; the status is not looked at.
Grade(r) ==
  /\ \E graded \in SUBSET InRubric(read[r].points) \ {{}} :
     \E given \in [graded -> 0..MaxPoints] :
       /\ \A i \in graded : given[i] <= read[r].points[i]
       /\ graded \subseteq InRubric(points)   \* foreign key
       /\ scores' = (scores \ Replaced(r))
                    \cup {[grade |-> read[r].id, item |-> i, score |-> given[i]] : i \in graded}
  /\ inject' = [status |-> SetStatus(r, "Graded"), graded |-> TRUE]
  /\ Commit(r, "grade")
  /\ UNCHANGED <<files, points>>

\* Mutant: the time stamp stays.
ReopenedStamp(r) == inject.graded

\* inject.graded = None
Reopened(r) == inject.graded /\ ~read[r].inject.graded

\* Back to the graders; the scores stay until the next grade.
Reopen(r) ==
  /\ Commit(r, "reopen")
  /\ inject' = [status |-> SetStatus(r, "Submitted"), graded |-> Reopened(r)]
  /\ UNCHANGED <<scores, files, points>>

RequestRevision(r) ==
  /\ Commit(r, "revision")
  /\ inject' = [inject EXCEPT !.status = SetStatus(r, "Revision Requested")]
  /\ UNCHANGED <<scores, files, points>>

\* The scores that go with a rubric item: those the request read.
OfItem(r, i) == {s \in read[r].scores : s.item = i}

\* Rubric items are added, changed in place, or removed with their scores.
EditTemplate(r) ==
  /\ Commit(r, "edit")
  /\ \E i \in Items :
       \/ /\ points[i] = 0 /\ read[r].points[i] = 0
          /\ \E p \in 1..MaxPoints : points' = [points EXCEPT ![i] = p]
          /\ UNCHANGED scores
       \/ /\ points[i] # 0 /\ read[r].points[i] # 0
          /\ \E p \in 1..MaxPoints : points' = [points EXCEPT ![i] = p]
          /\ UNCHANGED scores
       \/ /\ read[r].points[i] # 0
          /\ scores' = scores \ OfItem(r, i)
          /\ \A s \in scores' : s.item # i     \* foreign key
          /\ points' = [points EXCEPT ![i] = 0]
  /\ UNCHANGED <<inject, files>>

\* A request ends without effect: refused, failed or rolled back.
Fail(r) ==
  /\ rpc[r] # "none"
  /\ Over(r)
  /\ UNCHANGED <<inject, scores, files, points>>

\* Time passes end_time, or an edit of the template moves it.
EndTime ==
  /\ ended' = ~ended
  /\ UNCHANGED <<inject, scores, files, points, rpc, read, acts, overlapped>>

Init ==
  /\ inject = NoInject
  /\ scores = {} /\ files = {}
  /\ points \in [Items -> 0..MaxPoints]
  /\ ended = FALSE
  /\ rpc = [r \in Requests |-> "none"]
  /\ read = [r \in Requests |-> NoRead]
  /\ acts = 0 /\ overlapped = {}

Next ==
  \/ \E r \in Requests :
       \/ BeginSubmit(r) \/ BeginResubmit(r) \/ BeginUpload(r) \/ BeginDelete(r)
       \/ BeginGrade(r) \/ BeginReopen(r) \/ BeginRevision(r) \/ BeginEdit(r)
       \/ Submit(r) \/ Upload(r) \/ DeleteFile(r)
       \/ Grade(r) \/ Reopen(r) \/ RequestRevision(r) \/ EditTemplate(r)
       \/ Fail(r)
  \/ EndTime

Spec == Init /\ [][Next]_vars

(***************************************************************************)
(* Correctness                                                             *)
(***************************************************************************)

\* What the grade handler and a test of reopening say: the existing scores
\* are deleted, so that those present are all of one grade and Inject.score
\* is what its grader gave.
ScoresOfOneGrade == \A s, t \in scores : s.grade = t.grade

\* Operations of A and of B were in flight together.
Met(A, B) == \E pair \in overlapped : \E a \in A, b \in B : pair = {a, b}

\* It is so unless two grades overlapped, whatever else did, over any number
\* of grades, reopenings and edits of the rubric.
SerialScoresOfOneGrade == ~Met({"grade"}, {"grade"}) => ScoresOfOneGrade

\* The time stamp by which a frozen board selects injects and the status by
\* which the totals do agree, unless a grade or a reopening overlapped another
\* change of status.
StampMatchesStatus ==
  \/ inject.graded <=> inject.status = "Graded"
  \/ Met({"grade", "reopen"}, Operations \ {"upload", "delete", "edit"})

\* What is handed in stays as it is until a revision is requested: its files
\* are those of the moment of submission, unless the team was changing them
\* while it submitted or a grader graded or reopened.
HandedInFilesStay ==
  [][inject.status \in Editable \/ files' = files
       \/ Met({"upload", "delete"}, {"submit", "resubmit", "grade", "reopen"})]_vars

=============================================================================

--------------------------- MODULE Injects_proofs ---------------------------
(***************************************************************************)
(* Proofs about the workflow of an inject, for any number of requests in   *)
(* flight, of rubric items and of points; and, at the end, about the       *)
(* cached answers, for any number of readers and writers.                  *)
(***************************************************************************)
EXTENDS Injects, InjectCache, TLAPS

\* What the requests in flight do to the status and to the files.
Graders  == {"grade", "reopen"}
Movers   == {"submit", "resubmit", "grade", "reopen", "revision"}
Filers   == {"upload", "delete"}
HandIns  == {"submit", "resubmit", "grade", "reopen"}

Types ==
  /\ rpc \in [Requests -> Operations \cup {"none"}]
  /\ DOMAIN read = Requests
  /\ inject \in [status : Statuses, graded : BOOLEAN]

\* Two operations in flight at once are on record.
Pairs ==
  \A r, q \in Requests :
    r # q /\ rpc[r] \notin {"none", "edit"} /\ rpc[q] \notin {"none", "edit"} =>
      {rpc[r], rpc[q]} \in overlapped

\* A grade that overlaps no other removes every score there is.
GradesReadAll ==
  ~Met({"grade"}, {"grade"}) =>
    /\ ScoresOfOneGrade
    /\ \A q \in Requests : rpc[q] = "grade" => scores \subseteq read[q].scores

\* A grade or a reopening that overlaps no other change of status decides on
\* the inject as it is, and the stamp is not set while a change of status that
\* overlaps neither is under way.
StampFollows ==
  ~Met(Graders, Movers) =>
    /\ inject.graded <=> inject.status = "Graded"
    /\ \A q \in Requests :
         /\ rpc[q] \in Graders => read[q].inject = inject
         /\ rpc[q] = "reopen" => inject.status = "Graded"
         /\ rpc[q] \in Movers \ Graders => ~inject.graded

\* Files are changed while they may be.
FilersMay ==
  ~Met(Filers, HandIns) =>
    \A q \in Requests : rpc[q] \in Filers => inject.status \in Editable

IInv == Types /\ Pairs /\ GradesReadAll /\ StampFollows /\ FilersMay

-----------------------------------------------------------------------------

LEMMA MoversAre == Operations \ {"upload", "delete", "edit"} = Movers
  BY DEF Operations, Movers

\* Operations in flight at once have met.
LEMMA InFlightMeet ==
  ASSUME Pairs, NEW r \in Requests, NEW q \in Requests, r # q,
         NEW A, NEW B, rpc[r] \in A, rpc[q] \in B,
         A \cap {"none", "edit"} = {}, B \cap {"none", "edit"} = {}
  PROVE  Met(A, B)
  <1>1. {rpc[r], rpc[q]} \in overlapped
    BY DEF Pairs
  <1> QED
    BY <1>1 DEF Met

\* What has met has met for ever.
LEMMA MetStays ==
  ASSUME NEW A, NEW B, overlapped \subseteq overlapped', Met(A, B)
  PROVE  Met(A, B)'
  BY DEF Met

LEMMA InitOk == Init => IInv
  <1> SUFFICES ASSUME Init PROVE IInv
    OBVIOUS
  <1>1. Types
    BY DEF Init, Types, NoInject, Statuses
  <1>2. \A q \in Requests : rpc[q] = "none"
    BY DEF Init
  <1>3. Pairs
    BY <1>2 DEF Pairs
  <1>4. GradesReadAll
    BY <1>2 DEF Init, GradesReadAll, ScoresOfOneGrade
  <1>5. StampFollows
    BY <1>2 DEF Init, StampFollows, NoInject, Graders, Movers
  <1>6. FilersMay
    BY <1>2 DEF FilersMay, Filers
  <1> QED
    BY <1>1, <1>3, <1>4, <1>5, <1>6 DEF IInv

\* A request begins.
LEMMA BeginOk ==
  ASSUME IInv, NEW r \in Requests, NEW operation \in Operations, Begin(r, operation),
         operation \in Filers => inject.status \in Editable,
         operation = "reopen" => inject.status = "Graded",
         operation \in Movers \ Graders => inject.status # "Graded"
  PROVE  IInv'
  <1> USE DEF IInv
  <1>1. /\ rpc' = [rpc EXCEPT ![r] = operation] /\ rpc[r] = "none"
        /\ read' = [read EXCEPT ![r] = Snapshot(operation)]
        /\ UNCHANGED <<inject, scores, files, points, ended>>
        /\ \A q \in Requests : rpc[q] # "none" /\ "edit" \notin {operation, rpc[q]} =>
             {operation, rpc[q]} \in overlapped'
        /\ overlapped \subseteq overlapped'
    BY DEF Begin, InFlight
  <1>2. /\ rpc'[r] = operation /\ read'[r] = Snapshot(operation)
        /\ \A q \in Requests : q # r => rpc'[q] = rpc[q] /\ read'[q] = read[q]
    BY <1>1 DEF Types
  <1>3. Types'
    BY <1>1 DEF Types
  <1>4. Pairs'
    BY <1>1, <1>2 DEF Pairs
  <1>5. GradesReadAll'
    <2>1. operation = "grade" => Snapshot(operation).scores = scores
      BY DEF Snapshot
    <2> QED
      BY <1>1, <1>2, <2>1, MetStays DEF GradesReadAll, ScoresOfOneGrade
  <1>6. StampFollows'
    <2>1. operation \in Graders => Snapshot(operation).inject = inject
      BY DEF Snapshot, Graders
    <2> SUFFICES ASSUME ~Met(Graders, Movers)'
                 PROVE  /\ inject.graded <=> inject.status = "Graded"
                        /\ \A q \in Requests :
                             /\ rpc'[q] \in Graders => read'[q].inject = inject
                             /\ rpc'[q] = "reopen" => inject.status = "Graded"
                             /\ rpc'[q] \in Movers \ Graders => ~inject.graded
      BY <1>1 DEF StampFollows
    <2>2. ~Met(Graders, Movers)
      BY <1>1, MetStays
    <2> QED
      BY <1>2, <2>1, <2>2 DEF StampFollows
  <1>7. FilersMay'
    BY <1>1, <1>2, MetStays DEF FilersMay
  <1> QED
    BY <1>3, <1>4, <1>5, <1>6, <1>7

\* What the end of a request leaves of the others.
LEMMA OverLeaves ==
  ASSUME Types, NEW r \in Requests, Over(r)
  PROVE  /\ rpc'[r] = "none"
         /\ \A q \in Requests : rpc'[q] # "none" => q # r /\ rpc'[q] = rpc[q] /\ read'[q] = read[q]
         /\ rpc' \in [Requests -> Operations \cup {"none"}] /\ DOMAIN read' = Requests
         /\ overlapped' = overlapped
  BY DEF Types, Over

LEMMA OverKeepsPairs ==
  ASSUME Types, Pairs, NEW r \in Requests, Over(r)
  PROVE  Pairs'
  BY OverLeaves DEF Pairs

\* A request that changes neither status nor scores ends.
LEMMA QuietEnd ==
  ASSUME IInv, NEW r \in Requests, Over(r), inject' = inject, scores' \subseteq scores
  PROVE  IInv'
  <1> USE DEF IInv
  <1>1. Types' /\ Pairs'
    BY OverLeaves, OverKeepsPairs DEF Types
  <1>2. Met({"grade"}, {"grade"})' = Met({"grade"}, {"grade"})
        /\ Met(Graders, Movers)' = Met(Graders, Movers)
        /\ Met(Filers, HandIns)' = Met(Filers, HandIns)
    BY OverLeaves DEF Met
  <1>3. GradesReadAll'
    BY <1>2, OverLeaves DEF GradesReadAll, ScoresOfOneGrade
  <1>4. StampFollows'
    BY <1>2, OverLeaves DEF StampFollows, Graders, Movers
  <1>5. FilersMay'
    BY <1>2, OverLeaves DEF FilersMay, Filers
  <1> QED
    BY <1>1, <1>3, <1>4, <1>5

\* A request that moves the status ends: the stamp must follow, and the files
\* be open if the inject is editable.
LEMMA MoveEnd ==
  ASSUME IInv, NEW r \in Requests, Over(r), rpc[r] \in Movers,
         inject' \in [status : Statuses, graded : BOOLEAN],
         rpc[r] # "grade" => scores' = scores,
         rpc[r] = "grade" /\ scores \subseteq read[r].scores =>
           \A s, t \in scores' : s.grade = t.grade,
         ~Met(Graders, Movers) => (inject'.graded <=> inject'.status = "Graded"),
         ~Met(Graders, Movers) /\ rpc[r] \notin Graders => inject'.graded = inject.graded,
         rpc[r] = "revision" /\ inject.status \in Editable => inject'.status \in Editable
  PROVE  IInv'
  <1> USE DEF IInv
  <1>1. Types' /\ Pairs'
    BY OverLeaves, OverKeepsPairs DEF Types
  <1>2. Met({"grade"}, {"grade"})' = Met({"grade"}, {"grade"})
        /\ Met(Graders, Movers)' = Met(Graders, Movers)
        /\ Met(Filers, HandIns)' = Met(Filers, HandIns)
    BY OverLeaves DEF Met
  <1>3. GradesReadAll'
    <2>1. CASE rpc[r] = "grade"
      <3> SUFFICES ASSUME ~Met({"grade"}, {"grade"})
                   PROVE  /\ \A s, t \in scores' : s.grade = t.grade
                          /\ \A q \in Requests : rpc'[q] # "grade"
        BY <1>2 DEF GradesReadAll, ScoresOfOneGrade
      <3>1. scores \subseteq read[r].scores
        BY <2>1 DEF GradesReadAll
      <3>2. \A q \in Requests : q # r => rpc[q] # "grade"
        BY <2>1, InFlightMeet
      <3> QED
        BY <2>1, <3>1, <3>2, OverLeaves
    <2>2. CASE rpc[r] # "grade"
      BY <1>2, <2>2, OverLeaves DEF GradesReadAll, ScoresOfOneGrade
    <2> QED
      BY <2>1, <2>2
  <1>4. StampFollows'
    <2> SUFFICES ASSUME ~Met(Graders, Movers), NEW q \in Requests, rpc'[q] \in Movers
                 PROVE  /\ rpc'[q] \notin Graders
                        /\ rpc'[q] \in Movers \ Graders => ~inject'.graded
      BY <1>2 DEF StampFollows, Graders, Movers
    <2>1. q # r /\ rpc[q] = rpc'[q]
      BY OverLeaves DEF Movers
    <2>2. rpc[q] \notin Graders
      BY <2>1, InFlightMeet DEF Graders, Movers
    <2>3. rpc[r] \notin Graders
      BY <2>1, InFlightMeet DEF Graders, Movers
    <2>4. ~inject.graded
      BY <2>1, <2>2 DEF StampFollows
    <2> QED
      BY <2>1, <2>2, <2>3, <2>4
  <1>5. FilersMay'
    <2> SUFFICES ASSUME ~Met(Filers, HandIns), NEW q \in Requests, rpc'[q] \in Filers
                 PROVE  inject'.status \in Editable
      BY <1>2 DEF FilersMay
    <2>1. q # r /\ rpc[q] \in Filers
      BY OverLeaves DEF Filers
    <2>2. rpc[r] \notin HandIns
      BY <2>1, InFlightMeet DEF Filers, HandIns
    <2>3. rpc[r] = "revision"
      BY <2>2 DEF HandIns, Movers
    <2> QED
      BY <2>1, <2>3 DEF FilersMay
  <1> QED
    BY <1>1, <1>3, <1>4, <1>5

LEMMA StepOk == IInv /\ [Next]_vars => IInv'
  <1> SUFFICES ASSUME IInv, [Next]_vars PROVE IInv'
    OBVIOUS
  <1>0. Types /\ inject.status \in Statuses /\ inject.graded \in BOOLEAN
    BY DEF IInv, Types
  <1>1. ASSUME NEW r \in Requests,
               BeginSubmit(r) \/ BeginResubmit(r) \/ BeginUpload(r) \/ BeginDelete(r)
               \/ BeginGrade(r) \/ BeginReopen(r) \/ BeginRevision(r) \/ BeginEdit(r)
        PROVE  IInv'
    <2>1. PICK operation \in Operations :
            /\ Begin(r, operation)
            /\ operation \in Filers => inject.status \in Editable
            /\ operation = "reopen" => inject.status = "Graded"
            /\ operation \in Movers \ Graders => inject.status # "Graded"
      BY <1>1 DEF BeginSubmit, BeginResubmit, BeginUpload, BeginDelete, BeginGrade, BeginReopen,
                  BeginRevision, BeginEdit, FilesOpen, Operations, Filers, Movers, Graders
    <2> QED
      BY <2>1, BeginOk
  <1>2. ASSUME NEW r \in Requests, Submit(r) PROVE IInv'
    <2>1. PICK status \in {"Submitted", "Resubmitted"} :
            /\ Over(r) /\ rpc[r] \in {"submit", "resubmit"}
            /\ inject' = [inject EXCEPT !.status = SetStatus(r, status)]
            /\ scores' = scores
      BY <1>2 DEF Submit, Commit
    <2>2. SetStatus(r, status) \in {inject.status, status}
      BY DEF SetStatus
    <2>3. /\ inject' \in [status : Statuses, graded : BOOLEAN]
          /\ inject'.graded = inject.graded /\ inject'.status \in {inject.status, status}
      BY <1>0, <2>1, <2>2 DEF Types, Statuses
    <2>4. ~Met(Graders, Movers) => ~inject.graded /\ inject.status # "Graded"
      BY <2>1 DEF IInv, StampFollows, Movers, Graders
    <2> QED
      BY <2>1, <2>3, <2>4, MoveEnd DEF Movers, Graders
  <1>3. ASSUME NEW r \in Requests, Upload(r) PROVE IInv'
    <2>1. CASE Commit(r, "upload")
      BY <1>3, <2>1, QuietEnd DEF Upload, Commit
    <2>2. CASE ~Commit(r, "upload")
      <3>1. /\ rpc[r] = "upload" /\ UNCHANGED <<rpc, overlapped, inject, scores>>
            /\ read' = [read EXCEPT ![r].id = NewId]
        BY <1>3, <2>2 DEF Upload
      <3>2. DOMAIN read' = Requests /\ \A q \in Requests : q # r => read'[q] = read[q]
        BY <1>0, <3>1 DEF Types
      <3>3. Types' /\ Pairs' /\ FilersMay'
        BY <3>1, <3>2 DEF IInv, Types, Pairs, FilersMay, Met
      <3>4. GradesReadAll' /\ StampFollows'
        BY <3>1, <3>2 DEF IInv, GradesReadAll, StampFollows, ScoresOfOneGrade, Met, Graders
      <3> QED
        BY <3>3, <3>4 DEF IInv
    <2> QED
      BY <2>1, <2>2
  <1>4. ASSUME NEW r \in Requests, DeleteFile(r) PROVE IInv'
    BY <1>4, QuietEnd DEF DeleteFile, Commit
  <1>5. ASSUME NEW r \in Requests, Grade(r) PROVE IInv'
    <2>1. /\ Over(r) /\ rpc[r] = "grade"
          /\ inject' = [status |-> SetStatus(r, "Graded"), graded |-> TRUE]
      BY <1>5 DEF Grade, Commit
    <2>2. scores \subseteq read[r].scores => \A s, t \in scores' : s.grade = t.grade
      BY <1>5 DEF Grade, Replaced
    <2>3. SetStatus(r, "Graded") \in {inject.status, "Graded"}
      BY DEF SetStatus
    <2>4. ~Met(Graders, Movers) => SetStatus(r, "Graded") = "Graded"
      BY <2>1 DEF IInv, StampFollows, Graders, SetStatus
    <2>5. inject' \in [status : Statuses, graded : BOOLEAN]
      BY <1>0, <2>1, <2>3 DEF Statuses
    <2>6. inject'.graded /\ inject'.status = SetStatus(r, "Graded")
      BY <2>1
    <2> QED
      BY <2>1, <2>2, <2>4, <2>5, <2>6, MoveEnd DEF Movers, Graders
  <1>6. ASSUME NEW r \in Requests, Reopen(r) PROVE IInv'
    <2>1. /\ Over(r) /\ rpc[r] = "reopen" /\ scores' = scores
          /\ inject' = [status |-> SetStatus(r, "Submitted"), graded |-> Reopened(r)]
      BY <1>6 DEF Reopen, Commit
    <2>2. SetStatus(r, "Submitted") \in {inject.status, "Submitted"} /\ Reopened(r) \in BOOLEAN
      BY <1>0 DEF SetStatus, Reopened
    <2>3. inject' \in [status : Statuses, graded : BOOLEAN]
      BY <1>0, <2>1, <2>2 DEF Statuses
    <2>4. ~Met(Graders, Movers) => SetStatus(r, "Submitted") = "Submitted" /\ ~Reopened(r)
      BY <2>1 DEF IInv, StampFollows, Graders, SetStatus, Reopened
    <2>5. inject'.graded = Reopened(r) /\ inject'.status = SetStatus(r, "Submitted")
      BY <2>1
    <2> QED
      BY <2>1, <2>3, <2>4, <2>5, MoveEnd DEF Movers, Graders
  <1>7. ASSUME NEW r \in Requests, RequestRevision(r) PROVE IInv'
    <2>1. /\ Over(r) /\ rpc[r] = "revision" /\ scores' = scores
          /\ inject' = [inject EXCEPT !.status = SetStatus(r, "Revision Requested")]
      BY <1>7 DEF RequestRevision, Commit
    <2>2. SetStatus(r, "Revision Requested") \in {inject.status, "Revision Requested"}
      BY DEF SetStatus
    <2>3. /\ inject' \in [status : Statuses, graded : BOOLEAN]
          /\ inject'.graded = inject.graded /\ inject'.status \in {inject.status, "Revision Requested"}
      BY <1>0, <2>1, <2>2 DEF Types, Statuses
    <2>4. ~Met(Graders, Movers) => ~inject.graded /\ inject.status # "Graded"
      BY <2>1 DEF IInv, StampFollows, Movers, Graders
    <2> QED
      BY <2>1, <2>3, <2>4, MoveEnd DEF Movers, Graders, Editable
  <1>8. ASSUME NEW r \in Requests, EditTemplate(r) PROVE IInv'
    <2>1. Over(r) /\ inject' = inject /\ scores' \subseteq scores
      BY <1>8 DEF EditTemplate, Commit
    <2> QED
      BY <2>1, QuietEnd
  <1>9. ASSUME NEW r \in Requests, Fail(r) PROVE IInv'
    BY <1>9, QuietEnd DEF Fail
  <1>10. CASE EndTime \/ UNCHANGED vars
    <2>1. UNCHANGED <<inject, scores, rpc, read, overlapped>>
      BY <1>10 DEF EndTime, vars
    <2> QED
      BY <2>1 DEF IInv, Types, Pairs, GradesReadAll, StampFollows, FilersMay, ScoresOfOneGrade, Met
  <1> QED
    BY <1>1, <1>2, <1>3, <1>4, <1>5, <1>6, <1>7, <1>8, <1>9, <1>10 DEF Next

LEMMA Inductive == Spec => []IInv
  BY InitOk, StepOk, PTL DEF Spec

-----------------------------------------------------------------------------
(* The theorems *)

\* Unless two grades overlapped, the scores are those of one grade, whatever
\* else did.
THEOREM ScoresAreOfOneGrade == Spec => []SerialScoresOfOneGrade
  <1>1. IInv => SerialScoresOfOneGrade
    BY DEF IInv, GradesReadAll, SerialScoresOfOneGrade
  <1> QED
    BY <1>1, Inductive, PTL

\* Unless a grade or a reopening overlapped another change of status, the stamp
\* is set if and only if the inject is graded.
THEOREM StampIsStatus == Spec => []StampMatchesStatus
  <1>1. IInv => StampMatchesStatus
    BY MoversAre DEF IInv, StampFollows, StampMatchesStatus, Graders
  <1> QED
    BY <1>1, Inductive, PTL

\* What is handed in stays, unless its files were changed while it was handed
\* in, graded or reopened.
THEOREM HandedInFilesAreKept == Spec => HandedInFilesStay
  <1>1. ASSUME IInv, [Next]_vars
        PROVE  \/ inject.status \in Editable \/ files' = files
               \/ Met({"upload", "delete"}, {"submit", "resubmit", "grade", "reopen"})
    <2>1. files' = files \/ \E r \in Requests : rpc[r] \in Filers
      BY <1>1 DEF Next, vars, BeginSubmit, BeginResubmit, BeginUpload, BeginDelete, BeginGrade,
                  BeginReopen, BeginRevision, BeginEdit, Begin, Submit, Upload, DeleteFile, Grade,
                  Reopen, RequestRevision, EditTemplate, Fail, EndTime, Commit, Filers
    <2> QED
      BY <1>1, <2>1 DEF IInv, FilersMay, Filers, HandIns
  <1>2. IInv /\ [Next]_vars =>
          [\/ inject.status \in Editable \/ files' = files
           \/ Met({"upload", "delete"}, {"submit", "resubmit", "grade", "reopen"})]_vars
    BY <1>1
  <1> QED
    BY <1>2, Inductive, PTL DEF Spec, HandedInFilesStay

-----------------------------------------------------------------------------
(***************************************************************************)
(* The cached answers                                                      *)
(***************************************************************************)

\* After a grader's write, a detail or a list of comments that is still old is
\* one that some request has yet to delete.
OldIsPending ==
  last[1] = "grading" =>
    \A view \in Views \ {"files"}, viewer \in Viewers :
      Fresh(Key(view, viewer)) \/ \E w \in Writers : Key(view, viewer) \in pending[w]

ViewsInv ==
  /\ DOMAIN cache = Keys
  /\ DOMAIN pending = Writers
  /\ OldIsPending

\* The views other than the files are the detail and the comments.
LEMMA GradedViews == Views \ {"files"} \subseteq {"detail", "comments"}
  BY ViewsAssumption

\* A grader's write has yet to delete every one of them, for every viewer.
LEMMA GradingClears ==
  ASSUME NEW by, NEW view \in Views \ {"files"}, NEW viewer \in Viewers
  PROVE  Key(view, viewer) \in Cleared("grading", by)
  BY GradedViews DEF Cleared, ClearedByGrader

\* A step that makes no answer old, and drops from what is pending only what it
\* deletes, keeps the invariant.
LEMMA NothingAges ==
  ASSUME ViewsInv, DOMAIN cache' = Keys, DOMAIN pending' = Writers, UNCHANGED last,
         \A k \in Keys : cache'[k] = "old" =>
           cache[k] = "old" /\ \A w \in Writers : k \in pending[w] => k \in pending'[w]
  PROVE  ViewsInv'
  <1>1. \A view \in Views \ {"files"}, viewer \in Viewers : Key(view, viewer) \in Keys
    BY DEF Keys
  <1>2. ASSUME last'[1] = "grading", NEW view \in Views \ {"files"}, NEW viewer \in Viewers
        PROVE  \/ cache'[Key(view, viewer)] # "old"
               \/ \E w \in Writers : Key(view, viewer) \in pending'[w]
    <2> DEFINE k == Key(view, viewer)
    <2>1. k \in Keys
      BY <1>1
    <2>2. cache[k] # "old" \/ \E w \in Writers : k \in pending[w]
      BY <1>2 DEF ViewsInv, OldIsPending, Fresh
    <2> QED
      BY <2>1, <2>2
  <1> QED
    BY <1>2 DEF ViewsInv, OldIsPending, Fresh

\* Every step of a request, of a reader and of time keeps it.
LEMMA ViewsStep == ViewsInv /\ [ViewsNext]_viewsVars => ViewsInv'
  <1> SUFFICES ASSUME ViewsInv, [ViewsNext]_viewsVars PROVE ViewsInv'
    OBVIOUS
  <1>1. DOMAIN cache = Keys /\ DOMAIN pending = Writers
    BY DEF ViewsInv
  <1>2. ASSUME NEW w \in Writers, NEW kind \in Writes, NEW by \in Viewers, Write(w, kind, by)
        PROVE  ViewsInv'
    <2>1. /\ DOMAIN cache' = Keys /\ DOMAIN pending' = Writers
          /\ pending'[w] = Cleared(kind, by) /\ last'[1] = kind
      BY <1>1, <1>2 DEF Write
    <2>2. CASE kind = "grading"
      <3>1. \A view \in Views \ {"files"}, viewer \in Viewers : Key(view, viewer) \in pending'[w]
        BY <2>1, <2>2, GradingClears
      <3> QED
        BY <2>1, <3>1 DEF ViewsInv, OldIsPending
    <2>3. CASE kind # "grading"
      BY <2>1, <2>3 DEF ViewsInv, OldIsPending
    <2> QED
      BY <2>2, <2>3
  <1>3. ASSUME NEW w \in Writers, Delete(w) PROVE ViewsInv'
    <2>1. PICK k \in pending[w] :
            /\ pending' = [pending EXCEPT ![w] = @ \ {k}]
            /\ cache' = [c \in Keys |-> IF c = k THEN "none" ELSE cache[c]]
      BY <1>3 DEF Delete
    <2>2. UNCHANGED last
      BY <1>3 DEF Delete
    <2>3. \A c \in Keys : cache'[c] = "old" =>
            cache[c] = "old" /\ \A v \in Writers : c \in pending[v] => c \in pending'[v]
      BY <1>1, <2>1
    <2> QED
      BY <1>1, <2>1, <2>2, <2>3, NothingAges
  <1>4. ASSUME NEW r \in Readers, Store(r) PROVE ViewsInv'
    <2>1. /\ DOMAIN cache' = Keys /\ UNCHANGED <<pending, last>>
          /\ \A c \in Keys : cache'[c] = "old" => cache[c] = "old"
      BY <1>1, <1>4 DEF Store
    <2> QED
      BY <1>1, <2>1, NothingAges
  <1>5. ASSUME NEW r \in Readers, NEW k \in Keys, Compute(r, k) PROVE ViewsInv'
    BY <1>1, <1>5, NothingAges DEF Compute
  <1>6. ASSUME NEW k \in Keys, Expire(k) PROVE ViewsInv'
    <2>1. /\ DOMAIN cache' = Keys /\ UNCHANGED <<pending, last>>
          /\ \A c \in Keys : cache'[c] = "old" => cache[c] = "old"
      BY <1>1, <1>6 DEF Expire
    <2> QED
      BY <1>1, <2>1, NothingAges
  <1>7. CASE ClearAll
    BY <1>1, <1>7, NothingAges DEF ClearAll
  <1>8. CASE UNCHANGED viewsVars
    BY <1>1, <1>8, NothingAges DEF viewsVars
  <1> QED
    BY <1>2, <1>3, <1>4, <1>5, <1>6, <1>7, <1>8 DEF ViewsNext

\* After a grade, a reopening or a request for revision, once its deletions and
\* those before it are done, nobody is shown an older detail or older comments,
\* but for an answer that a reader puts back late.
THEOREM GradingReachesEveryone == ViewsSpec => []GradingIsSeen
  <1>1. ViewsInit => ViewsInv
    BY DEF ViewsInit, ViewsInv, OldIsPending
  <1>2. ViewsInv => GradingIsSeen
    BY DEF ViewsInv, OldIsPending, GradingIsSeen, Settled
  <1> QED
    BY <1>1, <1>2, ViewsStep, PTL DEF ViewsSpec

=============================================================================

----------------------------- MODULE Scoreboard -----------------------------
(***************************************************************************)
(* What the engine promises every reader of the scores: a board of whole   *)
(* rounds.  A round lands in one step, with its scores and its effect on   *)
(* the failure counts; the only round that can go again is the newest one; *)
(* and the stored scores and counts are at every moment those of the       *)
(* rounds on the board.                                                    *)
(***************************************************************************)
EXTENDS ScoreTables

CONSTANT Numbers  \* the numbers rounds may have

VARIABLES
  board,     \* the landed rounds: [number, passed], passed the services up
  scores,    \* the points stored for them: [number, team, points]
  failures   \* per service, the stored run of failures

boardVars == <<board, scores, failures>>

\* Points as the rounds on the board earn them.
PointsOf(B) ==
  UNION {{[number |-> w.number, team |-> w.team, points |-> w.points] :
            w \in RowsFor(b.number, b.number, b.passed)} : b \in B}

\* The rounds since service s was last up.
DownSince(B, s) ==
  {b \in B : \A u \in B : s \in u.passed => u.number < b.number}

Newest(B, n) == \A b \in B : b.number <= n

Tell ==
  /\ scores' = PointsOf(board')
  /\ failures' = [s \in Services |-> Cardinality(DownSince(board', s))]

\* The next round lands whole.
Land ==
  /\ \E n \in Numbers, passed \in SUBSET Services :
       /\ \A b \in board : b.number < n
       /\ board' = board \cup {[number |-> n, passed |-> passed]}
  /\ Tell

\* The newest round is withdrawn whole.
Withdraw ==
  /\ \E b \in board : Newest(board, b.number) /\ board' = board \ {b}
  /\ Tell

BoardInit ==
  /\ board = {} /\ scores = {}
  /\ failures = [s \in Services |-> 0]

BoardNext == Land \/ Withdraw

BoardSpec == BoardInit /\ [][BoardNext]_boardVars

=============================================================================

------------------------------ MODULE MCEngine ------------------------------
(* The instances of Engine that TLC checks. *)
EXTENDS Engine

CONSTANTS web, mail, t1, t2

\* Both services belong to one team, whose points tell which of them passed.
OneTeam == [s \in Services |-> t1]
Unequal == [s \in Services |-> IF s = web THEN 2 ELSE 3]

=============================================================================

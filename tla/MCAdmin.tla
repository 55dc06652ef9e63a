------------------------------ MODULE MCAdmin ------------------------------
(* The instances of Admin that TLC checks. *)
EXTENDS Admin, TLC

CONSTANTS web, t1, a1, a2

OneTeam == [s \in Services |-> t1]
Worth2  == [s \in Services |-> 2]
Requests == Permutations(Admins)

=============================================================================

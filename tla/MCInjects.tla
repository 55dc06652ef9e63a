------------------------------ MODULE MCInjects ------------------------------
(* The instances of Injects that TLC checks. *)
EXTENDS Injects, TLC

CONSTANTS r1, r2, i1, i2

Symmetric == Permutations(Requests) \cup Permutations(Items)

=============================================================================

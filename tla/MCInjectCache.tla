---------------------------- MODULE MCInjectCache ----------------------------
(* The instances of InjectCache that TLC checks. *)
EXTENDS InjectCache, TLC

CONSTANTS w1, w2, u1, u2

Symmetric == Permutations(Readers) \cup Permutations(Writers)

=============================================================================

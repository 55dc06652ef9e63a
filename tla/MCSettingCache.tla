--------------------------- MODULE MCSettingCache ---------------------------
(* The instances of SettingCache that TLC checks. *)
EXTENDS SettingCache, TLC

CONSTANTS r1, r2

Symmetric == Permutations(Requests)

=============================================================================

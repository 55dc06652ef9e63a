------------------------------ MODULE MCFlags ------------------------------
(* The instance of Flags that TLC checks: two teams with a host of the same *)
(* name; a user, a root and a dummy flag, of which agents learn before they *)
(* are live.                                                                *)
EXTENDS Flags, TLC

CONSTANTS r1, r2, v1, t1, t2

FlagOf(id, perm, dummy) ==
  [id |-> id, platform |-> "nix", start_time |-> 2, end_time |-> 4, perm |-> perm, dummy |-> dummy]

FewFlags == {FlagOf(1, "user", FALSE), FlagOf(2, "root", FALSE), FlagOf(3, "user", TRUE)}

UserFlag == {FlagOf(1, "user", FALSE)}

AgentOn(host, team) == [host |-> host, team |-> team, platform |-> "nix"]

TwoTeams == {AgentOn("web", t1), AgentOn("web", t2)}

Symmetric == Permutations(Requests) \cup Permutations({t1, t2})

=============================================================================

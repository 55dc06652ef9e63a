----------------------------- MODULE MCDelivery -----------------------------
(* The instance of Delivery that TLC checks: a page of a blue team with two *)
(* requests in flight, the cached answer it shares with others of its team, *)
(* and inject updates of the team that take up the room of the queue.       *)
EXTENDS Delivery

CONSTANT p

Blue == [role |-> "blue", team_id |-> 1]

SameTeam == [v \in Pages |-> Blue]

InjectUpdates == {[type |-> "inject_update", visibility |-> "blue", team_id |-> 1]}

=============================================================================

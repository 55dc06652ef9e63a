----------------------------- MODULE MCSchedule -----------------------------
(* The instance of Schedule that TLC checks. *)
EXTENDS Schedule

Days(first, second) ==
  {[id |-> 1, start |-> first[1], end |-> first[2], enabled |-> TRUE],
   [id |-> 2, start |-> second[1], end |-> second[2], enabled |-> TRUE]}

\* Two days with a night between them; two windows that overlap; none.
Plans == {Days(<<2, 3>>, <<4, 5>>), Days(<<0, 2>>, <<1, 3>>), {}}

\* The second is refused.
Asked == {<<3, 5>>, <<4, 4>>}

=============================================================================

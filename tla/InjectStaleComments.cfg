SPECIFICATION ViewsSpec
CONSTANTS
  team = team
  graders = graders
  w1 = w1
  w2 = w2
  u1 = u1
  u2 = u2
  Views = {"detail", "comments"}
  Readers = {u1}
  Writers = {w1}
INVARIANTS
  CommentsAreCleared

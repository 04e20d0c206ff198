SPECIFICATION AutoSpec
CONSTANTS
  Reviews = {1, 2}
  Slots = {s1}
  Basic = FALSE
  Limit = 1
  MaxDrafts = 1
  Shared = {}
  StopAfter = 1
  Disturbances = {"crash", "lost", "direct", "cut"}
INVARIANTS AutoInv RepliesInPlace NothingSkipped
PROPERTY HeldStaysWithOwner

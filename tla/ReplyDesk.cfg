SPECIFICATION DeskSpec
CONSTANTS
  Reviews = {1, 2}
  Slots = {s1, s2}
  Basic = TRUE
  Limit = 2
  MaxDrafts = 2
  Shared = {2}
INVARIANTS DeskInv OneFinal
PROPERTY AnsweredStays

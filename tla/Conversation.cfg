SPECIFICATION FairSpec
CONSTANTS
  a = a
  b = b
  c = c
  None = None
  Sessions = {a, b, c}
  Scoped = {a}
  FirstLog <- TwoChats
  PageSize = 1
  Slots = {1, 2}
  MaxMessages = 8
  MaxUses = 4
INVARIANTS PaneIsOneHistory
PROPERTIES ChoiceIsShown
CHECK_DEADLOCK FALSE

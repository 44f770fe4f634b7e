SPECIFICATION Spec
CONSTANTS
  PageSize = 19
  HeaderSize = 4
  SlotSize = 3
  TIDSize = 3
  Lengths = {1, 2, 3, 4}
  Tags = {0}
  MaxPages = 2
  Writers = {w1}
  Readers = {}
  Nil = Nil
CHECK_DEADLOCK FALSE
INVARIANT PagesAreSound

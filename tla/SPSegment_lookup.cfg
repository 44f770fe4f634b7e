SPECIFICATION Spec
CONSTANTS
  PageSize = 16
  HeaderSize = 4
  SlotSize = 3
  TIDSize = 3
  Lengths = {3, 6}
  Tags = {0}
  MaxPages = 3
  Writers = {w1}
  Readers = {r1}
  Nil = Nil
CHECK_DEADLOCK FALSE
PROPERTY LookupAssertion

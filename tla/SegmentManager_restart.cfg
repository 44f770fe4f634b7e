SPECIFICATION Spec
CONSTANTS
  Threads = {t1, t2}
  Administrators = {t1}
  MaxSegments = 3
  Descriptors = {3, 4, 5, 6, 7, 8}
  Nil = Nil
  Sizes = {9}
  MaxRestarts = 1
CHECK_DEADLOCK FALSE
INVARIANTS
  TypeOK
  HandlesAreOpen
  SizesAreBacked
PROPERTIES
  BufferOpensOnce
  ChangesArePersisted
  ImplementsSegmentStore

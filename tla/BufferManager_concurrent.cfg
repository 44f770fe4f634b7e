SPECIFICATION Spec
CONSTANTS
  Threads = {t1, t2}
  Pages = {p1, p2, p3}
  Size = 2
  MaxGeneration = 1
  Nil = Nil
  MaxFix = 1
  MaxWrites = 1
SYMMETRY Symmetry
INVARIANTS
  TypeOK
  EvictionFindsNode
  SlotsHaveOneHolder
  QueuedFramesAreCurrent
  FixedPagesStay
  OneIOPerPage
  AssertionsHold
PROPERTIES
  NoWriteBackWhileFixed
  ImplementsPageStore

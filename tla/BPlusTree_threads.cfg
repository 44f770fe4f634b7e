SPECIFICATION LiveSpec
CONSTANTS
  t1 = t1
  t2 = t2
  InnerDegree = 2
  LeafDegree = 2
  Default = Default
  NoPage = NoPage
  Threads = {t1, t2}
  Loader = t1
  Loads <- DescendingLoads
  Keys = {1, 8}
  MaxCalls = 3
  MaxPages = 14
  Nil = Nil
CHECK_DEADLOCK FALSE
INVARIANTS
  TypeOK
  EveryKeyIsFound
  ChainIsSorted
  TreeIsBalanced
  ChangesAreMarked
  AssertionsHold
PROPERTIES
  ImplementsOrderedMap
  CallsReturn

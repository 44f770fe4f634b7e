SPECIFICATION Spec
CONSTANTS
  Threads = {t1}
  Pages = {p1, p2, p3}
  Size = 2
  MaxGeneration = 1
  Nil = Nil
  MaxFix = 2
  MaxWrites = 1
SYMMETRY Symmetry
CHECK_DEADLOCK FALSE
PROPERTY NoWriteBackWhileFixed

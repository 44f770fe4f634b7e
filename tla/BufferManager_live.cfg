SPECIFICATION LiveSpec
CONSTANTS
  Threads = {t1, t2}
  Pages = {p1, p2, p3}
  Size = 2
  MaxGeneration = 1
  Nil = Nil
  MaxFix = 1
  MaxWrites = 0
PROPERTIES
  LoadCompletes
  FixCompletesAlone

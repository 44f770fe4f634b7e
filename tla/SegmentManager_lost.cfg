SPECIFICATION Spec
CONSTANTS
  Threads = {t1}
  Administrators = {t1}
  MaxSegments = 2
  Descriptors = {3, 4}
  Nil = Nil
  Sizes = {1}
  MaxRestarts = 1
CHECK_DEADLOCK FALSE
PROPERTIES
  SegmentsSurviveRestart

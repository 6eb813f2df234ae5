SPECIFICATION Spec
CONSTANTS
  Widths = {2}
  Heights = {2}
  StripRows = {1}
  FrameCounts = {2}
  MaxRuns = 2
  MaxUploads = 0
  PipeCap = 2
  CounterWrap = 4
  MayTimeOut = TRUE
PROPERTY StartFindsDrained
CHECK_DEADLOCK FALSE

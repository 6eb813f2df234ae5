SPECIFICATION Spec
CONSTANTS
  Widths = {1, 2}
  Heights = {1, 3}
  StripRows = {2}
  FrameCounts = {1, 2}
  MaxRuns = 2
  MaxUploads = 1
  PipeCap = 1
  CounterWrap = 3
  MayTimeOut = TRUE
INVARIANTS TypeOK RunResults TagIsPlace DrainedWhenDone
PROPERTY RunEnds
CHECK_DEADLOCK FALSE

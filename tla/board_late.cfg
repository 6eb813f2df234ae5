SPECIFICATION FairSpec
CONSTANTS
  ROI = 3
  OFF = 1
  MARGIN = 0
  NTags = 16
  FifoRows = 3
  Sizes <- AllSizes
  Fids <- ThreeFids
  NChunks = 1
  Contents = {"a"}
  Offsets = {0, 1}
  MaxFrames = 2
  MaxFaults = 1
  MaxCmds = 0
  MaxUploads = 0
  FaultKinds = {"lose", "dup", "copy", "delay"}
  Positions = {3}
  Patient = FALSE
  Lockstep = FALSE
  OneUpload = TRUE
INVARIANTS
  TypeOK
  EachFrameOnce
  OriginWaits
PROPERTIES
  ReportsInOrder
  ServiceSpec
  EveryFrameReported
  ReceiverReturns
CHECK_DEADLOCK FALSE

SPECIFICATION HistorySpec
CONSTANTS
  ROI = 3
  OFF = 1
  MARGIN = 0
  NTags = 16
  FifoRows = 3
  Sizes <- TrackedSizes
  Fids <- ThreeFids
  NChunks = 1
  Contents = {"a"}
  Offsets = {0, 1}
  MaxFrames = 2
  MaxFaults = 1
  MaxCmds = 0
  MaxUploads = 0
  FaultKinds = {"dup"}
  Positions = {3}
  Patient = TRUE
  Lockstep = FALSE
  OneUpload = TRUE
INVARIANTS
  CompleteHasAllRows

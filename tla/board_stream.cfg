SPECIFICATION BoardSpec
CONSTANTS
  ROI = 3
  OFF = 1
  MARGIN = 0
  NTags = 16
  FifoRows = 4
  Sizes <- TrackedSizes
  Fids <- ThreeFids
  NChunks = 1
  Contents = {"a"}
  Offsets = {1}
  MaxFrames = 3
  MaxFaults = 2
  MaxCmds = 0
  MaxUploads = 0
  FaultKinds = {"lose", "dup", "err"}
  Positions = {0}
  Patient = TRUE
  Lockstep = FALSE
  OneUpload = TRUE
INVARIANTS
  OwnAnswer
  FaultContained

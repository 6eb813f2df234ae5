SPECIFICATION BoardSpec
CONSTANTS
  ROI = 3
  OFF = 1
  MARGIN = 0
  NTags = 16
  FifoRows = 3
  Sizes <- TrackedSizes
  Fids <- ThreeFids
  NChunks = 2
  Contents = {"a", "b"}
  Offsets = {0, 1}
  MaxFrames = 1
  MaxFaults = 1
  MaxCmds = 0
  MaxUploads = 4
  FaultKinds = {"lose"}
  Positions = {3}
  Patient = TRUE
  Lockstep = TRUE
  OneUpload = FALSE
INVARIANTS
  TemplateWhole

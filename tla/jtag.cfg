SPECIFICATION FairSpec
CONSTANTS
  BufLen = 3
  FifoDepth = 1
  Threshold = 0
  IntMax = 4
  Timeout0 = 2
  Requests = {0}
  MaxCount = 2
  MaxBytes = 4
  MaxLeaves = 1
INVARIANTS NoLostReceive NoLostTransmit
PROPERTIES LinkSpec CallsEnd ReadServed Drains

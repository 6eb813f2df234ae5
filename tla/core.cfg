SPECIFICATION Spec
CONSTANTS
  MaxTiles = 54
  Tiles <- UpToAll
  NoTile = 0
  Pixels <- ShippedPixels
  Ops <- ShippedOps
  Latency <- ShippedLatency
  CopyWords = 256
  HeadTime = 268
  Interval = 524
  Pauses = {0, 300, 700}
  PausedTiles = {2, 3, 4, 5, 40, 44}
INVARIANTS
  TypeOK OwnWindow WholeTiles OwnBank SteadyInterval ResultsInOrder
PROPERTY AllTilesScored

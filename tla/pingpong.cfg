SPECIFICATION Spec
CONSTANTS
  Tiles = {t1, t2, t3, t4}
  NoTile = NoTile
INVARIANTS
  Alternation
PROPERTIES
  QueueSpec

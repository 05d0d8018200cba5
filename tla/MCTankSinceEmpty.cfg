CONSTANTS
  Scale = 1
  DaySecs = 2
  Levels = {1, 5, 9}
  Times = {1, 2, 3}
  Configs <- OneConfig
  NoSnapshot = NoSnapshot
  MaxReads = 4
SPECIFICATION Spec
INVARIANTS
  ProjectedSinceEmpty

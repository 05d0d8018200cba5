CONSTANTS
  Scale = 1
  DaySecs = 2
  Levels = {1, 5, 9}
  Times = {1, 2, 3}
  Configs <- SameDetection
  NoSnapshot = NoSnapshot
  MaxReads = 3
SPECIFICATION Spec
INVARIANTS
  TypeOK
  StateMatchesHistory
  ShownBaseline
  LatestPumpOut
PROPERTIES
  RestartTransparent
  CapHonoured
  ResetOnlyOnAFall

CONSTANTS
  Scale = 2
  DaySecs = 2
  Levels = {0, 1, 3, 10}
  Times = {0, 1, 2, 4}
  Distances = {0, 1, 3, 10}
  MaxLen = 3
  Millivolts <- MCMillivolts
  Curves <- MCCurves
  Measurements <- MCMeasurements
  Garbage <- MCGarbage
  Versions <- MCVersions
  Others <- MCOthers
  MaxWords = 2
  Absent = Absent
  Malformed = Malformed
  Mistyped = Mistyped
SPECIFICATION Spec
INVARIANTS
  PctIsNearest
  CloserIsFuller
  NewSorts
  BatteryMonotone
  SlopeIsLeastSquares
  ProjectionReachesFull
  ProjectsIffFilling
  DecodesTheMeasurement
  CorruptRefused
  EchoesWhatIsLearned
CHECK_DEADLOCK FALSE

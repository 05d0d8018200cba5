CONSTANTS
  Values = {v1, v2, v3}
  Absent = Absent
  Torn = Torn
SPECIFICATION Spec
INVARIANTS
  TypeOK
  NeverTorn
  OkMeansStored
PROPERTIES
  AtomicSpec

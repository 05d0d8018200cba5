CONSTANTS
  Sendings <- MCSendings
  None = None
  Ignored = Ignored
  Malformed = Malformed
SPECIFICATION Spec
INVARIANTS
  DecodesWhole
  DecodedAsSent
  HoldsTheRest
  NothingCorruptKept

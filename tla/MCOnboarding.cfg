CONSTANTS
  d1 = d1
  d2 = d2
  Devices = {d1, d2}
  FromCloud = FromCloud
  Chatter <- Words
  None = None
  Default = Default
  Misread = Misread
  Torn = Torn
  MaxFaults = 2
  Scripts <- Connecting
  OddScripts <- Odd
  Replies <- AnyOrder
  Escapes <- Quoted
SPECIFICATION FairSpec
INVARIANTS
  TypeOK
  WrittenMeansBoth
  ConfigAgrees
  ToldItsOwn
  OneDevice
  ServesWhatWasLearned
PROPERTIES
  WrittenOnce
  Completes
CHECK_DEADLOCK FALSE

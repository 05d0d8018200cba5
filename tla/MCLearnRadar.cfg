CONSTANTS
  Devices = {d1}
  FromCloud = FromCloud
  Chatter <- Words
  None = None
  Default = Default
  Misread = Misread
  Torn = Torn
  MaxFaults = 0
  Scripts <- Documented
  OddScripts = {}
  Escapes = {}
  Replies <- InTableOrder
SPECIFICATION Spec
INVARIANTS
  RadarRecorded

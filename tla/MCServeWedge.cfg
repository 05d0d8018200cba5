CONSTANTS
  Deployments = {TRUE, FALSE}
  ChanCap = 7
  FwCfg = "fw1"
  FwDev = "fw1"
  LogFormats = {"text"}
  NoVersion = "none"
  MaxReads = 1
  MaxPings = 2
  MaxFaults = 1
  InboxCap = 2
SPECIFICATION FairSpec
PROPERTIES
  ReseededOnConnect
CHECK_DEADLOCK FALSE

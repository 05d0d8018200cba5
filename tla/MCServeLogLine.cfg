CONSTANTS
  Deployments = {TRUE, FALSE}
  ChanCap = 10
  FwCfg = "fw0"
  FwDev = "fw1"
  LogFormats = {"withMac"}
  NoVersion = "none"
  MaxReads = 0
  MaxPings = 1
  MaxFaults = 0
  InboxCap = 2
SPECIFICATION Spec
INVARIANTS
  FirmwareEchoed

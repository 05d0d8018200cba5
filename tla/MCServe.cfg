CONSTANTS
  Deployments = {TRUE, FALSE}
  ChanCap = 12
  FwCfg = "fw1"
  FwDev = "fw1"
  LogFormats = {"json", "text"}
  NoVersion = "none"
  MaxReads = 2
  MaxPings = 1
  MaxFaults = 2
  InboxCap = 2
SPECIFICATION FairSpec
INVARIANTS
  TypeOK
  PublishedIsStored
  NeverWedged
PROPERTIES
  StateNeverRegresses
  ReseededOnConnect
  DeviceConverges
  KeepsCustody

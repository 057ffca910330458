CONSTANTS
  Conn = {c1, c2}
  Main = Main
  Requests = {"StartMihomo", "StopMihomo", "SetDns", "Shutdown", "Forged"}
  MaxOpen = 1
  MaxFaults = 1
  KeepAlive = TRUE
  MacOS = TRUE
  Pid = {p1}
  NoPid = NoPid
  Grace = 1
  TryWaitMayFail = TRUE
  GroupKill = TRUE
SPECIFICATION FairSpec
PROPERTIES ShutdownHonoured RecoversFromCrash  ConnectionsAccepted

CONSTANTS
  Conn = {c1, c2, c3}
  Main = Main
  Requests = {"StartMihomo", "StopMihomo", "Shutdown"}
  MaxOpen = 3
  MaxFaults = 1
  KeepAlive = FALSE
  MacOS = FALSE
  Pid = {p1, p2}
  NoPid = NoPid
  Grace = 1
  TryWaitMayFail = FALSE
  GroupKill = TRUE
SPECIFICATION Spec
SYMMETRY Symmetry
INVARIANTS TypeOK AtMostOneMihomo CleanExitLeavesNoMihomo
PROPERTIES ExitOwesNoReply SlotSpec

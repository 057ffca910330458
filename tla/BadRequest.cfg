CONSTANTS
  Conn = {c1}
  Main = Main
  Requests = {"Ping", "Garbage"}
  MaxOpen = 2
  MaxFaults = 1
  KeepAlive = FALSE
  MacOS = FALSE
  Pid = {p1, p2}
  NoPid = NoPid
  Grace = 1
  TryWaitMayFail = FALSE
  GroupKill = TRUE
SPECIFICATION Spec
INVARIANTS GarbageIsBadRequest

CONSTANTS
  Task = {t1}
  Pid = {p1}
  NoPid = NoPid
  Grace = 1
  TryWaitMayFail = FALSE
  GroupKill = TRUE
SPECIFICATION FairSpec
PROPERTIES DeathDetected

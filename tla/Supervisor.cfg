CONSTANTS
  Task = {t1, t2, t3}
  Pid = {p1, p2, p3}
  NoPid = NoPid
  Grace = 2
  TryWaitMayFail = TRUE
  GroupKill = TRUE
SPECIFICATION FairSpec
INVARIANTS TypeOK NoForeignSignal
PROPERTIES CallReturns

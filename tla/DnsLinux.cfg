CONSTANTS
  Task = {t1, t2}
  Iface = {eth, wlan}
  NoRoute = NoRoute
SPECIFICATION Spec
INVARIANTS TypeOK QuietMeansFresh SetTakesEffect ClearUndoesAll
PROPERTIES SettingSpec

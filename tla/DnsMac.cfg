CONSTANTS
  Task = {t1, t2}
  Hanging = {t2}
  NumServices = 2
SPECIFICATION FairSpec
INVARIANTS TypeOK QuietMeansFresh SoloRequestIsComplete
PROPERTIES HangDoesNotSpread SettingSpec

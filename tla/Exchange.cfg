CONSTANTS
  Base = 3
  Cap = 6
  ClockMod = 8
  Window = 2
  Secret = {s1, s2}
  HelperSecret = s1
  RequestSize = 2
  ResponseSize = 4
SPECIFICATION FairSpec
INVARIANTS TypeOK ExitCodeTells
PROPERTIES ConversationSpec ToolExits ConnectionReleased

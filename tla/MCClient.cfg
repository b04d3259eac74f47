SPECIFICATION ClientSpec
CONSTANTS
  None = None
  Owners = {0}
  TokenLayouts <- Layouts
INVARIANTS
  CommandsSound
  OrderTestIsExact
  MarksAgreeWithTheEngine
PROPERTIES
  LiveSound
  EntryAndDemoSound
  ClientGoesOn
CHECK_DEADLOCK FALSE

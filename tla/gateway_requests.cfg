SPECIFICATION Spec
CONSTANTS
  Requests = {r1}
  Tokens <- MCTokens
  Methods = {"list", "call"}
  Channels = {"telegram", "streamable-http"}
  Required <- MCRequired
  Optional <- MCOptional
  CallTools <- ReadTools
  ToolOrder <- MCToolOrder
CHECK_DEADLOCK FALSE
INVARIANTS
  AdapterBacked
  PolicyDecides
  ResultRecorded
  RefusalExplained
  SpansJoin
  ListedIsUsable

SPECIFICATION Spec
CONSTANTS
  Second = 2
  HalfHour = 2
  Now = 0
  Starts <- MCInstants
  Ends <- MCInstants
  Offsets <- MCOffsets
CHECK_DEADLOCK FALSE
INVARIANTS
  WithinWorkingHours

SPECIFICATION Spec
CONSTANTS
  Subjects = {s1}
  Actions = {"availability", "proposal"}
  Limits <- MCLimits
  Window = 2
  MaxTime = 4
  MaxRestarts = 2
CHECK_DEADLOCK FALSE
INVARIANTS
  SlidingBound
  RefusalJustified

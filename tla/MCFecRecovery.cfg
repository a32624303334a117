SPECIFICATION Spec
CONSTANTS
  None = None
  CriticalFrom = 2
  Slots = {1, 2}
  MaxClock = 4
  MaxNet = 3
  MaxEvents = 0
INVARIANTS
  RecoveredWasLost
CHECK_DEADLOCK FALSE

SPECIFICATION Spec
CONSTANTS
  None = None
  CriticalFrom = 2
  Slots = {1, 2}
  MaxClock = 4
  MaxNet = 3
  MaxEvents = 2
INVARIANTS
  TypeOK
  LoggedOnce
  NoSilentGap
  LossIsReal
CHECK_DEADLOCK FALSE

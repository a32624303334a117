SPECIFICATION Spec
CONSTANTS
  None = None
  Pods = {p1, p2}
  Deletes = {d1}
  Radii = {50}
  Default = 50
  EntryTTL = 3
  TombTTL = 9
  Grace = 3
  MaxAttempts = 3
  MaxEvents = 1
INVARIANTS
  TypeOK
  DeletedStaysHidden
  LivingRegistered
PROPERTIES
  LivingShown
  DeadForgotten

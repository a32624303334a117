SPECIFICATION FairSpec
CONSTANTS
  None = None
  RekeyThreshold = 3
  MaxFaults = 2
  MaxCommands = 1
  MaxUp = 4
  MaxDown = 3
  MaxTasks = 2
  MaxEph = 15
INVARIANTS
  TypeOK
  FaultFreeAgreement
PROPERTIES
  MakeBeforeBreak
  LinkHeals

SPECIFICATION Spec
CONSTANTS
    Buttons = {stop, rtl}
    None = none
    FailAfter = 3
    CloseAfter = 2
    MaxCommands = 3
    MaxDrops = 1
INVARIANTS
    NeverStuck
    DuplicateOnlyByFallback
    TrueReports
PROPERTIES
    LockOpens

SPECIFICATION Spec
CONSTANTS
    d1 = d1
    none = none
    Drones = {d1}
    ALL = ALL
    None = none
    FilterKeys = {telemetry}
    MaxEvents = 2
    SourceOf <- MCSourceOf
    PacketEvents = {1}
    Counts = {0, 1}
    MaxLogCount = 3
    MaxUids = 3
INVARIANTS
    UniqueIds
    AnnouncedOnce
    TargetSelectable
    PersistPending

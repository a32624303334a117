SPECIFICATION Spec
CONSTANTS
    Drones = {d1, d2}
    Losses = {100}
    FlushInterval = 1
    WatchInterval = 2
    HistoryInterval = 2
    WatchdogStale = 2
    Late = 1
    MaxPathPoints = 2
    MaxHistoryPoints = 1
    MaxArrivals = 3
INVARIANTS
    TypeOK
    LiveIsRecent
    PathFollows
PROPERTIES
    ImplementsFleetView
    SilenceShown

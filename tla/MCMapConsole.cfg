SPECIFICATION Spec
CONSTANTS
    Drones = {d1, d2}
    Stations = {g1, g2}
    Maneuvers = {orbit}
    None = none
    MaxRequests = 3
    MaxWaypoints = 1
INVARIANTS
    OneSelection
    ManeuverArmed
    BusyIsReal
    EvacuationComplete
PROPERTIES
    ButtonsReturn

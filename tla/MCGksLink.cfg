SPECIFICATION FairSpec
CONSTANTS
  g1 = g1
  g2 = g2
  GKS = {g1, g2}
  Positions <- MCPositions
  Dist <- MCDist
  Radius <- MCRadius
  Hysteresis = 2
  Slots = {1, 2}
  MaxEvents = 1
  None = None
INVARIANTS
  CommandPathClosed
  EndpointTimed
PROPERTIES
  LinkSettles
CHECK_DEADLOCK FALSE

SPECIFICATION LimiterSpec
CONSTANTS
  IPs = {ip1, ip2}
  Capacity = 6
  Cost = 2
  Rate = 1
  MaxReal = 5
  MaxSkew = 2
SYMMETRY Symmetry
INVARIANTS
  RateBound
  QuietSourcePasses

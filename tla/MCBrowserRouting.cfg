SPECIFICATION RoutingSpec
CONSTANTS
  Managers = {m1, m2}
  MaxRules = 1
  MaxQueue = 2
SYMMETRY ManagerSymmetry
INVARIANT RoutingSafety
